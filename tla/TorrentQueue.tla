---------------------------- MODULE TorrentQueue ----------------------------
(***************************************************************************)
(* The queue of torrents: their positions (torrent.c), the slots of the      *)
(* session (session.c), and the pulse that starts the next (peer-mgr.c).      *)
(***************************************************************************)
EXTENDS Integers, FiniteSets, FiniteSetsExt, SequencesExt

CONSTANTS QTorrents,      \* torrents that may be in the session
          QueueSizes,     \* values of session->queueSize
          MaxQueueCalls
ASSUME QueueAssumption == QueueSizes \subseteq Nat /\ MaxQueueCalls \in Nat /\ IsFiniteSet(QTorrents)

Directions == {"up", "down"}
INT_MAX == 1000
Nowhere == -1

VARIABLES
    position,   \* position[t]: queuePosition; Nowhere if t is not in the session
    doing,      \* doing[t]: stopped, queued, running or checking
    aspect,     \* aspect[t]: its direction, whether it is stalled, whether its files are there
    slots,      \* slots[d]: queueSize and queueEnabled
    pulse2,     \* the last pulse: what it found, what it started, whom it told
    qCalls
queueVars == <<position, doing, aspect, slots, pulse2, qCalls>>

NoPulse == [dir |-> "up", before |-> 0, started |-> {}, told |-> {}, waiting |-> {}, overtaken |-> {}]
QueueInit ==
    /\ position = [t \in QTorrents |-> Nowhere]
    /\ doing = [t \in QTorrents |-> "stopped"]
    /\ aspect = [t \in QTorrents |-> [dir |-> "down", stalled |-> FALSE, files |-> TRUE]]
    /\ \E n \in QueueSizes : slots = [d \in Directions |-> [size |-> n, enabled |-> TRUE]]
    /\ pulse2 = NoPulse /\ qCalls = 0
QCall == qCalls < MaxQueueCalls /\ qCalls' = qCalls + 1

Present == {t \in QTorrents : position[t] # Nowhere}

(***************************************************************************)
(* Positions                                                               *)
(***************************************************************************)
(* Mutant: the torrent at the new position does not move *)
Passed_Short(old, new, p) == (old < new /\ p \in old..(new - 1)) \/ (old > new /\ p \in new..(old - 1))
(* Those between the old position and the new one make room *)
Passed(old, new, p) == (old < new /\ p \in old..new) \/ (old > new /\ p \in new..(old - 1))
Shift(old, new) == IF old < new THEN -1 ELSE 1

(* tr_torrentSetQueuePosition: pos becomes the last position at most *)
SetPosition(pos, t, wanted) ==
    LET old == pos[t]
        new == Max({0, wanted})
        others == {x \in Present : x # t}
        moved == [x \in QTorrents |-> IF x \in others /\ Passed(old, new, pos[x]) THEN pos[x] + Shift(old, new) ELSE pos[x]]
        back == Max({Nowhere} \cup {moved[x] : x \in others})
    IN  [moved EXCEPT ![t] = Min({new, back + 1})]

SetQueuePosition(t, wanted) ==
    /\ QCall /\ t \in Present
    /\ position' = SetPosition(position, t, wanted)
    /\ UNCHANGED <<doing, aspect, slots, pulse2>>

(* tr_torrentsQueueMove...: one torrent after the other, in the order of the  *)
(* positions before the call or, for top and down, in the opposite order       *)
UpTo(S, t) == {x \in S : position[x] <= position[t]}
InOrder(S) == [i \in 1..Cardinality(S) |-> CHOOSE t \in S : Cardinality(UpTo(S, t)) = i]
GoesTo(where, pos, t) == CASE where = "top"    -> 0
                           [] where = "up"     -> pos[t] - 1
                           [] where = "down"   -> pos[t] + 1
                           [] where = "bottom" -> INT_MAX
MoveAll(S, where) ==
    LET n == Cardinality(S)
        line == IF where \in {"top", "down"} THEN Reverse(InOrder(S)) ELSE InOrder(S)
        M[i \in 0..n] == IF i = 0 THEN position
                         ELSE SetPosition(M[i - 1], line[i], GoesTo(where, M[i - 1], line[i]))
    IN  M[n]
QueueMove(S, where) ==
    /\ QCall /\ S # {} /\ S \subseteq Present
    /\ position' = MoveAll(S, where)
    /\ UNCHANGED <<doing, aspect, slots, pulse2>>

(* torrentInit: the new torrent is the last *)
Add(t, d) ==
    /\ QCall /\ t \notin Present
    /\ position' = [position EXCEPT ![t] = Cardinality(Present)]
    /\ aspect' = [aspect EXCEPT ![t] = [dir |-> d, stalled |-> FALSE, files |-> TRUE]]
    /\ UNCHANGED <<doing, slots, pulse2>>
(* freeTorrent: those behind it move up *)
Free(t) ==
    /\ QCall /\ t \in Present
    /\ position' = [x \in QTorrents |-> IF x = t THEN Nowhere
                                        ELSE IF position[x] > position[t] THEN position[x] - 1 ELSE position[x]]
    /\ doing' = [doing EXCEPT ![t] = "stopped"]
    /\ aspect' = [aspect EXCEPT ![t] = [dir |-> "down", stalled |-> FALSE, files |-> TRUE]]
    /\ UNCHANGED <<slots, pulse2>>

(***************************************************************************)
(* Slots                                                                   *)
(***************************************************************************)
(* torrentGetActivity: a torrent is active in the direction it works in now *)
Active(w, d) == {t \in Present : w[t] = "running" /\ aspect[t].dir = d /\ ~aspect[t].stalled}
(* tr_sessionCountQueueFreeSlots *)
FreeSlots(w, d) ==
    LET active == Cardinality(Active(w, d))
    IN  IF ~slots[d].enabled THEN INT_MAX ELSE IF active >= slots[d].size THEN 0 ELSE slots[d].size - active
(* tr_sessionGetNextQueuedTorrent *)
Queued(w, d) == {t \in Present : w[t] \in {"queued", "queued, checking"} /\ aspect[t].dir = d}
(* Mutant: the torrent that waited least is next *)
NextQueued_Last(w, d) == {t \in Queued(w, d) : \A x \in Queued(w, d) : position[x] <= position[t]}
NextQueued(w, d) == {t \in Queued(w, d) : \A x \in Queued(w, d) : position[t] <= position[x]}

(* torrentStart: a queued torrent waits for its turn, a torrent that is       *)
(* checked for the end of the check, and one without its files does nothing   *)
Started(w, t, bypass) ==
    CASE w[t] = "running" -> w
      [] w[t] \in {"checking", "queued, checking"} -> w        \* startAfterVerify
      [] w[t] = "queued" /\ slots[aspect[t].dir].enabled /\ ~bypass -> w
      [] ~bypass /\ FreeSlots(w, aspect[t].dir) = 0 -> [w EXCEPT ![t] = "queued"]
      [] ~aspect[t].files -> w
      [] OTHER -> [w EXCEPT ![t] = "running"]                  \* torrentStartImpl
Start(t, bypass) ==
    /\ QCall /\ t \in Present /\ doing' = Started(doing, t, bypass) /\ doing' # doing
    /\ UNCHANGED <<position, aspect, slots, pulse2>>
(* tr_torrentStop with stopTorrent; and the end or the begin of a check *)
Stop(t) ==
    /\ QCall /\ t \in Present /\ doing[t] # "stopped" /\ doing' = [doing EXCEPT ![t] = "stopped"]
    /\ UNCHANGED <<position, aspect, slots, pulse2>>
Check(t) ==
    /\ QCall /\ t \in Present /\ doing[t] # "running"
    /\ doing' = [doing EXCEPT ![t] = CASE @ = "queued" -> "queued, checking" [] @ = "queued, checking" -> "queued"
                                         [] @ = "stopped" -> "checking" [] OTHER -> "stopped"]
    /\ UNCHANGED <<position, aspect, slots, pulse2>>

(* queuePulse: as often as there were free slots at its begin, the next one   *)
(* is started, and somebody told that it was                                  *)
StartNext(p, d) ==
    LET next == NextQueued(p.w, d)
    IN  IF next = {} THEN p
        ELSE [w |-> Started(p.w, CHOOSE t \in next : TRUE, TRUE), told |-> p.told \cup next]
PulseStarts(w) == {t \in Present : doing[t] # "running" /\ w[t] = "running"}
Pulse2(d) ==
    LET n == IF slots[d].enabled THEN FreeSlots(doing, d) ELSE 0
        P[i \in 0..n] == IF i = 0 THEN [w |-> doing, told |-> {}] ELSE StartNext(P[i - 1], d)
    IN  /\ doing' = P[n].w
        /\ pulse2' = [dir |-> d, before |-> n, told |-> P[n].told, waiting |-> Queued(P[n].w, d),
                      started |-> PulseStarts(P[n].w),
                      overtaken |-> {t \in Queued(P[n].w, d) : \E x \in PulseStarts(P[n].w) : position[x] > position[t]}]
QueuePulse(d) ==
    /\ Pulse2(d) /\ pulse2' # pulse2
    /\ UNCHANGED <<position, aspect, slots, qCalls>>

(* tr_sessionSetQueueSize, -Enabled; a torrent completes, stalls or goes on,   *)
(* or its files disappear                                                      *)
SetQueue(d, n, on) ==
    /\ QCall /\ slots[d] # [size |-> n, enabled |-> on] /\ slots' = [slots EXCEPT ![d] = [size |-> n, enabled |-> on]]
    /\ UNCHANGED <<position, doing, aspect, pulse2>>
Becomes(t, d, stalled, files) ==
    /\ QCall /\ t \in Present /\ aspect[t] # [dir |-> d, stalled |-> stalled, files |-> files]
    /\ stalled => doing[t] = "running"
    /\ aspect' = [aspect EXCEPT ![t] = [dir |-> d, stalled |-> stalled, files |-> files]]
    /\ UNCHANGED <<position, doing, slots, pulse2>>

QueueNext ==
    \/ \E t \in QTorrents, p \in -1..Cardinality(QTorrents) : SetQueuePosition(t, p)
    \/ \E S \in SUBSET QTorrents, where \in {"top", "up", "down", "bottom"} : QueueMove(S, where)
    \/ \E t \in QTorrents :
         \/ \E d \in Directions : Add(t, d)
         \/ Free(t)
         \/ \E b \in BOOLEAN : Start(t, b)
         \/ Stop(t)
         \/ Check(t)
         \/ \E d \in Directions, s, f \in BOOLEAN : Becomes(t, d, s, f)
    \/ \E d \in Directions : QueuePulse(d)
    \/ \E d \in Directions, n \in QueueSizes, on \in BOOLEAN : SetQueue(d, n, on)
QueueSpec == QueueInit /\ [][QueueNext]_queueVars

(***************************************************************************)
(* Properties                                                              *)
(***************************************************************************)
(* The positions are 0, 1, 2, ... after any sequence of moves, additions and  *)
(* removals (the assertion queueIsSequenced).                                 *)
QueueSequenced == {position[t] : t \in Present} = 0..(Cardinality(Present) - 1)

(* A pulse starts no more than there were slots, and nobody who is behind     *)
(* another that could be started; torrents wait after it with slots free      *)
(* only behind one that is checked or has lost its files.                     *)
PulseInOrder ==
    /\ Cardinality(pulse2.started) <= pulse2.before
    /\ pulse2.started \subseteq pulse2.told /\ pulse2.overtaken = {}
    /\ Cardinality(pulse2.told) < pulse2.before /\ pulse2.told = pulse2.started => pulse2.waiting = {}
=============================================================================
