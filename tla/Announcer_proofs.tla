--------------------------- MODULE Announcer_proofs ---------------------------
(***************************************************************************)
(* For any tiers, trackers and bounds: no slot of the announcer is lost,    *)
(* the queues of events keep their shape, and, while no request failed, the *)
(* last thing a tracker is told of a torrent is whether it runs.            *)
(*                                                                         *)
(* What the invariant says of a tier is stated of its record r, the         *)
(* announces a that were sent from its place and whether its torrent runs.  *)
(***************************************************************************)
EXTENDS Announcer, FiniteSetTheorems, SequenceTheorems, WellFoundedInduction, TLAPS

-----------------------------------------------------------------------------
(* Numbers and sequences *)

\* A set of naturals has a least element.
LEMMA LeastNat ==
    ASSUME NEW T \in SUBSET Nat, T # {}
    PROVE  \E x \in T : \A y \in T : x <= y
<1> DEFINE R == OpToRel(<, Nat)
<1>1. IsWellFoundedOn(R, Nat)
  BY NatLessThanWellFounded
<1>2. \A x, y \in Nat : y < x => <<y, x>> \in R
  BY DEF OpToRel
<1> HIDE DEF R
<1>3. PICK x \in T : \A y \in T : ~(<<y, x>> \in R)
  BY <1>1, WFMin
<1>4. \A y \in T : ~(y < x)
  BY <1>2, <1>3
<1>5. \A y \in T : x <= y
  BY <1>4, <1>3, SMT
<1> QED
  BY <1>5

\* Max of a set of naturals with a bound.
LEMMA MaxOf ==
    ASSUME NEW n \in Nat, NEW S \in SUBSET (0..n), S # {}
    PROVE  Max(S) \in S /\ \A y \in S : y <= Max(S)
<1> DEFINE T == {n - y : y \in S}
<1>0. \A y \in S : y \in 0..n /\ n - y \in Nat /\ n - y \in T
  OBVIOUS
<1>1. T \in SUBSET Nat /\ T # {}
  BY <1>0
<1>2. PICK z \in T : \A y \in T : z <= y
  BY <1>1, LeastNat
<1>3. PICK x \in S : z = n - x
  BY <1>2
<1>4. \A y \in S : n - x <= n - y
  BY <1>2, <1>3
<1>5. \A y \in S : x >= y
  BY <1>4
<1>6. Max(S) \in S /\ \A y \in S : Max(S) >= y
  BY <1>5 DEF Max
<1> QED
  BY <1>6

\* tier_announce_remove_trailing: what stays is a beginning, what goes is e.
LEMMA TrailingShape ==
    ASSUME NEW E, NEW s \in Seq(E), NEW e
    PROVE  LET r == RemoveTrailing(s, e)
           IN  /\ r \in Seq(E) /\ Len(r) \in 0..Len(s)
               /\ \A i \in 1..Len(r) : r[i] = s[i]
               /\ Len(r) > 0 => r[Len(r)] # e
               /\ \A i \in (Len(r) + 1)..Len(s) : s[i] = e
<1> DEFINE K == {0} \cup {i \in DOMAIN s : s[i] # e}
           m == Max(K)
           r == SubSeq(s, 1, m)
<1>1. Len(s) \in Nat /\ DOMAIN s = 1..Len(s) /\ \A i \in 1..Len(s) : s[i] \in E
  BY LenProperties
<1>2. K \in SUBSET (0..Len(s)) /\ K # {} /\ 0 \in K
  BY <1>1
<1> HIDE DEF K
<1>3. m \in K /\ \A y \in K : y <= m
  BY <1>1, <1>2, MaxOf
<1>4. m \in 0..Len(s)
  BY <1>2, <1>3
<1> HIDE DEF m
<1>5. r \in Seq(E) /\ Len(r) = m /\ \A i \in 1..m : r[i] = s[i]
  BY <1>1, <1>4, SubSeqProperties
<1> HIDE DEF r
<1>6. m > 0 => s[m] # e
  BY <1>3 DEF K
<1>7. \A i \in (m + 1)..Len(s) : s[i] = e
  <2> SUFFICES ASSUME NEW i \in (m + 1)..Len(s), s[i] # e PROVE FALSE
    OBVIOUS
  <2>1. i \in K
    BY <1>1, <1>4 DEF K
  <2> QED
    BY <2>1, <1>3, <1>4
<1>8. r = RemoveTrailing(s, e)
  BY DEF RemoveTrailing, r, m, K
<1> QED
  BY <1>4, <1>5, <1>6, <1>7, <1>8

\* A sequence without its i-th element.
LEMMA RemovedShape ==
    ASSUME NEW E, NEW s \in Seq(E), NEW i \in DOMAIN s
    PROVE  LET r == RemoveAt(s, i)
           IN  /\ r \in Seq(E) /\ Len(r) = Len(s) - 1
               /\ \A j \in 1..Len(r) : r[j] = IF j < i THEN s[j] ELSE s[j + 1]
<1> DEFINE a == SubSeq(s, 1, i - 1)
           b == SubSeq(s, i + 1, Len(s))
<1>1. Len(s) \in Nat /\ i \in 1..Len(s) /\ \A k \in 1..Len(s) : s[k] \in E
  BY LenProperties
<1>2. a \in Seq(E) /\ Len(a) = i - 1 /\ \A k \in 1..(i - 1) : a[k] = s[k]
  BY <1>1, SubSeqProperties
<1>3. b \in Seq(E) /\ Len(b) = Len(s) - i /\ \A k \in 1..(Len(s) - i) : b[k] = s[k + i]
  <2>1. \A k \in (i + 1)..Len(s) : s[k] \in E
    BY <1>1
  <2>2. b \in Seq(E) /\ Len(b) = (IF i + 1 <= Len(s) THEN Len(s) - (i + 1) + 1 ELSE 0)
        /\ \A k \in 1..(Len(s) - (i + 1) + 1) : b[k] = s[(i + 1) + k - 1]
    BY <1>1, <2>1, SubSeqProperties
  <2>3. Len(s) - (i + 1) + 1 = Len(s) - i
    BY <1>1
  <2>4. \A k \in 1..(Len(s) - i) : (i + 1) + k - 1 = k + i
    BY <1>1
  <2>5. Len(b) = Len(s) - i
    BY <1>1, <2>2
  <2> QED
    BY <2>2, <2>3, <2>4, <2>5
<1> HIDE DEF a, b
<1>4. a \o b \in Seq(E) /\ Len(a \o b) = Len(s) - 1
      /\ \A j \in 1..(Len(s) - 1) : (a \o b)[j] = IF j <= i - 1 THEN a[j] ELSE b[j - (i - 1)]
  <2>1. /\ a \o b \in Seq(E)
        /\ Len(a \o b) = Len(a) + Len(b)
        /\ \A j \in 1..(Len(a) + Len(b)) : (a \o b)[j] = IF j <= Len(a) THEN a[j] ELSE b[j - Len(a)]
    BY <1>2, <1>3, ConcatProperties
  <2>2. Len(a) + Len(b) = Len(s) - 1
    BY <1>1, <1>2, <1>3
  <2> QED
    BY <1>2, <2>1, <2>2
<1>5. ASSUME NEW j \in 1..(Len(s) - 1)
      PROVE  (a \o b)[j] = IF j < i THEN s[j] ELSE s[j + 1]
  <2>1. CASE j < i
    <3>1. j <= i - 1 /\ j \in 1..(i - 1)
      BY <1>1, <2>1
    <3> QED
      BY <3>1, <2>1, <1>2, <1>4
  <2>2. CASE ~(j < i)
    <3>1. ~(j <= i - 1) /\ j - (i - 1) \in 1..(Len(s) - i) /\ (j - (i - 1)) + i = j + 1
      BY <1>1, <2>2
    <3> QED
      BY <3>1, <2>2, <1>3, <1>4
  <2> QED
    BY <2>1, <2>2
<1>6. RemoveAt(s, i) = a \o b
  BY DEF RemoveAt, a, b
<1> QED
  BY <1>4, <1>5, <1>6

\* A sequence with one more element.
LEMMA AppendShape ==
    ASSUME NEW E, NEW s \in Seq(E), NEW e \in E
    PROVE  LET r == Append(s, e)
           IN  /\ r \in Seq(E) /\ Len(r) = Len(s) + 1 /\ DOMAIN r = 1..(Len(s) + 1)
               /\ \A i \in 1..Len(s) : r[i] = s[i]
               /\ r[Len(s) + 1] = e
BY AppendProperties, LenProperties

\* A sequence without its head.
LEMMA TailShape ==
    ASSUME NEW E, NEW s \in Seq(E), s # <<>>
    PROVE  LET r == Tail(s)
           IN  /\ r \in Seq(E) /\ Len(r) = Len(s) - 1 /\ DOMAIN r = 1..(Len(s) - 1)
               /\ Len(s) \in Nat \ {0} /\ Head(s) = s[1] /\ Head(s) \in E
               /\ \A i \in 1..(Len(s) - 1) : r[i] = s[i + 1]
BY HeadTailProperties, LenProperties, EmptySeq

-----------------------------------------------------------------------------
(* A tier *)

TierRecord == [key : Nat, events : Seq(Events), announceAt : Times, scrapeAt : Times,
               current : Nat, isRunning : BOOLEAN, isAnnouncing : BOOLEAN,
               isScraping : BOOLEAN]
RequestRecord == [key : Nat, event : Events, runs : BOOLEAN]

\* QueueShape, of one queue.
Shaped(q) == \A i \in DOMAIN q :
    /\ q[i] = "none" => i = Len(q)
    /\ i < Len(q) => q[i] # q[i + 1]
    /\ q[i] = "stopped" => \A j \in 1..i - 1 : q[j] = "completed"

\* What a queue says of whether the torrent runs.
Words(q) == {i \in DOMAIN q : Word(q[i])}

\* OneAtATime and Intent, of one tier; a request also keeps whether the torrent
\* ran when it was sent, which the tier will believe when it is answered.
Flight(r, a) == {i \in DOMAIN a : a[i].key = r.key}
Single(r, a) == /\ r.isAnnouncing <=> Flight(r, a) # {}
                /\ \A i, j \in Flight(r, a) : i = j
Means(r, a, runs) ==
    IF Words(r.events) # {} THEN r.events[Max(Words(r.events))] = "started" <=> runs
    ELSE /\ \A i \in Flight(r, a) :
              /\ a[i].runs <=> runs
              /\ Word(a[i].event) => (a[i].event = "started" <=> runs)
         /\ Flight(r, a) = {} => (r.isRunning <=> runs)

\* Fields that do not matter here.
Alike(r, s) == /\ r.key = s.key /\ r.isAnnouncing = s.isAnnouncing
               /\ r.isRunning = s.isRunning /\ r.events = s.events

LEMMA AlikeMeans ==
    ASSUME NEW r, NEW s, NEW a, NEW runs, Alike(r, s)
    PROVE  /\ Single(r, a) => Single(s, a)
           /\ Means(r, a, runs) => Means(s, a, runs)
BY DEF Alike, Single, Means, Flight

\* The words of a queue are a set of positions in it.
LEMMA WordsBound ==
    ASSUME NEW q \in Seq(Events), Words(q) # {}
    PROVE  /\ Max(Words(q)) \in Words(q) /\ \A i \in Words(q) : i <= Max(Words(q))
           /\ Words(q) \subseteq 1..Len(q) /\ Len(q) \in Nat
<1>1. Len(q) \in Nat /\ DOMAIN q = 1..Len(q)
  BY LenProperties
<1>2. Words(q) \in SUBSET (0..Len(q)) /\ Words(q) \subseteq 1..Len(q)
  BY <1>1 DEF Words
<1> QED
  BY <1>1, <1>2, MaxOf

\* The queue that Push starts from, when the last of it was removed.
LEMMA PushedOn ==
    ASSUME NEW k \in Seq(Events), Shaped(k), NEW e \in Events,
           e = "stopped" => \A i \in DOMAIN k : k[i] = "completed"
    PROVE  LET t == RemoveTrailing(RemoveTrailing(k, "none"), e)
               q == Append(t, e)
           IN  /\ q \in Seq(Events) /\ q # <<>> /\ Shaped(q)
               /\ Word(e) => q[Max(Words(q))] = e /\ Words(q) # {}
               /\ ~Word(e) => /\ Words(q) = Words(k)
                              /\ \A i \in Words(k) : q[i] = k[i]
<1> DEFINE u == RemoveTrailing(k, "none")
           t == RemoveTrailing(u, e)
           q == Append(t, e)
<1>1. Len(k) \in Nat /\ DOMAIN k = 1..Len(k)
  BY LenProperties
<1>2. /\ u \in Seq(Events) /\ Len(u) \in 0..Len(k)
      /\ \A i \in 1..Len(u) : u[i] = k[i]
      /\ Len(u) > 0 => u[Len(u)] # "none"
      /\ \A i \in (Len(u) + 1)..Len(k) : k[i] = "none"
  BY TrailingShape
<1> HIDE DEF u
<1>3. /\ t \in Seq(Events) /\ Len(t) \in 0..Len(u)
      /\ \A i \in 1..Len(t) : t[i] = u[i]
      /\ Len(t) > 0 => t[Len(t)] # e
      /\ \A i \in (Len(t) + 1)..Len(u) : u[i] = e
  BY <1>2, TrailingShape
<1> HIDE DEF t
<1>4. /\ q \in Seq(Events) /\ Len(q) = Len(t) + 1 /\ DOMAIN q = 1..(Len(t) + 1)
      /\ \A i \in 1..Len(t) : q[i] = t[i]
      /\ q[Len(t) + 1] = e
  BY <1>3, AppendShape
<1> HIDE DEF q
<1>5. Len(t) \in Nat /\ Len(t) <= Len(k) /\ Len(u) <= Len(k) /\ Len(u) \in Nat
  BY <1>1, <1>2, <1>3
<1>6. \A i \in 1..Len(t) : i \in 1..Len(u) /\ i \in 1..Len(k) /\ q[i] = k[i]
  BY <1>2, <1>3, <1>4, <1>5
<1>7. \A i \in (Len(t) + 1)..Len(k) : k[i] \in {"none", e}
  <2> TAKE i \in (Len(t) + 1)..Len(k)
  <2>1. CASE i <= Len(u)
    <3>1. i \in (Len(t) + 1)..Len(u) /\ i \in 1..Len(u)
      BY <2>1, <1>5
    <3> QED
      BY <3>1, <1>2, <1>3
  <2>2. CASE ~(i <= Len(u))
    <3>1. i \in (Len(u) + 1)..Len(k)
      BY <2>2, <1>5
    <3> QED
      BY <3>1, <1>2
  <2> QED
    BY <2>1, <2>2
<1>8. \A i \in 1..Len(t) : q[i] # "none"
  <2> TAKE i \in 1..Len(t)
  <2>1. CASE i = Len(k)
    <3>1. i = Len(u) /\ Len(u) > 0
      BY <2>1, <1>3, <1>5
    <3> QED
      BY <3>1, <1>2, <1>6
  <2>2. CASE i # Len(k)
    BY <2>2, <1>1, <1>6 DEF Shaped
  <2> QED
    BY <2>1, <2>2
<1>9. Shaped(q)
  <2> SUFFICES ASSUME NEW i \in 1..(Len(t) + 1)
               PROVE  /\ q[i] = "none" => i = Len(q)
                      /\ i < Len(q) => q[i] # q[i + 1]
                      /\ q[i] = "stopped" => \A j \in 1..i - 1 : q[j] = "completed"
    BY <1>4 DEF Shaped
  <2>1. CASE i = Len(t) + 1
    <3>1. q[i] = "stopped" => \A j \in 1..i - 1 : q[j] = "completed"
      BY <2>1, <1>4, <1>5, <1>6, <1>1
    <3> QED
      BY <3>1, <2>1, <1>4, <1>5
  <2>2. CASE i # Len(t) + 1
    <3>1. i \in 1..Len(t)
      BY <2>2, <1>5
    <3>2. q[i] # q[i + 1]
      <4>1. CASE i = Len(t)
        <5>1. q[i + 1] = e /\ q[i] = t[i] /\ Len(t) > 0
          BY <4>1, <1>4, <3>1, <1>5
        <5> QED
          BY <5>1, <4>1, <1>3
      <4>2. CASE i # Len(t)
        <5>1. i + 1 \in 1..Len(t) /\ i < Len(k) /\ i \in 1..Len(k)
          BY <4>2, <3>1, <1>5
        <5>2. k[i] # k[i + 1]
          BY <5>1, <1>1 DEF Shaped
        <5> QED
          BY <5>1, <5>2, <3>1, <1>6
      <4> QED
        BY <4>1, <4>2
    <3>3. q[i] = "stopped" => \A j \in 1..i - 1 : q[j] = "completed"
      <4> SUFFICES ASSUME q[i] = "stopped", NEW j \in 1..i - 1 PROVE q[j] = "completed"
        OBVIOUS
      <4>1. k[i] = "stopped" /\ i \in DOMAIN k
        BY <3>1, <1>6, <1>1
      <4>2. k[j] = "completed"
        BY <4>1 DEF Shaped
      <4>3. j \in 1..Len(t)
        BY <3>1, <1>5
      <4> QED
        BY <4>2, <4>3, <1>6
    <3> QED
      BY <3>1, <3>2, <3>3, <1>8
  <2> QED
    BY <2>1, <2>2
<1>10. ASSUME Word(e) PROVE q[Max(Words(q))] = e /\ Words(q) # {}
  <2>1. Len(t) + 1 \in Words(q)
    BY <1>4, <1>5, <1>10 DEF Words
  <2>2. Max(Words(q)) = Len(t) + 1
    BY <2>1, <1>4, <1>5, WordsBound
  <2> QED
    BY <2>1, <2>2, <1>4
<1>11. ASSUME ~Word(e)
       PROVE Words(q) = Words(k) /\ \A i \in Words(k) : q[i] = k[i]
  <2>1. ASSUME NEW i \in Words(q) PROVE i \in 1..Len(t) /\ i \in Words(k)
    <3>1. i \in 1..(Len(t) + 1) /\ Word(q[i])
      BY <1>4 DEF Words
    <3>2. i # Len(t) + 1
      BY <3>1, <1>4, <1>11
    <3>3. i \in 1..Len(t)
      BY <3>1, <3>2, <1>5
    <3> QED
      BY <3>1, <3>3, <1>6, <1>1 DEF Words
  <2>2. ASSUME NEW i \in Words(k) PROVE i \in Words(q) /\ q[i] = k[i]
    <3>1. i \in 1..Len(k) /\ Word(k[i])
      BY <1>1 DEF Words
    <3>2. ~(i \in (Len(t) + 1)..Len(k))
      BY <3>1, <1>7, <1>11 DEF Word
    <3>3. i \in 1..Len(t)
      BY <3>1, <3>2, <1>5
    <3> QED
      BY <3>1, <3>3, <1>4, <1>5, <1>6 DEF Words
  <2> QED
    BY <2>1, <2>2
<1>12. q # <<>>
  BY <1>4, <1>5
<1>13. q = Append(RemoveTrailing(RemoveTrailing(k, "none"), e), e)
  BY DEF q, t, u
<1> QED
  BY <1>4, <1>9, <1>10, <1>11, <1>12, <1>13

\* tier_announce_event_push keeps the shape of the queue, and all of the tier
\* but its queue and its time; what it says is the event, or what it said before.
LEMMA PushKeeps ==
    ASSUME NEW r \in TierRecord, Shaped(r.events), NEW e \in Events, NEW at \in Times
    PROVE  LET p == Push(r, e, at)
           IN  /\ p \in TierRecord /\ Shaped(p.events)
               /\ p.key = r.key /\ p.current = r.current /\ p.isRunning = r.isRunning
               /\ p.isAnnouncing = r.isAnnouncing /\ p.isScraping = r.isScraping
               /\ p.scrapeAt = r.scrapeAt
               /\ Word(e) => /\ Words(p.events) # {}
                             /\ p.events[Max(Words(p.events))] = e
               /\ ~Word(e) => /\ Words(p.events) = Words(r.events)
                              /\ \A i \in Words(r.events) : p.events[i] = r.events[i]
<1> DEFINE k == IF e # "stopped" THEN r.events
                ELSE IF Contains(r.events, "completed") THEN <<"completed">> ELSE <<>>
           q == Append(RemoveTrailing(RemoveTrailing(k, "none"), e), e)
           p == Push(r, e, at)
<1>1. r.events \in Seq(Events)
  BY DEF TierRecord
<1>2. k \in Seq(Events) /\ Shaped(k)
      /\ (e = "stopped" => \A i \in DOMAIN k : k[i] = "completed")
      /\ (e # "stopped" => k = r.events)
  <2>1. CASE e # "stopped"
    BY <2>1, <1>1
  <2>2. CASE e = "stopped"
    <3>1. k \in {<<"completed">>, <<>>}
      BY <2>2
    <3> HIDE DEF k
    <3>2. CASE k = <<>>
      BY <3>2, <2>2 DEF Shaped
    <3>3. CASE k = <<"completed">>
      <4>1. k \in Seq(Events) /\ DOMAIN k = {1} /\ k[1] = "completed" /\ Len(k) = 1
        BY <3>3 DEF Events
      <4>2. Shaped(k)
        BY <4>1 DEF Shaped
      <4> QED
        BY <4>1, <4>2, <2>2
    <3> QED
      BY <3>1, <3>2, <3>3
  <2> QED
    BY <2>1, <2>2
<1>3. p = [r EXCEPT !.events = q, !.announceAt = at]
  BY DEF Push
<1> HIDE DEF k
<1>4. /\ q \in Seq(Events) /\ q # <<>> /\ Shaped(q)
      /\ Word(e) => q[Max(Words(q))] = e /\ Words(q) # {}
      /\ ~Word(e) => Words(q) = Words(k) /\ \A i \in Words(k) : q[i] = k[i]
  BY <1>2, PushedOn
<1> HIDE DEF q, p
<1>5. p \in TierRecord /\ p.events = q /\ p.key = r.key /\ p.current = r.current
      /\ p.isRunning = r.isRunning /\ p.isAnnouncing = r.isAnnouncing
      /\ p.isScraping = r.isScraping /\ p.scrapeAt = r.scrapeAt
  BY <1>3, <1>4 DEF TierRecord
<1>6. ~Word(e) => k = r.events
  BY <1>2 DEF Word
<1> QED
  BY <1>4, <1>5, <1>6 DEF p

\* The fields of a tier.
LEMMA TierFields ==
    ASSUME NEW r \in TierRecord
    PROVE  /\ r.key \in Nat /\ r.events \in Seq(Events) /\ r.announceAt \in Times
           /\ r.scrapeAt \in Times /\ r.current \in Nat /\ r.isRunning \in BOOLEAN
           /\ r.isAnnouncing \in BOOLEAN /\ r.isScraping \in BOOLEAN
BY DEF TierRecord

\* A tier that a word was pushed on means what the word says.
LEMMA PushMeans ==
    ASSUME NEW r \in TierRecord, Shaped(r.events), NEW e \in Events, NEW at \in Times,
           NEW a \in Seq(RequestRecord), NEW runs \in BOOLEAN
    PROVE  LET p == Push(r, e, at)
           IN  /\ Single(r, a) => Single(p, a)
               /\ Word(e) /\ (e = "started" <=> runs) => Means(p, a, runs)
               /\ ~Word(e) /\ Means(r, a, runs) => Means(p, a, runs)
<1> DEFINE p == Push(r, e, at)
<1>1. /\ p.key = r.key /\ p.isRunning = r.isRunning /\ p.isAnnouncing = r.isAnnouncing
      /\ Word(e) => /\ Words(p.events) # {}
                    /\ p.events[Max(Words(p.events))] = e
      /\ ~Word(e) => /\ Words(p.events) = Words(r.events)
                     /\ \A i \in Words(r.events) : p.events[i] = r.events[i]
  BY PushKeeps
<1> HIDE DEF p
<1>2. Single(r, a) => Single(p, a)
  BY <1>1 DEF Single, Flight
<1>3. Word(e) /\ (e = "started" <=> runs) => Means(p, a, runs)
  BY <1>1 DEF Means
<1>4. ASSUME ~Word(e), Means(r, a, runs) PROVE Means(p, a, runs)
  <2>1. CASE Words(r.events) # {}
    <3>1. r.events \in Seq(Events)
      BY TierFields
    <3>2. Max(Words(r.events)) \in Words(r.events)
      BY <2>1, <3>1, WordsBound
    <3>3. p.events[Max(Words(p.events))] = r.events[Max(Words(r.events))]
      BY <1>1, <1>4, <3>2
    <3> QED
      BY <1>1, <1>4, <2>1, <3>3 DEF Means
  <2>2. CASE Words(r.events) = {}
    <3>1. Words(p.events) = {} /\ Flight(p, a) = Flight(r, a)
      BY <2>2, <1>1, <1>4 DEF Flight
    <3> QED
      BY <3>1, <2>2, <1>1, <1>4 DEF Means
  <2> QED
    BY <2>1, <2>2
<1> QED
  BY <1>2, <1>3, <1>4 DEF p

\* The events that follow the first keep their shape; their words are the same.
LEMMA TailShaped ==
    ASSUME NEW q \in Seq(Events), q # <<>>, Shaped(q)
    PROVE  /\ Shaped(Tail(q)) /\ Tail(q) \in Seq(Events)
           /\ Words(Tail(q)) # {} => /\ Words(q) # {}
                                     /\ Tail(q)[Max(Words(Tail(q)))] = q[Max(Words(q))]
           /\ Words(Tail(q)) = {} => Words(q) \subseteq {1}
           /\ Words(q) = {1} => Word(q[1]) /\ Max(Words(q)) = 1
           /\ Word(q[1]) => Words(q) # {}
<1> DEFINE t == Tail(q)
<1>1. /\ t \in Seq(Events) /\ Len(t) = Len(q) - 1 /\ DOMAIN t = 1..(Len(q) - 1)
      /\ Len(q) \in Nat \ {0}
      /\ \A i \in 1..(Len(q) - 1) : t[i] = q[i + 1]
  BY TailShape
<1>2. DOMAIN q = 1..Len(q)
  BY LenProperties
<1> HIDE DEF t
<1>3. Shaped(t)
  <2> SUFFICES ASSUME NEW i \in 1..(Len(q) - 1)
               PROVE  /\ t[i] = "none" => i = Len(t)
                      /\ i < Len(t) => t[i] # t[i + 1]
                      /\ t[i] = "stopped" => \A j \in 1..i - 1 : t[j] = "completed"
    BY <1>1 DEF Shaped
  <2>1. i + 1 \in DOMAIN q /\ t[i] = q[i + 1]
    BY <1>1, <1>2
  <2>2. t[i] = "none" => i = Len(t)
    BY <2>1, <1>1 DEF Shaped
  <2>3. ASSUME i < Len(t) PROVE t[i] # t[i + 1]
    <3>1. i + 1 \in 1..(Len(q) - 1) /\ t[i + 1] = q[i + 1 + 1] /\ i + 1 < Len(q)
      BY <2>3, <1>1
    <3> QED
      BY <3>1, <2>1 DEF Shaped
  <2>4. ASSUME t[i] = "stopped", NEW j \in 1..i - 1 PROVE t[j] = "completed"
    <3>1. j \in 1..(Len(q) - 1) /\ j + 1 \in 1..(i + 1) - 1 /\ t[j] = q[j + 1]
      BY <1>1
    <3>2. q[j + 1] = "completed"
      BY <3>1, <2>1, <2>4 DEF Shaped
    <3> QED
      BY <3>1, <3>2
  <2> QED
    BY <2>2, <2>3, <2>4
<1>4. \A i \in Words(t) : i + 1 \in Words(q)
  <2> TAKE i \in Words(t)
  <2>1. i \in 1..(Len(q) - 1) /\ Word(t[i]) /\ t[i] = q[i + 1] /\ i + 1 \in 1..Len(q)
    BY <1>1 DEF Words
  <2> QED
    BY <2>1, <1>2 DEF Words
<1>5. \A i \in Words(q) : i # 1 => i - 1 \in Words(t)
  <2> TAKE i \in Words(q)
  <2> HAVE i # 1
  <2>1. i \in 1..Len(q) /\ Word(q[i])
    BY <1>2 DEF Words
  <2>2. i - 1 \in 1..(Len(q) - 1) /\ (i - 1) + 1 = i
    BY <2>1, <1>1
  <2>3. t[i - 1] = q[i]
    BY <2>2, <1>1
  <2> QED
    BY <2>1, <2>2, <2>3, <1>1 DEF Words
<1>6. ASSUME Words(t) # {}
      PROVE  Words(q) # {} /\ t[Max(Words(t))] = q[Max(Words(q))]
  <2> DEFINE m == Max(Words(t))
             n == Max(Words(q))
  <2>1. m \in Words(t) /\ (\A i \in Words(t) : i <= m) /\ m \in 1..(Len(q) - 1)
    BY <1>6, <1>1, WordsBound
  <2>2. m + 1 \in Words(q)
    BY <2>1, <1>4
  <2>3. n \in Words(q) /\ (\A i \in Words(q) : i <= n) /\ n \in 1..Len(q)
    BY <2>2, WordsBound
  <2> HIDE DEF m, n
  <2>4. m + 1 <= n
    BY <2>2, <2>3
  <2>5. n # 1
    BY <2>4, <2>1
  <2>6. n - 1 <= m
    BY <2>5, <2>3, <2>1, <1>5
  <2>7. n = m + 1
    BY <2>4, <2>6, <2>1, <2>3
  <2>8. t[m] = q[n]
    BY <2>7, <2>1, <1>1
  <2> QED
    BY <2>2, <2>8 DEF m, n
<1>7. Words(t) = {} => Words(q) \subseteq {1}
  BY <1>5
<1>8. ASSUME Words(q) = {1} PROVE Word(q[1]) /\ Max(Words(q)) = 1
  <2>1. Max(Words(q)) \in Words(q)
    BY <1>8, WordsBound
  <2> QED
    BY <2>1, <1>8 DEF Words
<1>9. Word(q[1]) => Words(q) # {}
  <2>1. 1 \in DOMAIN q
    BY <1>1, <1>2
  <2> QED
    BY <2>1 DEF Words
<1> QED
  BY <1>1, <1>3, <1>6, <1>7, <1>8, <1>9 DEF t

\* tierAnnounce: what the queue said, the request and the rest of it say.
LEMMA AnnouncingKeeps ==
    ASSUME NEW r \in TierRecord, Shaped(r.events), r.events # <<>>, ~r.isAnnouncing,
           NEW a \in Seq(RequestRecord), NEW runs \in BOOLEAN
    PROVE  LET s == Announcing(r)
               q == [key |-> r.key, event |-> Head(r.events), runs |-> runs]
               b == Append(a, q)
           IN  /\ s \in TierRecord /\ Shaped(s.events) /\ q \in RequestRecord
               /\ s.key = r.key /\ s.current = r.current
               /\ Single(r, a) => Single(s, b)
               /\ Single(r, a) /\ Means(r, a, runs) => Means(s, b, runs)
<1> DEFINE s == Announcing(r)
           q == [key |-> r.key, event |-> Head(r.events), runs |-> runs]
           b == Append(a, q)
           n == Len(a) + 1
<1>1. r.events \in Seq(Events) /\ r.key \in Nat
  BY TierFields
<1>2. /\ Tail(r.events) \in Seq(Events) /\ Head(r.events) = r.events[1]
      /\ Head(r.events) \in Events
  BY <1>1, TailShape
<1>3. q \in RequestRecord /\ q.key = r.key /\ q.event = r.events[1] /\ q.runs = runs
  BY <1>1, <1>2 DEF RequestRecord
<1> HIDE DEF q
<1>4. /\ b \in Seq(RequestRecord) /\ Len(b) = n /\ DOMAIN b = 1..n
      /\ \A i \in 1..Len(a) : b[i] = a[i]
      /\ b[n] = q
  BY <1>3, AppendShape
<1>5. Len(a) \in Nat /\ DOMAIN a = 1..Len(a)
  BY LenProperties
<1> HIDE DEF b, n
<1>6. /\ s \in TierRecord /\ s.key = r.key /\ s.current = r.current
      /\ s.events = Tail(r.events) /\ s.isAnnouncing = TRUE /\ s.isRunning = r.isRunning
  BY <1>2 DEF Announcing, TierRecord
<1> HIDE DEF s
<1>7. Shaped(s.events)
  BY <1>1, <1>6, TailShaped
<1>8. ASSUME Single(r, a) PROVE Flight(s, b) = {n}
  <2>1. Flight(r, a) = {}
    BY <1>8 DEF Single
  <2>2. ASSUME NEW i \in Flight(s, b) PROVE i = n
    <3>1. i \in 1..n /\ b[i].key = r.key
      BY <1>4, <1>6 DEF Flight
    <3>2. CASE i \in 1..Len(a)
      BY <3>1, <3>2, <1>4, <1>5, <2>1 DEF Flight
    <3> QED
      BY <3>1, <3>2, <1>5 DEF n
  <2>3. n \in Flight(s, b)
    BY <1>3, <1>4, <1>5, <1>6 DEF Flight, n
  <2> QED
    BY <2>2, <2>3
<1>9. Single(r, a) => Single(s, b)
  BY <1>6, <1>8 DEF Single
<1>10. ASSUME Single(r, a), Means(r, a, runs) PROVE Means(s, b, runs)
  <2>1. CASE Words(s.events) # {}
    <3>1. Words(r.events) # {}
          /\ s.events[Max(Words(s.events))] = r.events[Max(Words(r.events))]
      BY <2>1, <1>1, <1>6, TailShaped
    <3> QED
      BY <3>1, <2>1, <1>10 DEF Means
  <2>2. CASE Words(s.events) = {}
    <3>1. Words(r.events) \subseteq {1}
      BY <2>2, <1>1, <1>6, TailShaped
    <3>2. Word(r.events[1]) => (r.events[1] = "started" <=> runs)
      <4> SUFFICES ASSUME Word(r.events[1]) PROVE r.events[1] = "started" <=> runs
        OBVIOUS
      <4>1. Words(r.events) = {1}
        BY <3>1, <1>1, TailShaped
      <4>2. Max(Words(r.events)) = 1
        BY <4>1, <1>1, TailShaped
      <4> QED
        BY <4>1, <4>2, <1>10 DEF Means
    <3> QED
      BY <3>2, <2>2, <1>3, <1>4, <1>8, <1>10 DEF Means
  <2> QED
    BY <2>1, <2>2
<1> QED
  BY <1>3, <1>6, <1>7, <1>9, <1>10 DEF s, b, q

\* The answer to a request of another tier of this place, which is gone.
LEMMA StrayAnswer ==
    ASSUME NEW r \in TierRecord, NEW a \in Seq(RequestRecord), NEW i \in DOMAIN a,
           a[i].key # r.key, NEW runs \in BOOLEAN
    PROVE  LET b == RemoveAt(a, i)
           IN  /\ Single(r, a) => Single(r, b)
               /\ Means(r, a, runs) => Means(r, b, runs)
<1> DEFINE b == RemoveAt(a, i)
           F == Flight(r, a)
           G == Flight(r, b)
           old(j) == IF j < i THEN j ELSE j + 1
<1>1. /\ b \in Seq(RequestRecord) /\ Len(b) = Len(a) - 1
      /\ \A j \in 1..Len(b) : b[j] = IF j < i THEN a[j] ELSE a[j + 1]
  BY RemovedShape
<1>2. Len(a) \in Nat /\ DOMAIN a = 1..Len(a) /\ DOMAIN b = 1..(Len(a) - 1) /\ i \in 1..Len(a)
  BY <1>1, LenProperties
<1> HIDE DEF b
<1>3. \A j \in G : old(j) \in F /\ b[j] = a[old(j)] /\ j \in 1..(Len(a) - 1)
  <2> TAKE j \in G
  <2>1. j \in 1..(Len(a) - 1) /\ b[j].key = r.key
    BY <1>2 DEF Flight
  <2>2. old(j) \in 1..Len(a) /\ b[j] = a[old(j)]
    BY <2>1, <1>1, <1>2
  <2> QED
    BY <2>1, <2>2, <1>2 DEF Flight
<1>4. F # {} => G # {}
  <2> SUFFICES ASSUME NEW j \in F PROVE G # {}
    OBVIOUS
  <2>1. j \in 1..Len(a) /\ a[j].key = r.key /\ j # i
    BY <1>2 DEF Flight
  <2>2. CASE j < i
    <3>1. j \in 1..(Len(a) - 1) /\ b[j] = a[j]
      BY <2>1, <2>2, <1>1, <1>2
    <3>2. j \in G
      BY <3>1, <2>1, <1>2 DEF Flight
    <3> QED
      BY <3>2
  <2>3. CASE ~(j < i)
    <3>1. j - 1 \in 1..(Len(a) - 1) /\ ~(j - 1 < i) /\ (j - 1) + 1 = j
      BY <2>1, <2>3, <1>2
    <3>2. b[j - 1] = a[j]
      BY <3>1, <1>1, <1>2
    <3>3. j - 1 \in G
      BY <3>1, <3>2, <2>1, <1>2 DEF Flight
    <3> QED
      BY <3>3
  <2> QED
    BY <2>2, <2>3
<1>5. \A j, k \in G : old(j) = old(k) => j = k
  BY <1>3, <1>2
<1> HIDE DEF old
<1>6. G # {} => F # {}
  BY <1>3
<1>7. Single(r, a) => Single(r, b)
  BY <1>3, <1>4, <1>5, <1>6 DEF Single
<1>8. Means(r, a, runs) => Means(r, b, runs)
  BY <1>3, <1>4 DEF Means
<1> QED
  BY <1>7, <1>8 DEF b

\* on_announce_done, of a good answer to the tier's only request.
LEMMA AnswerKeeps ==
    ASSUME NEW r \in TierRecord, Shaped(r.events), NEW a \in Seq(RequestRecord),
           NEW i \in DOMAIN a, a[i].key = r.key, NEW s \in OnSuccess(r, a[i]),
           NEW runs \in BOOLEAN
    PROVE  LET b == RemoveAt(a, i)
           IN  /\ s \in TierRecord /\ Shaped(s.events)
               /\ s.key = r.key /\ s.current = r.current
               /\ Single(r, a) => Single(s, b)
               /\ Single(r, a) /\ Means(r, a, runs) => Means(s, b, runs)
<1> DEFINE q == a[i]
           b == RemoveAt(a, i)
           r1 == [r EXCEPT !.isAnnouncing = FALSE, !.isRunning = q.runs]
           n == IF q.event # "stopped" /\ r.events = <<>> THEN Push(r1, "none", "later") ELSE r1
           sc == NextScrape(r1)
<1>1. q \in RequestRecord
  BY LenProperties
<1>2. q.runs \in BOOLEAN
  BY <1>1 DEF RequestRecord
<1>3. /\ r1 \in TierRecord /\ r1.key = r.key /\ r1.current = r.current
      /\ r1.events = r.events /\ r1.isAnnouncing = FALSE /\ r1.isRunning = q.runs
  BY <1>2 DEF TierRecord
<1>4. sc \in Times
  BY DEF NextScrape, Times
<1>5. "none" \in Events /\ "later" \in Times /\ ~Word("none")
  BY DEF Events, Times, Word
<1> HIDE DEF r1, sc
<1>6. /\ n \in TierRecord /\ Shaped(n.events) /\ n.key = r.key /\ n.current = r.current
      /\ n.isAnnouncing = FALSE /\ n.isRunning = q.runs
      /\ Words(n.events) = Words(r.events)
      /\ \A k \in Words(r.events) : n.events[k] = r.events[k]
  <2>1. LET p == Push(r1, "none", "later")
        IN  /\ p \in TierRecord /\ Shaped(p.events)
            /\ p.key = r1.key /\ p.current = r1.current /\ p.isRunning = r1.isRunning
            /\ p.isAnnouncing = r1.isAnnouncing
            /\ Words(p.events) = Words(r1.events)
            /\ \A k \in Words(r1.events) : p.events[k] = r1.events[k]
    BY <1>3, <1>5, PushKeeps
  <2>2. CASE q.event # "stopped" /\ r.events = <<>>
    BY <2>1, <2>2, <1>3
  <2>3. CASE ~(q.event # "stopped" /\ r.events = <<>>)
    BY <2>3, <1>3
  <2> QED
    BY <2>2, <2>3
<1>7. s \in {n, [n EXCEPT !.scrapeAt = sc]}
  BY DEF OnSuccess, n, r1, sc
<1> HIDE DEF n, q
<1>8. /\ s \in TierRecord /\ s.events = n.events /\ s.key = r.key /\ s.current = r.current
      /\ s.isAnnouncing = FALSE /\ s.isRunning = q.runs
  <2>1. CASE s = n
    BY <2>1, <1>6
  <2>2. CASE s = [n EXCEPT !.scrapeAt = sc]
    BY <2>2, <1>4, <1>6 DEF TierRecord
  <2> QED
    BY <1>7, <2>1, <2>2
<1>9. ASSUME Single(r, a) PROVE Flight(s, b) = {} /\ i \in Flight(r, a)
  <2>1. i \in Flight(r, a)
    BY DEF Flight
  <2>2. \A j \in DOMAIN a : a[j].key = r.key => j = i
    BY <2>1, <1>9 DEF Single, Flight
  <2>3. /\ b \in Seq(RequestRecord) /\ Len(b) = Len(a) - 1
        /\ \A j \in 1..Len(b) : b[j] = IF j < i THEN a[j] ELSE a[j + 1]
    BY RemovedShape
  <2>4. Len(a) \in Nat /\ DOMAIN a = 1..Len(a) /\ DOMAIN b = 1..(Len(a) - 1) /\ i \in 1..Len(a)
    BY <2>3, LenProperties
  <2> HIDE DEF b
  <2>5. ASSUME NEW j \in Flight(s, b) PROVE FALSE
    <3>1. j \in 1..(Len(a) - 1) /\ b[j].key = r.key
      BY <2>4, <1>8 DEF Flight
    <3>2. CASE j < i
      BY <3>1, <3>2, <2>2, <2>3, <2>4
    <3>3. CASE ~(j < i)
      <4>1. j + 1 \in 1..Len(a) /\ j + 1 # i /\ b[j] = a[j + 1]
        BY <3>1, <3>3, <2>3, <2>4
      <4> QED
        BY <4>1, <3>1, <2>2, <2>4
    <3> QED
      BY <3>2, <3>3
  <2> QED
    BY <2>1, <2>5
<1>10. Single(r, a) => Single(s, b)
  BY <1>8, <1>9 DEF Single
<1>11. ASSUME Single(r, a), Means(r, a, runs) PROVE Means(s, b, runs)
  <2>1. CASE Words(r.events) # {}
    <3>1. Max(Words(r.events)) \in Words(r.events)
      BY <2>1, WordsBound, TierFields
    <3> QED
      BY <3>1, <2>1, <1>6, <1>8, <1>11 DEF Means
  <2>2. CASE Words(r.events) = {}
    <3>1. q.runs <=> runs
      BY <2>2, <1>9, <1>11 DEF Means, q
    <3> QED
      BY <3>1, <2>2, <1>6, <1>8, <1>9, <1>11 DEF Means
  <2> QED
    BY <2>1, <2>2
<1> QED
  BY <1>6, <1>8, <1>10, <1>11 DEF b

-----------------------------------------------------------------------------
(* The invariant *)

Kept(x) ==
    /\ tier[x].current \in DOMAIN Trackers[x]
    /\ Shaped(tier[x].events)
    /\ \A i \in DOMAIN announces[x] : announces[x][i].key <= tier[x].key
Told(x) ==
    Present(x) =>
        /\ Single(tier[x], announces[x])
        /\ Owner[x] \notin starting =>
              Means(tier[x], announces[x], Owner[x] \in running)
SlotsTaken ==
    /\ slots \in Nat /\ IsFiniteSet(Requests)
    /\ slots + Cardinality(Requests) >= MaxTasks
Sets == /\ present \subseteq Torrents /\ running \subseteq present /\ starting \subseteq present
        /\ stops \subseteq Torrents \X Urls
        /\ ops \in 0..MaxOps /\ scrapesDue \in 0..MaxScrapes /\ failures \in 0..MaxFailures
Places == /\ tier \in [Tiers -> TierRecord]
          /\ announces \in [Tiers -> Seq(RequestRecord)]
          /\ \A x \in Tiers : Kept(x)
          /\ failures = 0 => \A x \in Tiers : Told(x)
IInv == Sets /\ SlotsTaken /\ Places

LEMMA InvSound == IInv => NoSlotLost /\ IntentKept
<1> SUFFICES ASSUME IInv PROVE NoSlotLost /\ IntentKept
  OBVIOUS
<1> USE DEF IInv
<1>1. TypeOK
  <2>1. ASSUME NEW x \in Tiers
        PROVE  /\ tier[x].key \in Nat /\ tier[x].current \in DOMAIN Trackers[x]
               /\ tier[x].events \in Seq(Events)
               /\ tier[x].announceAt \in Times /\ tier[x].scrapeAt \in Times
               /\ {tier[x].isRunning, tier[x].isAnnouncing, tier[x].isScraping}
                     \subseteq BOOLEAN
    <3>1. tier[x] \in TierRecord
      BY DEF Places
    <3> QED
      BY <3>1, TierFields DEF Places, Kept
  <2> QED
    BY <2>1 DEF TypeOK, Sets, SlotsTaken
<1>2. NoSlotLost
  BY <1>1 DEF NoSlotLost, SlotsTaken
<1>3. QueueShape
  BY DEF QueueShape, Places, Kept, Shaped
<1>4. OneAtATime
  <2> SUFFICES ASSUME failures = 0, NEW x \in Tiers, Present(x)
               PROVE  /\ tier[x].isAnnouncing <=> InFlight(x) # {}
                      /\ \A i, j \in InFlight(x) : i = j
    BY DEF OneAtATime
  <2>1. InFlight(x) = Flight(tier[x], announces[x])
    BY DEF InFlight, Flight
  <2>2. Single(tier[x], announces[x])
    BY DEF Places, Told
  <2> QED
    BY <2>1, <2>2 DEF Single
<1>5. ASSUME failures = 0, NEW x \in Tiers, Present(x), Owner[x] \notin starting
      PROVE  Intent(x)
  <2>1. InFlight(x) = Flight(tier[x], announces[x])
    BY DEF InFlight, Flight
  <2>2. Means(tier[x], announces[x], Owner[x] \in running)
    BY <1>5 DEF Places, Told
  <2>3. {i \in DOMAIN tier[x].events : Word(tier[x].events[i])} = Words(tier[x].events)
    BY DEF Words
  <2> QED
    BY <2>1, <2>2, <2>3 DEF Means, Intent
<1> QED
  BY <1>2, <1>3, <1>4, <1>5 DEF IntentKept

LEMMA NewTierShape ==
    ASSUME NEW x \in Tiers, NEW k \in Nat, NEW a \in Seq(RequestRecord),
           \A i \in DOMAIN a : a[i].key # k
    PROVE  LET r == NewTier(k)
           IN  /\ r \in TierRecord /\ Shaped(r.events) /\ r.key = k
               /\ r.current \in DOMAIN Trackers[x]
               /\ Single(r, a) /\ Means(r, a, FALSE)
<1> DEFINE r == NewTier(k)
<1>1. /\ r \in TierRecord /\ r.key = k /\ r.events = <<>> /\ r.current = 1
      /\ r.isRunning = FALSE /\ r.isAnnouncing = FALSE
  <2>1. <<>> \in Seq(Events)
    OBVIOUS
  <2> QED
    BY <2>1 DEF NewTier, NextScrape, TierRecord, Times
<1> HIDE DEF r
<1>2. Trackers[x] \in Seq(Urls) /\ Trackers[x] # <<>>
  BY TiersAssumption
<1>3. 1 \in DOMAIN Trackers[x]
  BY <1>2, LenProperties, EmptySeq
<1>4. Flight(r, a) = {} /\ Words(r.events) = {} /\ Shaped(r.events)
  BY <1>1 DEF Flight, Words, Shaped
<1> QED
  BY <1>1, <1>3, <1>4 DEF Single, Means, r

LEMMA InitIInv == Init => IInv
<1> SUFFICES ASSUME Init PROVE IInv
  OBVIOUS
<1>1. Sets
  BY LimitsAssumption DEF Sets, Init
<1>2. SlotsTaken
  <2>1. Requests = {}
    BY DEF Requests, Init
  <2> QED
    BY <2>1, FS_EmptySet, LimitsAssumption DEF SlotsTaken, Init
<1>3. Places
  <2>1. ASSUME NEW x \in Tiers
        PROVE  tier[x] \in TierRecord /\ announces[x] \in Seq(RequestRecord)
               /\ Kept(x) /\ Told(x)
    <3>1. announces[x] = <<>> /\ DOMAIN announces[x] = {}
          /\ announces[x] \in Seq(RequestRecord) /\ tier[x] = NewTier(0) /\ running = {}
      BY DEF Init
    <3>2. /\ NewTier(0) \in TierRecord /\ Shaped(NewTier(0).events)
          /\ NewTier(0).current \in DOMAIN Trackers[x]
          /\ Single(NewTier(0), announces[x]) /\ Means(NewTier(0), announces[x], FALSE)
      BY <3>1, NewTierShape
    <3>3. Kept(x)
      BY <3>1, <3>2 DEF Kept
    <3>4. Means(tier[x], announces[x], Owner[x] \in running)
      BY <3>1, <3>2 DEF Means
    <3> QED
      BY <3>1, <3>2, <3>3, <3>4 DEF Told
  <2> QED
    BY <2>1 DEF Places, Init
<1> QED
  BY <1>1, <1>2, <1>3 DEF IInv

\* One tier of a state.
LEMMA PlaceOf ==
    ASSUME Places, NEW x \in Tiers
    PROVE  /\ tier[x] \in TierRecord /\ announces[x] \in Seq(RequestRecord)
           /\ tier[x].current \in DOMAIN Trackers[x] /\ Shaped(tier[x].events)
           /\ \A i \in DOMAIN announces[x] : announces[x][i].key <= tier[x].key
           /\ failures = 0 => Told(x)
BY DEF Places, Kept

\* A step that pushes an event on the tiers of the torrents T.
LEMMA AnnounceStep ==
    ASSUME Places, NEW T, NEW e \in Events, tier' = AddAnnounce(T, e),
           announces' = announces, present' = present, failures' = failures,
           \A t \in Torrents :
               IF t \in T /\ Word(e)
               THEN t \notin starting' => (e = "started" <=> t \in running')
               ELSE /\ t \in starting => t \in starting'
                    /\ t \in running' <=> t \in running
    PROVE  Places'
<1>1. \A x \in Tiers : Owner[x] \in Torrents
  BY TiersAssumption
<1>2. "due" \in Times
  BY DEF Times
<1>3. ASSUME NEW x \in Tiers
      PROVE  /\ tier'[x] \in TierRecord /\ Kept(x)'
             /\ failures = 0 => Told(x)'
  <2> DEFINE r == tier[x]
             a == announces[x]
             p == Push(r, e, "due")
  <2>1. /\ r \in TierRecord /\ a \in Seq(RequestRecord)
        /\ r.current \in DOMAIN Trackers[x] /\ Shaped(r.events)
        /\ \A i \in DOMAIN a : a[i].key <= r.key
        /\ failures = 0 => Told(x)
    BY PlaceOf
  <2> HIDE DEF r, a
  <2>2. /\ p \in TierRecord /\ Shaped(p.events) /\ p.key = r.key /\ p.current = r.current
    BY <2>1, <1>2, PushKeeps
  <2>3. ASSUME NEW runs \in BOOLEAN
        PROVE  /\ Single(r, a) => Single(p, a)
               /\ Word(e) /\ (e = "started" <=> runs) => Means(p, a, runs)
               /\ ~Word(e) /\ Means(r, a, runs) => Means(p, a, runs)
    BY <2>1, <1>2, PushMeans
  <2> HIDE DEF p
  <2>4. tier'[x] = (IF Owner[x] \in T THEN p ELSE r) /\ announces'[x] = a
    BY DEF AddAnnounce, p, r, a
  <2>5. tier'[x] \in TierRecord /\ Kept(x)'
    BY <2>1, <2>2, <2>4 DEF Kept
  <2>6. ASSUME failures = 0, Present(x)
        PROVE  /\ Single(tier'[x], a)
               /\ Owner[x] \notin starting' => Means(tier'[x], a, Owner[x] \in running')
    <3>1. Single(r, a) /\ (Owner[x] \notin starting => Means(r, a, Owner[x] \in running))
      BY <2>1, <2>6 DEF Told, r, a
    <3>2. (Owner[x] \in running') \in BOOLEAN
      OBVIOUS
    <3>3. Single(tier'[x], a)
      BY <3>1, <2>3, <2>4
    <3>4. CASE Owner[x] \in T /\ Word(e)
      BY <3>2, <3>3, <3>4, <2>3, <2>4, <1>1
    <3>5. CASE ~(Owner[x] \in T /\ Word(e))
      <4>1. /\ Owner[x] \in starting => Owner[x] \in starting'
            /\ Owner[x] \in running' <=> Owner[x] \in running
        BY <3>5, <1>1
      <4>2. Owner[x] \notin starting' => Means(r, a, Owner[x] \in running')
        BY <4>1, <3>1 DEF Means
      <4> QED
        BY <4>2, <3>2, <3>3, <3>5, <2>3, <2>4
    <3> QED
      BY <3>4, <3>5
  <2>7. failures = 0 => Told(x)'
    BY <2>6, <2>4 DEF Told, Present
  <2> QED
    BY <2>5, <2>7
<1>4. tier' \in [Tiers -> TierRecord]
  BY <1>3 DEF AddAnnounce
<1> QED
  BY <1>3, <1>4 DEF Places

\* Neither a request nor a slot changes.
LEMMA SameSlots == SlotsTaken /\ UNCHANGED <<slots, announces>> => SlotsTaken'
BY DEF SlotsTaken, Requests

\* Nothing that is said of the tiers changes: fields that do not matter do.
LEMMA AlikeStep ==
    ASSUME Places, tier' \in [Tiers -> TierRecord],
           \A x \in Tiers : Alike(tier[x], tier'[x]) /\ tier'[x].current = tier[x].current,
           UNCHANGED <<announces, present, starting, running, failures>>
    PROVE  Places'
<1>1. ASSUME NEW x \in Tiers PROVE Kept(x)' /\ (failures = 0 => Told(x)')
  <2>1. Alike(tier[x], tier'[x]) /\ tier'[x].current = tier[x].current
    OBVIOUS
  <2>2. Kept(x)'
    BY <2>1, PlaceOf DEF Kept, Alike
  <2>3. ASSUME failures = 0, Present(x) PROVE Told(x)'
    <3>1. /\ Single(tier[x], announces[x])
          /\ Owner[x] \notin starting => Means(tier[x], announces[x], Owner[x] \in running)
      BY <2>3, PlaceOf DEF Told
    <3>2. /\ Single(tier'[x], announces[x])
          /\ Owner[x] \notin starting => Means(tier'[x], announces[x], Owner[x] \in running)
      BY <3>1, <2>1, AlikeMeans
    <3> QED
      BY <3>2 DEF Told
  <2>4. failures = 0 => Told(x)'
    BY <2>3 DEF Told, Present
  <2> QED
    BY <2>2, <2>4
<1> QED
  BY <1>1 DEF Places

-----------------------------------------------------------------------------
(* The steps *)

LEMMA OwnerIsTorrent == \A x \in Tiers : Owner[x] \in Torrents
BY TiersAssumption

LEMMA StartAskedStep ==
    ASSUME IInv, NEW t \in Torrents, StartAsked(t) PROVE IInv'
<1>1. Sets'
  BY LimitsAssumption DEF IInv, Sets, StartAsked, Operation, Network
<1>2. SlotsTaken'
  BY SameSlots DEF IInv, StartAsked, Network
<1>3. Places'
  <2>1. ASSUME NEW x \in Tiers PROVE Kept(x)' /\ (failures = 0 => Told(x)')
    <3>1. /\ tier'[x] = tier[x] /\ announces'[x] = announces[x] /\ present' = present
          /\ Owner[x] \notin starting' =>
                Owner[x] \notin starting /\ (Owner[x] \in running' <=> Owner[x] \in running)
      BY DEF StartAsked, Network
    <3>2. Kept(x) /\ (failures = 0 => Told(x))
      BY DEF IInv, Places
    <3> QED
      BY <3>1, <3>2 DEF Kept, Told, Present, Means
  <2>2. failures' = failures /\ tier' = tier /\ announces' = announces
    BY DEF StartAsked, Network
  <2> QED
    BY <2>1, <2>2 DEF IInv, Places
<1> QED
  BY <1>1, <1>2, <1>3 DEF IInv

LEMMA StartImplStep ==
    ASSUME IInv, NEW t \in Torrents, StartImpl(t) PROVE IInv'
<1>1. Sets'
  BY DEF IInv, Sets, StartImpl, Network
<1>2. SlotsTaken'
  BY SameSlots DEF IInv, StartImpl, Network
<1>3. Places'
  BY AnnounceStep DEF IInv, StartImpl, Network, Events, Word
<1> QED
  BY <1>1, <1>2, <1>3 DEF IInv

LEMMA StopStep ==
    ASSUME IInv, NEW t \in Torrents, Stop(t) PROVE IInv'
<1>1. Sets'
  BY LimitsAssumption DEF IInv, Sets, Stop, Operation, Network
<1>2. SlotsTaken'
  BY SameSlots DEF IInv, Stop, Network
<1>3. Places'
  BY AnnounceStep DEF IInv, Stop, Network, Events, Word
<1> QED
  BY <1>1, <1>2, <1>3 DEF IInv

LEMMA CompletedStep ==
    ASSUME IInv, NEW t \in Torrents, Completed(t) PROVE IInv'
<1>1. Sets'
  BY LimitsAssumption DEF IInv, Sets, Completed, Operation, Network
<1>2. SlotsTaken'
  BY SameSlots DEF IInv, Completed, Network
<1>3. Places'
  BY AnnounceStep DEF IInv, Completed, Network, Events, Word
<1> QED
  BY <1>1, <1>2, <1>3 DEF IInv

LEMMA ManualAnnounceStep ==
    ASSUME IInv, NEW t \in Torrents, ManualAnnounce(t) PROVE IInv'
<1>1. Sets'
  BY LimitsAssumption DEF IInv, Sets, ManualAnnounce, Operation, Network
<1>2. SlotsTaken'
  BY SameSlots DEF IInv, ManualAnnounce, Network
<1>3. Places'
  BY AnnounceStep DEF IInv, ManualAnnounce, Network, Events, Word
<1> QED
  BY <1>1, <1>2, <1>3 DEF IInv

LEMMA ChangeMyPortStep ==
    ASSUME IInv, ChangeMyPort PROVE IInv'
<1>1. Sets'
  BY LimitsAssumption DEF IInv, Sets, ChangeMyPort, Network
<1>2. SlotsTaken'
  BY SameSlots DEF IInv, ChangeMyPort, Network
<1>3. Places'
  BY AnnounceStep DEF IInv, ChangeMyPort, Network, Events, Word
<1> QED
  BY <1>1, <1>2, <1>3 DEF IInv

LEMMA RemoveTorrentStep ==
    ASSUME IInv, NEW t \in Torrents, RemoveTorrent(t) PROVE IInv'
<1>1. Sets'
  <2>1. \A x \in TiersOf(t) : Url(x) \in Urls
    <3> TAKE x \in TiersOf(t)
    <3>1. x \in Tiers /\ tier[x].current \in DOMAIN Trackers[x]
      BY DEF TiersOf, IInv, Places, Kept
    <3> QED
      BY <3>1 DEF Url, Urls, ToSet
  <2> QED
    BY <2>1, LimitsAssumption DEF IInv, Sets, RemoveTorrent, Operation, Network
<1>2. SlotsTaken'
  BY SameSlots DEF IInv, RemoveTorrent, Network
<1>3. Places'
  <2>1. ASSUME NEW x \in Tiers PROVE Kept(x)' /\ (failures = 0 => Told(x)')
    <3>1. /\ tier'[x] = tier[x] /\ announces'[x] = announces[x] /\ starting' = starting
          /\ Present(x)' =>
                Present(x) /\ (Owner[x] \in running' <=> Owner[x] \in running)
      BY DEF RemoveTorrent, Network, Present
    <3>2. Kept(x) /\ (failures = 0 => Told(x))
      BY DEF IInv, Places
    <3> QED
      BY <3>1, <3>2 DEF Kept, Told, Means
  <2>2. failures' = failures /\ tier' = tier /\ announces' = announces
    BY DEF RemoveTorrent, Network
  <2> QED
    BY <2>1, <2>2 DEF IInv, Places
<1> QED
  BY <1>1, <1>2, <1>3 DEF IInv

LEMMA AddTorrentStep ==
    ASSUME IInv, NEW t \in Torrents, AddTorrent(t) PROVE IInv'
<1>1. Sets'
  BY LimitsAssumption DEF IInv, Sets, AddTorrent, Network
<1>2. SlotsTaken'
  BY SameSlots DEF IInv, AddTorrent, Network
<1>3. Places'
  <2>1. ASSUME NEW x \in Tiers
        PROVE  tier'[x] \in TierRecord /\ Kept(x)' /\ (failures = 0 => Told(x)')
    <3>1. /\ tier[x] \in TierRecord /\ announces[x] \in Seq(RequestRecord)
          /\ \A i \in DOMAIN announces[x] : announces[x][i].key <= tier[x].key
          /\ Kept(x) /\ (failures = 0 => Told(x))
      BY DEF IInv, Places, Kept
    <3>2. announces' = announces /\ starting' = starting /\ running' = running
      BY DEF AddTorrent, Network
    <3>3. CASE Owner[x] = t
      <4> DEFINE k == tier[x].key + 1
      <4>1. k \in Nat /\ tier[x].key \in Nat /\ tier[x].key < k
        BY <3>1, TierFields
      <4>2. \A i \in DOMAIN announces[x] : announces[x][i].key \in Nat
        <5> TAKE i \in DOMAIN announces[x]
        <5>1. announces[x][i] \in RequestRecord
          BY <3>1, LenProperties
        <5> QED
          BY <5>1 DEF RequestRecord
      <4>3. \A i \in DOMAIN announces[x] : announces[x][i].key # k /\ announces[x][i].key <= k
        BY <4>1, <4>2, <3>1
      <4>4. tier'[x] = NewTier(k)
        BY <3>3 DEF AddTorrent
      <4>5. t \notin running'
        BY <3>2 DEF AddTorrent, IInv, Sets
      <4> HIDE DEF k
      <4>6. /\ NewTier(k) \in TierRecord /\ Shaped(NewTier(k).events) /\ NewTier(k).key = k
            /\ NewTier(k).current \in DOMAIN Trackers[x]
            /\ Single(NewTier(k), announces[x]) /\ Means(NewTier(k), announces[x], FALSE)
        BY <3>1, <4>1, <4>3, NewTierShape
      <4>7. Kept(x)'
        BY <4>3, <4>4, <4>6, <3>2 DEF Kept
      <4>8. Means(tier'[x], announces'[x], Owner[x] \in running')
        BY <4>4, <4>5, <4>6, <3>2, <3>3 DEF Means
      <4> QED
        BY <4>4, <4>6, <4>7, <4>8, <3>2 DEF Told
    <3>4. CASE Owner[x] # t
      <4>1. tier'[x] = tier[x] /\ (Present(x)' <=> Present(x))
        BY <3>4 DEF AddTorrent, Present
      <4> QED
        BY <4>1, <3>1, <3>2 DEF Kept, Told
    <3> QED
      BY <3>3, <3>4
  <2>2. failures' = failures /\ tier' \in [Tiers -> TierRecord] /\ announces' = announces
    BY <2>1 DEF AddTorrent, Network
  <2> QED
    BY <2>1, <2>2 DEF IInv, Places
<1> QED
  BY <1>1, <1>2, <1>3 DEF IInv

LEMMA DueStep ==
    ASSUME IInv, NEW x \in Tiers, AnnounceDue(x) \/ ScrapeDue(x) PROVE IInv'
<1>1. Sets'
  BY LimitsAssumption DEF IInv, Sets, AnnounceDue, ScrapeDue, Network
<1>2. SlotsTaken'
  BY SameSlots DEF IInv, AnnounceDue, ScrapeDue, Network
<1>3. /\ tier' \in [Tiers -> TierRecord]
      /\ \A y \in Tiers : Alike(tier[y], tier'[y]) /\ tier'[y].current = tier[y].current
  <2>1. tier \in [Tiers -> TierRecord]
    BY DEF IInv, Places
  <2>2. \/ tier' = [tier EXCEPT ![x].announceAt = "due"]
        \/ tier' = [tier EXCEPT ![x].scrapeAt = "due"]
    BY DEF AnnounceDue, ScrapeDue
  <2>3. "due" \in Times
    BY DEF Times
  <2>4. ASSUME NEW y \in Tiers
        PROVE  /\ tier'[y] \in TierRecord /\ Alike(tier[y], tier'[y])
               /\ tier'[y].current = tier[y].current
    <3>1. tier'[y] \in {tier[y], [tier[y] EXCEPT !.announceAt = "due"],
                        [tier[y] EXCEPT !.scrapeAt = "due"]} /\ tier[y] \in TierRecord
      BY <2>1, <2>2
    <3> QED
      BY <3>1, <2>3 DEF TierRecord, Alike
  <2>5. tier' = [y \in Tiers |-> tier'[y]]
    BY <2>1, <2>2
  <2> QED
    BY <2>4, <2>5
<1>4. Places'
  BY <1>3, AlikeStep DEF IInv, AnnounceDue, ScrapeDue, Network
<1> QED
  BY <1>1, <1>2, <1>4 DEF IInv

\* The requests that are left when one of them was answered, and those there are
\* when some tiers sent one more.
LEMMA RequestsLess ==
    ASSUME announces \in [Tiers -> Seq(RequestRecord)], NEW x \in Tiers,
           NEW i \in DOMAIN announces[x], IsFiniteSet(Requests),
           announces' = [announces EXCEPT ![x] = RemoveAt(@, i)]
    PROVE  /\ IsFiniteSet(Requests') /\ Cardinality(Requests') = Cardinality(Requests) - 1
           /\ announces' \in [Tiers -> Seq(RequestRecord)]
<1>1. announces[x] \in Seq(RequestRecord)
  OBVIOUS
<1>2. /\ RemoveAt(announces[x], i) \in Seq(RequestRecord)
      /\ Len(RemoveAt(announces[x], i)) = Len(announces[x]) - 1
  BY <1>1, RemovedShape
<1>3. /\ DOMAIN announces[x] = 1..Len(announces[x]) /\ Len(announces[x]) \in Nat \ {0}
      /\ DOMAIN RemoveAt(announces[x], i) = 1..(Len(announces[x]) - 1)
  BY <1>1, <1>2, LenProperties
<1>4. announces' \in [Tiers -> Seq(RequestRecord)] /\ announces'[x] = RemoveAt(announces[x], i)
      /\ \A y \in Tiers : y # x => announces'[y] = announces[y]
  BY <1>2
<1>5. DOMAIN announces'[x] = DOMAIN announces[x] \ {Len(announces[x])}
      /\ Len(announces[x]) \in DOMAIN announces[x]
  BY <1>3, <1>4
<1>6. <<x, Len(announces[x])>> \in Requests
  BY <1>5 DEF Requests
<1>7. Requests' = Requests \ {<<x, Len(announces[x])>>}
  <2>2. \A y \in Tiers : DOMAIN announces'[y] =
           IF y = x THEN DOMAIN announces[x] \ {Len(announces[x])} ELSE DOMAIN announces[y]
    BY <1>4, <1>5
  <2>3. ASSUME NEW p \in Requests' PROVE p \in Requests \ {<<x, Len(announces[x])>>}
    <3>1. PICK y \in Tiers : p \in {y} \X DOMAIN announces'[y]
      BY DEF Requests
    <3>2. PICK j \in DOMAIN announces'[y] : p = <<y, j>>
      BY <3>1
    <3>3. j \in DOMAIN announces[y] /\ ~(y = x /\ j = Len(announces[x]))
      BY <2>2, <3>2
    <3> QED
      BY <3>2, <3>3 DEF Requests
  <2>4. ASSUME NEW p \in Requests, p # <<x, Len(announces[x])>> PROVE p \in Requests'
    <3>1. PICK y \in Tiers : p \in {y} \X DOMAIN announces[y]
      BY DEF Requests
    <3>2. PICK j \in DOMAIN announces[y] : p = <<y, j>>
      BY <3>1
    <3>3. j \in DOMAIN announces'[y]
      BY <2>2, <2>4, <3>2
    <3> QED
      BY <3>2, <3>3 DEF Requests
  <2> QED
    BY <2>3, <2>4
<1> QED
  BY <1>4, <1>6, <1>7, FS_RemoveElement

LEMMA RequestsMore ==
    ASSUME announces \in [Tiers -> Seq(RequestRecord)], NEW T \in SUBSET Tiers,
           IsFiniteSet(T), IsFiniteSet(Requests),
           NEW R, \A x \in T : R[x] \in RequestRecord,
           announces' = [x \in Tiers |-> IF x \in T THEN Append(announces[x], R[x])
                                         ELSE announces[x]]
    PROVE  /\ IsFiniteSet(Requests')
           /\ Cardinality(Requests') = Cardinality(Requests) + Cardinality(T)
           /\ announces' \in [Tiers -> Seq(RequestRecord)]
<1> DEFINE n == [x \in Tiers |-> Len(announces[x]) + 1]
           N == {<<x, n[x]>> : x \in T}
           f == [x \in T |-> <<x, n[x]>>]
<1>1. ASSUME NEW x \in Tiers
      PROVE  /\ announces'[x] \in Seq(RequestRecord) /\ n[x] \notin DOMAIN announces[x]
             /\ x \in T => DOMAIN announces'[x] = DOMAIN announces[x] \cup {n[x]}
             /\ x \notin T => announces'[x] = announces[x]
  <2>1. announces[x] \in Seq(RequestRecord) /\ Len(announces[x]) \in Nat
        /\ DOMAIN announces[x] = 1..Len(announces[x]) /\ n[x] = Len(announces[x]) + 1
    BY LenProperties
  <2>2. CASE x \in T
    <3>1. /\ announces'[x] \in Seq(RequestRecord) /\ DOMAIN announces'[x] = 1..n[x]
      BY <2>1, <2>2, AppendShape
    <3>2. n[x] \in Nat /\ n[x] = Len(announces[x]) + 1
      BY <2>1
    <3> HIDE DEF n, N, f
    <3>3. n[x] \notin 1..Len(announces[x])
      BY <3>2, <2>1
    <3>4. 1..n[x] = 1..Len(announces[x]) \cup {n[x]}
      BY <3>2, <2>1
    <3> QED
      BY <3>1, <3>3, <3>4, <2>1, <2>2
  <2>3. CASE x \notin T
    BY <2>1, <2>3
  <2> QED
    BY <2>2, <2>3
<1> HIDE DEF n
<1>2. announces' \in [Tiers -> Seq(RequestRecord)]
  BY <1>1
<1>3. Requests' = Requests \cup N
  <2>1. ASSUME NEW p \in Requests' PROVE p \in Requests \cup N
    <3>1. PICK x \in Tiers : p \in {x} \X DOMAIN announces'[x]
      BY DEF Requests
    <3>2. PICK j \in DOMAIN announces'[x] : p = <<x, j>>
      BY <3>1
    <3>3. CASE j \in DOMAIN announces[x]
      BY <3>2, <3>3 DEF Requests
    <3>4. CASE j \notin DOMAIN announces[x]
      <4>1. x \in T /\ j = n[x]
        BY <1>1, <3>2, <3>4
      <4> QED
        BY <4>1, <3>2
    <3> QED
      BY <3>3, <3>4
  <2>2. ASSUME NEW p \in Requests PROVE p \in Requests'
    <3>1. PICK x \in Tiers : p \in {x} \X DOMAIN announces[x]
      BY DEF Requests
    <3>2. DOMAIN announces[x] \subseteq DOMAIN announces'[x]
      BY <1>1
    <3> QED
      BY <3>1, <3>2 DEF Requests
  <2>3. ASSUME NEW p \in N PROVE p \in Requests'
    <3>1. PICK x \in T : p = <<x, n[x]>>
      OBVIOUS
    <3>2. n[x] \in DOMAIN announces'[x]
      BY <1>1
    <3> QED
      BY <3>1, <3>2 DEF Requests
  <2> QED
    BY <2>1, <2>2, <2>3
<1>4. f \in Surjection(T, N) /\ f \in Injection(T, N)
  <2>1. f \in [T -> N]
    OBVIOUS
  <2>2. \A p \in N : \E x \in T : f[x] = p
    OBVIOUS
  <2>3. \A x, y \in T : f[x] = f[y] => x = y
    OBVIOUS
  <2> HIDE DEF f, N
  <2> QED
    BY <2>1, <2>2, <2>3 DEF Surjection, Injection, IsInjective
<1>5. IsFiniteSet(N) /\ Cardinality(N) = Cardinality(T)
  BY <1>4, FS_Surjection
<1>6. Requests \cap N = {}
  <2> SUFFICES ASSUME NEW p \in Requests, p \in N PROVE FALSE
    OBVIOUS
  <2>1. PICK x \in Tiers : p \in {x} \X DOMAIN announces[x]
    BY DEF Requests
  <2>2. PICK y \in T : p = <<y, n[y]>>
    OBVIOUS
  <2>3. x = y /\ n[x] \in DOMAIN announces[x]
    BY <2>1, <2>2
  <2> QED
    BY <2>3, <1>1
<1> HIDE DEF N
<1>7. /\ IsFiniteSet(Requests \cup N)
      /\ Cardinality(Requests \cup N)
            = Cardinality(Requests) + Cardinality(N) - Cardinality(Requests \cap N)
  BY <1>5, FS_Union
<1>8. Cardinality(Requests \cap N) = 0
  BY <1>6, FS_EmptySet
<1>9. Cardinality(Requests) \in Nat /\ Cardinality(T) \in Nat
  BY FS_CardinalityType
<1> QED
  BY <1>2, <1>3, <1>5, <1>7, <1>8, <1>9

LEMMA UpkeepStep ==
    ASSUME IInv, Upkeep PROVE IInv'
<1> DEFINE A == {x \in Tiers : slots > 0 /\ Present(x) /\ NeedsToAnnounce(x)}
           S == {x \in Tiers \ A : slots > 0 /\ Present(x) /\ NeedsToScrape(x)}
<1>0. /\ stops' = {} /\ UNCHANGED <<present, running, starting, ops, scrapesDue, failures>>
      /\ \E T \in kSubset(Min({slots, Cardinality(A)}), A) :
              LET q == Batches(S, slots - Cardinality(T))
              IN  /\ announces' = [x \in Tiers |-> IF x \in T THEN Append(announces[x], Request(x))
                                                        ELSE announces[x]]
                  /\ slots' = slots - Cardinality(T)
                  /\ scrapes' = scrapes \o q
                  /\ tier' = [x \in Tiers |->
                        IF x \in T THEN Announcing(tier[x])
                        ELSE IF x \in S /\ InBatch(q, x) THEN [tier[x] EXCEPT !.isScraping = TRUE]
                        ELSE tier[x]]
  BY DEF Upkeep
<1>11. PICK T \in kSubset(Min({slots, Cardinality(A)}), A) : \E q :
         /\ announces' = [x \in Tiers |-> IF x \in T THEN Append(announces[x], Request(x))
                                              ELSE announces[x]]
         /\ slots' = slots - Cardinality(T)
         /\ tier' = [x \in Tiers |->
               IF x \in T THEN Announcing(tier[x])
               ELSE IF x \in S /\ InBatch(q, x) THEN [tier[x] EXCEPT !.isScraping = TRUE]
               ELSE tier[x]]
  BY <1>0
<1>1. PICK q :
         /\ announces' = [x \in Tiers |-> IF x \in T THEN Append(announces[x], Request(x))
                                              ELSE announces[x]]
         /\ slots' = slots - Cardinality(T)
         /\ tier' = [x \in Tiers |->
               IF x \in T THEN Announcing(tier[x])
               ELSE IF x \in S /\ InBatch(q, x) THEN [tier[x] EXCEPT !.isScraping = TRUE]
               ELSE tier[x]]
  BY <1>11
<1>2. A \subseteq Tiers /\ IsFiniteSet(A) /\ Cardinality(A) \in Nat
  <2>1. IsFiniteSet(Tiers)
    BY TiersAssumption, FS_Interval DEF Tiers
  <2> QED
    BY <2>1, FS_Subset, FS_CardinalityType
<1>3. T \in SUBSET A /\ IsFiniteSet(T) /\ Cardinality(T) \in Nat /\ Cardinality(T) <= slots
  <2>1. T \in SUBSET A /\ Cardinality(T) = Min({slots, Cardinality(A)})
    BY <1>11 DEF kSubset
  <2>2. slots \in Nat
    BY DEF IInv, SlotsTaken
  <2> HIDE DEF A
  <2>3. Min({slots, Cardinality(A)}) <= slots
    BY <1>2, <2>2 DEF Min
  <2> QED
    BY <2>1, <2>3, <1>2, FS_Subset, FS_CardinalityType
<1>4. ASSUME NEW x \in T
      PROVE  x \in Tiers /\ Present(x) /\ tier[x].events # <<>> /\ ~tier[x].isAnnouncing
  BY <1>3 DEF NeedsToAnnounce
<1>5. ASSUME NEW x \in Tiers, x \in T
      PROVE  /\ Request(x) \in RequestRecord
             /\ Append(announces[x], Request(x)) \in Seq(RequestRecord)
             /\ tier'[x] \in TierRecord /\ Kept(x)' /\ (failures = 0 => Told(x)')
  <2> DEFINE r == tier[x]
             a == announces[x]
             runs == Owner[x] \in running
             s == Announcing(r)
             z == [key |-> r.key, event |-> Head(r.events), runs |-> runs]
             b == Append(a, z)
  <2>1. /\ r \in TierRecord /\ a \in Seq(RequestRecord) /\ runs \in BOOLEAN
        /\ r.current \in DOMAIN Trackers[x] /\ Shaped(r.events)
        /\ \A i \in DOMAIN a : a[i].key <= r.key
        /\ failures = 0 => Told(x)
        /\ r.events # <<>> /\ ~r.isAnnouncing
    BY <1>4, <1>5, PlaceOf DEF IInv
  <2>2. announces'[x] = b /\ tier'[x] = s /\ z = Request(x)
    BY <1>1, <1>5 DEF Request
  <2>3. failures = 0 => /\ Single(r, a)
                        /\ Owner[x] \notin starting => Means(r, a, runs)
    BY <2>1, <1>4, <1>5 DEF Told
  <2> HIDE DEF r, a, runs
  <2>4. /\ s \in TierRecord /\ Shaped(s.events) /\ z \in RequestRecord
        /\ s.key = r.key /\ s.current = r.current
        /\ Single(r, a) => Single(s, b)
        /\ Single(r, a) /\ Means(r, a, runs) => Means(s, b, runs)
    BY <2>1, AnnouncingKeeps
  <2>5. /\ b \in Seq(RequestRecord) /\ DOMAIN b = 1..(Len(a) + 1)
        /\ \A i \in 1..Len(a) : b[i] = a[i]
        /\ b[Len(a) + 1] = z
    BY <2>1, <2>4, AppendShape
  <2>6. r.key \in Nat /\ Len(a) \in Nat /\ DOMAIN a = 1..Len(a) /\ z.key = r.key
    BY <2>1, TierFields, LenProperties
  <2> HIDE DEF s, b, z
  <2>7. \A i \in DOMAIN b : b[i].key <= s.key
    <3> TAKE i \in DOMAIN b
    <3>1. CASE i = Len(a) + 1
      BY <3>1, <2>4, <2>5, <2>6
    <3>2. CASE i # Len(a) + 1
      <4>1. i \in DOMAIN a /\ b[i] = a[i]
        BY <3>2, <2>5, <2>6
      <4> QED
        BY <4>1, <2>1, <2>4
    <3> QED
      BY <3>1, <3>2
  <2>8. Kept(x)'
    BY <2>1, <2>2, <2>4, <2>7 DEF Kept
  <2>9. failures = 0 => Told(x)'
    BY <2>2, <2>3, <2>4, <1>0 DEF Told, Present, runs
  <2> QED
    BY <2>2, <2>4, <2>5, <2>8, <2>9, Zenon DEF b, a, z
<1>6. ASSUME NEW x \in Tiers, x \notin T
      PROVE  tier'[x] \in TierRecord /\ Kept(x)' /\ (failures = 0 => Told(x)')
  <2>1. tier[x] \in TierRecord /\ announces'[x] = announces[x] /\ Kept(x) /\ (failures = 0 => Told(x))
    BY <1>1, <1>6 DEF IInv, Places
  <2>2. tier'[x] \in {tier[x], [tier[x] EXCEPT !.isScraping = TRUE]}
    BY <1>1, <1>6
  <2>3. tier'[x] \in TierRecord /\ Alike(tier[x], tier'[x]) /\ tier'[x].current = tier[x].current
    BY <2>1, <2>2 DEF TierRecord, Alike
  <2>4. Kept(x)'
    BY <2>1, <2>3 DEF Kept, Alike
  <2>5. failures = 0 => Told(x)'
    BY <2>1, <2>3, <1>0, AlikeMeans DEF Told, Present
  <2> QED
    BY <2>3, <2>4, <2>5
<1> HIDE DEF A, S
<1>7. /\ IsFiniteSet(Requests')
      /\ Cardinality(Requests') = Cardinality(Requests) + Cardinality(T)
      /\ announces' \in [Tiers -> Seq(RequestRecord)]
  <2> DEFINE R == [x \in Tiers |-> Request(x)]
  <2>1. T \in SUBSET Tiers
    BY <1>2, <1>3
  <2>2. \A x \in T : R[x] \in RequestRecord
    BY <2>1, <1>5
  <2>3. announces' = [x \in Tiers |-> IF x \in T THEN Append(announces[x], R[x])
                                      ELSE announces[x]]
    BY <1>1
  <2>4. announces \in [Tiers -> Seq(RequestRecord)] /\ IsFiniteSet(Requests)
    BY DEF IInv, Places, SlotsTaken
  <2> HIDE DEF R
  <2> QED
    BY <2>1, <2>2, <2>3, <2>4, <1>3, RequestsMore
<1>8. SlotsTaken'
  <2>1. /\ slots \in Nat /\ Cardinality(Requests) \in Nat /\ MaxTasks \in Nat
        /\ slots + Cardinality(Requests) >= MaxTasks
    BY LimitsAssumption, FS_CardinalityType DEF IInv, SlotsTaken
  <2>2. slots' = slots - Cardinality(T)
    BY <1>1
  <2>3. slots' \in Nat /\ slots' + Cardinality(Requests') >= MaxTasks
    BY <2>1, <2>2, <1>3, <1>7
  <2> QED
    BY <2>3, <1>7 DEF SlotsTaken
<1>9. Sets'
  BY <1>0 DEF IInv, Sets
<1>10. Places'
  <2>1. tier' \in [Tiers -> TierRecord]
    BY <1>1, <1>5, <1>6
  <2> QED
    BY <2>1, <1>0, <1>5, <1>6, <1>7 DEF Places
<1> QED
  BY <1>8, <1>9, <1>10 DEF IInv

\* tierIncrementTracker stays within the trackers of the tier.
LEMMA IncrementKeeps ==
    ASSUME NEW x \in Tiers, NEW r \in TierRecord, r.current \in DOMAIN Trackers[x]
    PROVE  LET s == IncrementTracker(r, x)
           IN  /\ s \in TierRecord /\ s.current \in DOMAIN Trackers[x]
               /\ s.events = r.events /\ s.key = r.key
<1>1. Trackers[x] \in Seq(Urls) /\ Trackers[x] # <<>>
  BY TiersAssumption
<1>2. Len(Trackers[x]) \in Nat \ {0} /\ DOMAIN Trackers[x] = 1..Len(Trackers[x])
  BY <1>1, LenProperties, EmptySeq
<1>3. (r.current % Len(Trackers[x])) + 1 \in 1..Len(Trackers[x])
  BY <1>2
<1>4. (r.current % Len(Trackers[x])) + 1 \in Nat
  BY <1>3
<1> QED
  BY <1>2, <1>3, <1>4 DEF IncrementTracker, TierRecord

\* on_announce_error.
LEMMA OnErrorKeeps ==
    ASSUME NEW x \in Tiers, NEW r \in TierRecord, r.current \in DOMAIN Trackers[x],
           Shaped(r.events), NEW q \in RequestRecord
    PROVE  LET s == OnError(r, q, x)
           IN  /\ s \in TierRecord /\ s.current \in DOMAIN Trackers[x]
               /\ Shaped(s.events) /\ s.key = r.key
<1> DEFINE u == [r EXCEPT !.isAnnouncing = FALSE]
           v == IncrementTracker(u, x)
<1>1. u \in TierRecord /\ u.current = r.current /\ u.events = r.events /\ u.key = r.key
  BY DEF TierRecord
<1> HIDE DEF u
<1>2. /\ v \in TierRecord /\ v.current \in DOMAIN Trackers[x]
      /\ v.events = r.events /\ v.key = r.key
  BY <1>1, IncrementKeeps
<1> HIDE DEF v
<1>3. q.event \in Events /\ "later" \in Times
  BY DEF RequestRecord, Times
<1>4. LET s == Push(v, q.event, "later")
      IN  s \in TierRecord /\ Shaped(s.events) /\ s.key = v.key /\ s.current = v.current
  BY <1>2, <1>3, PushKeeps
<1>5. OnError(r, q, x) = Push(v, q.event, "later")
  BY DEF OnError, u, v
<1> QED
  BY <1>2, <1>4, <1>5

\* The keys that are left when a request was answered.
LEMMA KeysLess ==
    ASSUME NEW a \in Seq(RequestRecord), NEW i \in DOMAIN a, NEW k,
           \A j \in DOMAIN a : a[j].key <= k
    PROVE  /\ RemoveAt(a, i) \in Seq(RequestRecord)
           /\ \A j \in DOMAIN RemoveAt(a, i) : RemoveAt(a, i)[j].key <= k
<1> DEFINE b == RemoveAt(a, i)
<1>1. /\ b \in Seq(RequestRecord) /\ Len(b) = Len(a) - 1
      /\ \A j \in 1..Len(b) : b[j] = IF j < i THEN a[j] ELSE a[j + 1]
  BY RemovedShape
<1>2. Len(a) \in Nat /\ DOMAIN a = 1..Len(a) /\ DOMAIN b = 1..(Len(a) - 1) /\ i \in 1..Len(a)
  BY <1>1, LenProperties
<1> HIDE DEF b
<1>3. ASSUME NEW j \in DOMAIN b PROVE b[j].key <= k
  <2>1. j \in DOMAIN a /\ j + 1 \in DOMAIN a /\ b[j] \in {a[j], a[j + 1]}
    BY <1>1, <1>2
  <2> QED
    BY <2>1
<1> QED
  BY <1>1, <1>3 DEF b

LEMMA AnnounceDoneStep ==
    ASSUME IInv, NEW x \in Tiers, NEW i \in DOMAIN announces[x], AnnounceDone(x, i)
    PROVE  IInv'
<1> DEFINE r == tier[x]
           a == announces[x]
           q == announces[x][i]
           b == RemoveAt(announces[x], i)
<1>0. /\ announces' = [announces EXCEPT ![x] = RemoveAt(@, i)] /\ slots' = slots + 1
      /\ UNCHANGED <<present, running, starting, scrapes, stops, ops, scrapesDue>>
      /\ \/ /\ IF FindTier(x, q)
               THEN \E s \in OnSuccess(tier[x], q) : tier' = [tier EXCEPT ![x] = s]
               ELSE UNCHANGED tier
            /\ UNCHANGED failures
         \/ /\ tier' = IF FindTier(x, q) THEN [tier EXCEPT ![x] = OnError(@, q, x)] ELSE tier
            /\ failures < MaxFailures /\ failures' = failures + 1
  BY DEF AnnounceDone
<1>1. /\ tier \in [Tiers -> TierRecord] /\ announces \in [Tiers -> Seq(RequestRecord)]
      /\ IsFiniteSet(Requests)
  BY DEF IInv, Places, SlotsTaken
<1>2. /\ IsFiniteSet(Requests') /\ Cardinality(Requests') = Cardinality(Requests) - 1
      /\ announces' \in [Tiers -> Seq(RequestRecord)]
  BY <1>0, <1>1, RequestsLess
<1>3. SlotsTaken'
  <2>1. Cardinality(Requests) \in Nat /\ slots \in Nat /\ MaxTasks \in Nat
        /\ slots + Cardinality(Requests) >= MaxTasks
    BY <1>1, FS_CardinalityType, LimitsAssumption DEF IInv, SlotsTaken
  <2> QED
    BY <2>1, <1>0, <1>2 DEF SlotsTaken
<1>4. Sets'
  BY <1>0, LimitsAssumption DEF IInv, Sets
<1>5. /\ r \in TierRecord /\ a \in Seq(RequestRecord) /\ q \in RequestRecord
      /\ r.current \in DOMAIN Trackers[x] /\ Shaped(r.events)
      /\ \A j \in DOMAIN a : a[j].key <= r.key
      /\ failures = 0 => Told(x)
  BY PlaceOf, LenProperties DEF IInv
<1>6. announces'[x] = b /\ b \in Seq(RequestRecord) /\ \A j \in DOMAIN b : b[j].key <= r.key
  BY <1>0, <1>1, <1>5, KeysLess
<1>7. \A y \in Tiers : y # x => announces'[y] = announces[y]
  BY <1>0, <1>1
\* The other tiers are as they were.
<1>8. ASSUME NEW y \in Tiers, y # x, tier'[y] = tier[y]
      PROVE  Kept(y)' /\ (failures = 0 => Told(y)')
  BY <1>0, <1>7, <1>8, PlaceOf DEF IInv, Kept, Told, Present
<1>9. CASE FindTier(x, q) /\ failures' = failures
           /\ \E s \in OnSuccess(tier[x], q) : tier' = [tier EXCEPT ![x] = s]
  <2>1. PICK s \in OnSuccess(r, q) : tier' = [tier EXCEPT ![x] = s]
    BY <1>9
  <2>2. q.key = r.key
    BY <1>9 DEF FindTier
  <2> HIDE DEF r, b
  <2>3. ASSUME NEW runs \in BOOLEAN
        PROVE  /\ s \in TierRecord /\ Shaped(s.events)
               /\ s.key = r.key /\ s.current = r.current
               /\ Single(r, a) => Single(s, b)
               /\ Single(r, a) /\ Means(r, a, runs) => Means(s, b, runs)
    BY <1>5, <2>1, <2>2, AnswerKeeps DEF b
  <2>4. s \in TierRecord /\ Shaped(s.events) /\ s.key = r.key /\ s.current = r.current
    BY <2>3
  <2>5. tier'[x] = s /\ tier' \in [Tiers -> TierRecord] /\ \A y \in Tiers : y # x => tier'[y] = tier[y]
    BY <1>1, <2>1, <2>4
  <2>6. Kept(x)'
    BY <1>5, <1>6, <2>4, <2>5 DEF Kept
  <2>7. failures = 0 => Told(x)'
    <3> SUFFICES ASSUME failures = 0, Present(x)
                 PROVE  /\ Single(s, b)
                        /\ Owner[x] \notin starting => Means(s, b, Owner[x] \in running)
      BY <1>0, <1>6, <2>5 DEF Told, Present
    <3>1. /\ Single(r, a)
          /\ Owner[x] \notin starting => Means(r, a, Owner[x] \in running)
      BY <1>5 DEF Told, r
    <3>2. (Owner[x] \in running) \in BOOLEAN
      OBVIOUS
    <3> QED
      BY <3>1, <3>2, <2>3
  <2>8. Places'
    BY <1>2, <1>8, <1>9, <2>5, <2>6, <2>7 DEF Places
  <2> QED
    BY <2>8, <1>3, <1>4 DEF IInv
<1>10. CASE ~FindTier(x, q) /\ tier' = tier /\ failures' = failures
  <2>1. Kept(x)'
    BY <1>5, <1>6, <1>10 DEF Kept
  <2>2. failures = 0 => Told(x)'
    <3> SUFFICES ASSUME failures = 0, Present(x)
                 PROVE  /\ Single(r, b)
                        /\ Owner[x] \notin starting => Means(r, b, Owner[x] \in running)
      BY <1>0, <1>6, <1>10 DEF Told, Present
    <3>1. a[i].key # r.key
      BY <1>10 DEF FindTier
    <3>2. /\ Single(r, a)
          /\ Owner[x] \notin starting => Means(r, a, Owner[x] \in running)
      BY <1>5 DEF Told
    <3>3. (Owner[x] \in running) \in BOOLEAN
      OBVIOUS
    <3> HIDE DEF r, a
    <3>4. ASSUME NEW runs \in BOOLEAN
          PROVE  /\ Single(r, a) => Single(r, RemoveAt(a, i))
                 /\ Means(r, a, runs) => Means(r, RemoveAt(a, i), runs)
      BY <1>5, <3>1, StrayAnswer DEF a
    <3>5. b = RemoveAt(a, i)
      BY DEF a
    <3> QED
      BY <3>2, <3>3, <3>4, <3>5
  <2>3. Places'
    BY <1>1, <1>2, <1>8, <1>10, <2>1, <2>2 DEF Places
  <2> QED
    BY <2>3, <1>3, <1>4 DEF IInv
<1>11. CASE failures' = failures + 1
            /\ tier' = IF FindTier(x, q) THEN [tier EXCEPT ![x] = OnError(@, q, x)] ELSE tier
  <2>1. failures \in Nat /\ failures' # 0
    BY <1>11 DEF IInv, Sets
  <2> DEFINE s == OnError(r, q, x)
  <2>2. s \in TierRecord /\ s.current \in DOMAIN Trackers[x] /\ Shaped(s.events) /\ s.key = r.key
    BY <1>5, OnErrorKeeps
  <2>3. tier'[x] \in {r, s} /\ tier' \in [Tiers -> TierRecord]
        /\ \A y \in Tiers : y # x => tier'[y] = tier[y]
    BY <1>1, <1>11, <2>2
  <2> HIDE DEF s, r, b
  <2>4. Kept(x)'
    BY <1>5, <1>6, <2>2, <2>3 DEF Kept
  <2>5. Places'
    BY <1>2, <1>8, <2>1, <2>3, <2>4 DEF Places
  <2> QED
    BY <2>5, <1>3, <1>4 DEF IInv
<1> QED
  BY <1>0, <1>9, <1>10, <1>11

LEMMA ScrapeDoneStep ==
    ASSUME IInv, NEW i \in DOMAIN scrapes, ScrapeDone(i) PROVE IInv'
<1> DEFINE q == scrapes[i]
           found == UNION {FindScraped(t, q.url) : t \in q.torrents}
           scraped(r) == [r EXCEPT !.isScraping = FALSE, !.scrapeAt = NextScrape(r)]
           retry(r, x) == LET s == IncrementTracker(r, x) IN [s EXCEPT !.scrapeAt = NextScrape(s)]
<1>0. /\ slots' = slots + 1
      /\ \/ /\ tier' = [x \in Tiers |-> IF x \in found THEN scraped(tier[x]) ELSE tier[x]]
            /\ UNCHANGED failures
         \/ /\ tier' = [x \in Tiers |-> IF x \in found THEN retry(tier[x], x) ELSE tier[x]]
            /\ failures < MaxFailures /\ failures' = failures + 1
      /\ UNCHANGED <<present, running, starting, announces, stops, ops, scrapesDue>>
  BY DEF ScrapeDone
<1>1. /\ slots' = slots + 1
      /\ failures' = failures \/ (failures < MaxFailures /\ failures' = failures + 1)
      /\ present' = present /\ running' = running /\ starting' = starting
      /\ announces' = announces /\ stops' = stops /\ ops' = ops /\ scrapesDue' = scrapesDue
  BY <1>0
<1> HIDE DEF found, scraped, retry, q
<1>2. \A r : NextScrape(r) \in Times
  BY DEF NextScrape, Times
<1>3. Sets'
  BY <1>1, LimitsAssumption DEF IInv, Sets
<1>4. SlotsTaken'
  <2>1. Requests' = Requests
    BY <1>1 DEF Requests
  <2>2. Cardinality(Requests) \in Nat /\ slots \in Nat /\ MaxTasks \in Nat
        /\ slots + Cardinality(Requests) >= MaxTasks /\ IsFiniteSet(Requests)
    BY FS_CardinalityType, LimitsAssumption DEF IInv, SlotsTaken
  <2>3. slots' \in Nat /\ slots' + Cardinality(Requests) >= MaxTasks
    BY <2>2, <1>1
  <2>4. IsFiniteSet(Requests') /\ Cardinality(Requests') = Cardinality(Requests)
    BY <2>1, <2>2
  <2> QED
    BY <2>3, <2>4 DEF SlotsTaken
<1>5. CASE tier' = [x \in Tiers |-> IF x \in found THEN scraped(tier[x]) ELSE tier[x]]
           /\ failures' = failures
  <2>1. ASSUME NEW x \in Tiers
        PROVE  /\ tier'[x] \in TierRecord /\ Alike(tier[x], tier'[x])
               /\ tier'[x].current = tier[x].current
    <3>1. tier[x] \in TierRecord
      BY PlaceOf DEF IInv
    <3>2. tier'[x] \in {tier[x], [tier[x] EXCEPT !.isScraping = FALSE,
                                                 !.scrapeAt = NextScrape(tier[x])]}
      BY <1>5 DEF scraped
    <3>3. NextScrape(tier[x]) \in Times
      BY <1>2
    <3> QED
      BY <3>1, <3>2, <3>3 DEF TierRecord, Alike
  <2>2. tier' \in [Tiers -> TierRecord]
    BY <2>1, <1>5
  <2>3. Places'
    BY <2>1, <2>2, <1>1, <1>5, AlikeStep DEF IInv
  <2> QED
    BY <2>3, <1>3, <1>4 DEF IInv
<1>6. CASE tier' = [x \in Tiers |-> IF x \in found THEN retry(tier[x], x) ELSE tier[x]]
           /\ failures' = failures + 1
  <2>1. ASSUME NEW x \in Tiers PROVE tier'[x] \in TierRecord /\ Kept(x)'
    <3> DEFINE s == IncrementTracker(tier[x], x)
               z == [s EXCEPT !.scrapeAt = NextScrape(s)]
    <3>1. /\ tier[x] \in TierRecord /\ tier[x].current \in DOMAIN Trackers[x]
          /\ Kept(x)
      BY PlaceOf DEF IInv, Places
    <3>2. /\ s \in TierRecord /\ s.current \in DOMAIN Trackers[x]
          /\ s.events = tier[x].events /\ s.key = tier[x].key
      BY <3>1, IncrementKeeps
    <3>3. tier'[x] \in {tier[x], z}
      BY <1>6 DEF retry
    <3>4. NextScrape(s) \in Times
      BY <1>2
    <3> HIDE DEF s
    <3>5. /\ z \in TierRecord /\ z.current = s.current
          /\ z.events = tier[x].events /\ z.key = tier[x].key
      BY <3>2, <3>4 DEF TierRecord
    <3> HIDE DEF z
    <3> QED
      BY <3>1, <3>2, <3>3, <3>5, <1>1 DEF Kept
  <2>2. tier' \in [Tiers -> TierRecord]
    BY <2>1, <1>6
  <2>3. failures' # 0
    BY <1>6 DEF IInv, Sets
  <2>4. Places'
    BY <2>1, <2>2, <2>3, <1>1 DEF IInv, Places
  <2> QED
    BY <2>4, <1>3, <1>4 DEF IInv
<1> QED
  BY <1>0, <1>5, <1>6

LEMMA StutterStep ==
    ASSUME IInv, UNCHANGED vars PROVE IInv'
<1>1. /\ UNCHANGED <<present, running, starting, tier, slots, announces, stops>>
      /\ UNCHANGED <<ops, scrapesDue, failures>>
  BY DEF vars
<1>2. Sets' /\ SlotsTaken'
  BY <1>1, SameSlots DEF IInv, Sets
<1>3. Places'
  BY <1>1 DEF IInv, Places, Kept, Told, Present
<1> QED
  BY <1>2, <1>3 DEF IInv

-----------------------------------------------------------------------------
(* The theorems *)

\* The invariant of every behaviour: each step of the announcer, of the event
\* thread and of the API workers keeps it.
THEOREM Inductive == Spec => []IInv
<1>1. Init => IInv
  BY InitIInv
<1>2. IInv /\ [Next]_vars => IInv'
  <2> SUFFICES ASSUME IInv, [Next]_vars PROVE IInv'
    OBVIOUS
  <2>1. ASSUME NEW t \in Torrents,
               \/ StartAsked(t) \/ StartImpl(t) \/ Stop(t) \/ Completed(t)
               \/ ManualAnnounce(t) \/ RemoveTorrent(t) \/ AddTorrent(t)
        PROVE  IInv'
    BY <2>1, StartAskedStep, StartImplStep, StopStep, CompletedStep,
       ManualAnnounceStep, RemoveTorrentStep, AddTorrentStep
  <2>2. ASSUME NEW x \in Tiers, AnnounceDue(x) \/ ScrapeDue(x) PROVE IInv'
    BY <2>2, DueStep
  <2>3. ASSUME NEW x \in Tiers, NEW i \in DOMAIN announces[x], AnnounceDone(x, i)
        PROVE  IInv'
    BY <2>3, AnnounceDoneStep
  <2>4. ASSUME NEW i \in DOMAIN scrapes, ScrapeDone(i) PROVE IInv'
    BY <2>4, ScrapeDoneStep
  <2> QED
    BY <2>1, <2>2, <2>3, <2>4, ChangeMyPortStep, UpkeepStep, StutterStep DEF Next
<1> QED
  BY <1>1, <1>2, PTL DEF Spec

\* on_announce_done and on_scrape_done give back the slot that onUpkeepTimer
\* took, also for a tier that is gone: with k announces on their way at least
\* MaxTasks - k slots are free.
THEOREM SlotsComeBack == Spec => []NoSlotLost
BY Inductive, InvSound, PTL

\* tier_announce_event_push keeps the queues in shape; and while no request
\* failed, the last word a tracker has of a torrent, or will have when the queue
\* was sent, is whether tr_torrent.isRunning is set.
THEOREM TrackersKnow == Spec => []IntentKept
BY Inductive, InvSound, PTL
=============================================================================
