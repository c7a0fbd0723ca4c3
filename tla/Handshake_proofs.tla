---------------------------- MODULE Handshake_proofs ----------------------------
(***************************************************************************)
(* The proofs about the handshake, on which those of the rest of a           *)
(* connection (Wire_proofs) are built, with the facts about numbers and      *)
(* loops that both use.                                                      *)
(***************************************************************************)
EXTENDS Handshake, FiniteSetTheorems, SequenceTheorems, WellFoundedInduction, TLAPS

-----------------------------------------------------------------------------
(* Numbers *)
\* A set of naturals has a least element.
LEMMA LeastNat ==
    ASSUME NEW T \in SUBSET Nat, T # {}
    PROVE  \E x \in T : \A y \in T : x <= y
<1> DEFINE R == OpToRel(<, Nat)
<1>1. IsWellFoundedOn(R, Nat)
  BY NatLessThanWellFounded
<1>2. \A x, y \in Nat : y < x => <<y, x>> \in R
  BY DEF OpToRel
<1> HIDE DEF R
<1>3. PICK x \in T : \A y \in T : ~(<<y, x>> \in R)
  BY <1>1, WFMin
<1>4. \A y \in T : ~(y < x)
  BY <1>2, <1>3
<1>5. \A y \in T : x <= y
  BY <1>4, <1>3, SMT
<1> QED
  BY <1>5

-----------------------------------------------------------------------------
(* Loops *)
LEMMA StepsReach ==
    ASSUME NEW n \in Nat, NEW X, NEW f, f[0] \in X[0],
           \A k \in 1..n : f[k - 1] \in X[k - 1] => f[k] \in X[k]
    PROVE  \A k \in 0..n : f[k] \in X[k]
<1> DEFINE T == {k \in 0..n : f[k] \notin X[k]}
<1> SUFFICES ASSUME T # {} PROVE FALSE
  OBVIOUS
<1>1. T \in SUBSET Nat
  OBVIOUS
<1> HIDE DEF T
<1>2. PICK m \in T : \A j \in T : m <= j
  BY <1>1, LeastNat
<1>3. m \in 0..n /\ f[m] \notin X[m]
  BY <1>2 DEF T
<1>4. m \in 1..n
  BY <1>3
<1>5. m - 1 \in 0..n /\ ~(m <= m - 1)
  BY <1>4
<1>6. f[m - 1] \in X[m - 1]
  BY <1>2, <1>5 DEF T
<1> QED
  BY <1>3, <1>4, <1>6

IsLoop(f, n, x0, F) == f = [k \in 0..n |-> IF k = 0 THEN x0 ELSE F[k][f[k - 1]]]

LEMMA StepsExist ==
    ASSUME NEW n \in Nat, NEW X, NEW F, NEW x0, x0 \in X[0],
           \A k \in 1..n : \A x \in X[k - 1] : F[k][x] \in X[k]
    PROVE  \E f : IsLoop(f, n, x0, F) /\ \A k \in 0..n : f[k] \in X[k]
<1> DEFINE Loop(f, m) == /\ f = [k \in 0..m |-> IF k = 0 THEN x0 ELSE F[k][f[k - 1]]]
                         /\ \A k \in 0..m : f[k] \in X[k]
           T == {m \in 0..n : ~\E f : Loop(f, m)}
<1> SUFFICES ASSUME T # {} PROVE FALSE
  <2>1. T = {}
    OBVIOUS
  <2>2. n \in 0..n
    OBVIOUS
  <2>3. \E f : Loop(f, n)
    BY <2>1, <2>2
  <2> QED
    BY <2>3 DEF IsLoop
<1>1. T \in SUBSET Nat
  OBVIOUS
<1> HIDE DEF T
<1>2. PICK m \in T : \A j \in T : m <= j
  BY <1>1, LeastNat
<1>3. m \in 0..n /\ ~\E f : Loop(f, m)
  BY <1>2 DEF T
<1>4. CASE m = 0
  <2> DEFINE g == [k \in 0..0 |-> x0]
  <2>1. g[0] = x0
    OBVIOUS
  <2>2. g = [k \in 0..0 |-> IF k = 0 THEN x0 ELSE F[k][g[k - 1]]]
    <3>1. \A k \in 0..0 : x0 = IF k = 0 THEN x0 ELSE F[k][g[k - 1]]
      OBVIOUS
    <3> QED
      BY <3>1
  <2> HIDE DEF g
  <2>3. \A k \in 0..0 : g[k] \in X[k]
    BY <2>1
  <2> QED
    BY <1>3, <1>4, <2>2, <2>3
<1>5. CASE m # 0
  <2>1. m \in 1..n /\ m - 1 \in 0..n /\ ~(m <= m - 1)
    BY <1>3, <1>5
  <2>2. m - 1 \notin T
    BY <1>2, <2>1
  <2>3. PICK f : Loop(f, m - 1)
    BY <2>1, <2>2 DEF T
  <2>4. /\ \A k \in 0..(m - 1) : f[k] = IF k = 0 THEN x0 ELSE F[k][f[k - 1]]
        /\ \A k \in 0..(m - 1) : f[k] \in X[k]
    <3>1. f = [k \in 0..(m - 1) |-> IF k = 0 THEN x0 ELSE F[k][f[k - 1]]]
      BY <2>3
    <3> QED
      BY <2>3, <3>1
  <2> DEFINE g == [k \in 0..m |-> IF k = m THEN F[m][f[m - 1]] ELSE f[k]]
             h == [k \in 0..m |-> IF k = 0 THEN x0 ELSE F[k][g[k - 1]]]
  <2>5. \A k \in 0..m : g[k] = IF k = m THEN F[m][f[m - 1]] ELSE f[k]
    OBVIOUS
  <2>6. ASSUME NEW k \in 0..m PROVE g[k] = IF k = 0 THEN x0 ELSE F[k][g[k - 1]]
    <3> HIDE DEF g
    <3>1. CASE k = 0
      BY <2>1, <2>4, <2>5, <3>1
    <3>2. CASE k # 0 /\ k # m
      <4>1. k \in 0..(m - 1) /\ k - 1 \in 0..m /\ k - 1 # m
        BY <2>1, <3>2
      <4>2. g[k] = f[k] /\ g[k - 1] = f[k - 1]
        BY <2>5, <3>2, <4>1
      <4> QED
        BY <2>4, <3>2, <4>1, <4>2
    <3>3. CASE k = m
      <4>1. k - 1 \in 0..m /\ k - 1 # m /\ k # 0
        BY <2>1, <3>3
      <4>2. g[k - 1] = f[m - 1] /\ g[k] = F[m][f[m - 1]]
        BY <2>5, <3>3, <4>1
      <4> QED
        BY <3>3, <4>1, <4>2
    <3> QED
      BY <3>1, <3>2, <3>3
  <2>7. g = h
    <3>1. \A k \in 0..m : (IF k = m THEN F[m][f[m - 1]] ELSE f[k]) = IF k = 0 THEN x0 ELSE F[k][g[k - 1]]
      BY <2>5, <2>6
    <3> QED
      BY <3>1
  <2>8. ASSUME NEW k \in 0..m PROVE g[k] \in X[k]
    <3> HIDE DEF g
    <3>1. CASE k = m
      <4>1. m - 1 \in 0..(m - 1)
        BY <2>1
      <4>2. f[m - 1] \in X[m - 1]
        BY <2>4, <4>1
      <4> QED
        BY <2>1, <2>5, <3>1, <4>2
    <3>2. CASE k # m
      <4>1. k \in 0..(m - 1)
        BY <2>1, <3>2
      <4> QED
        BY <2>4, <2>5, <3>2, <4>1
    <3> QED
      BY <3>1, <3>2
  <2> HIDE DEF g
  <2>9. Loop(g, m)
    BY <2>7, <2>8
  <2> QED
    BY <1>3, <2>9
<1> QED
  BY <1>4, <1>5


\* What is true of 0, and of k when of k - 1, is true up to n.
LEMMA Climb ==
    ASSUME NEW n \in Nat, NEW T, 0 \in T, \A k \in 1..n : k - 1 \in T => k \in T
    PROVE  \A k \in 0..n : k \in T
<1> DEFINE B == {k \in 0..n : k \notin T}
<1> SUFFICES ASSUME B # {} PROVE FALSE
  OBVIOUS
<1>1. B \in SUBSET Nat
  OBVIOUS
<1> HIDE DEF B
<1>2. PICK m \in B : \A j \in B : m <= j
  BY <1>1, LeastNat
<1>3. m \in 0..n /\ m \notin T
  BY <1>2 DEF B
<1>4. m \in 1..n
  BY <1>3
<1>5. m - 1 \in 0..n /\ ~(m <= m - 1)
  BY <1>4
<1>6. m - 1 \in T
  BY <1>2, <1>5 DEF B
<1> QED
  BY <1>3, <1>4, <1>6

\* A set of numbers up to n has a greatest.
LEMMA GreatestUpTo ==
    ASSUME NEW n \in Nat, NEW T \in SUBSET (0..n), T # {}
    PROVE  Max(T) \in T /\ \A j \in T : j <= Max(T)
<1> DEFINE U == {k \in Nat : \A j \in T : j <= k}
<1>1. n \in U
  OBVIOUS
<1>2. U \in SUBSET Nat
  OBVIOUS
<1> HIDE DEF U
<1>3. PICK m \in U : \A k \in U : m <= k
  BY <1>1, <1>2, LeastNat
<1>4. m \in Nat /\ \A j \in T : j <= m
  BY <1>3 DEF U
<1>5. m \in T
  <2> SUFFICES ASSUME m \notin T PROVE FALSE
    OBVIOUS
  <2>1. PICK t : t \in T
    OBVIOUS
  <2>2. m # 0
    BY <1>4, <2>1
  <2>3. m - 1 \in Nat /\ \A j \in T : j <= m - 1
    BY <1>4, <2>2
  <2>4. m - 1 \in U
    BY <2>3 DEF U
  <2> QED
    BY <1>3, <1>4, <2>4
<1>6. \E x \in T : \A y \in T : x >= y
  BY <1>4, <1>5
<1>7. Max(T) \in T /\ \A y \in T : Max(T) >= y
  <2> DEFINE x == CHOOSE x \in T : \A y \in T : x >= y
  <2>1. x \in T /\ \A y \in T : x >= y
    BY <1>6
  <2>2. Max(T) = x
    BY DEF Max
  <2> HIDE DEF x
  <2> QED
    BY <2>1, <2>2
<1> QED
  BY <1>4, <1>7

\* Without one of its entries, a sequence has the others.
LEMMA RemovedShape ==
    ASSUME NEW D, NEW s \in Seq(D), NEW i \in 1..Len(s)
    PROVE  /\ RemoveAt(s, i) \in Seq(D) /\ Len(RemoveAt(s, i)) = Len(s) - 1
           /\ \A j \in 1..(Len(s) - 1) : RemoveAt(s, i)[j] = IF j < i THEN s[j] ELSE s[j + 1]
<1>1. Len(s) \in Nat /\ \A j \in 1..Len(s) : s[j] \in D
  BY LenProperties
<1> DEFINE a == SubSeq(s, 1, i - 1)
           b == SubSeq(s, i + 1, Len(s))
<1>2. /\ a \in Seq(D) /\ Len(a) = i - 1
      /\ \A j \in 1..(i - 1) : a[j] = s[j]
  BY <1>1, SubSeqProperties
<1>3. /\ b \in Seq(D) /\ Len(b) = Len(s) - i
      /\ \A j \in 1..(Len(s) - i) : b[j] = s[i + j]
  <2> DEFINE m == i + 1
             n == Len(s)
  <2>1. m \in Int /\ n \in Int /\ \A j \in m..n : s[j] \in D
    BY <1>1
  <2>2. n - m + 1 = Len(s) - i /\ (IF m <= n THEN n - m + 1 ELSE 0) = Len(s) - i
    BY <1>1
  <2>3. \A j \in Int : m + j - 1 = i + j
    BY <1>1
  <2>5. b = SubSeq(s, m, n)
    OBVIOUS
  <2> HIDE DEF m, n
  <2>4. /\ SubSeq(s, m, n) \in Seq(D)
        /\ Len(SubSeq(s, m, n)) = IF m <= n THEN n - m + 1 ELSE 0
        /\ \A j \in 1..(n - m + 1) : SubSeq(s, m, n)[j] = s[m + j - 1]
    BY <2>1, SubSeqProperties
  <2> HIDE DEF b
  <2>6. b \in Seq(D) /\ Len(b) = Len(s) - i
    BY <2>2, <2>4, <2>5
  <2>7. \A j \in 1..(Len(s) - i) : b[j] = s[m + j - 1]
    BY <2>2, <2>4, <2>5
  <2>8. \A j \in 1..(Len(s) - i) : j \in Int
    OBVIOUS
  <2> QED
    BY <2>3, <2>6, <2>7, <2>8
<1>4. RemoveAt(s, i) = a \o b
  BY DEF RemoveAt
<1> HIDE DEF a, b
<1>5. /\ a \o b \in Seq(D) /\ Len(a \o b) = Len(a) + Len(b)
      /\ \A j \in 1..(Len(a) + Len(b)) : (a \o b)[j] = IF j <= Len(a) THEN a[j] ELSE b[j - Len(a)]
  BY <1>2, <1>3, ConcatProperties
<1>6. ASSUME NEW j \in 1..(Len(s) - 1) PROVE (a \o b)[j] = IF j < i THEN s[j] ELSE s[j + 1]
  <2>1. j \in Int /\ i \in Int /\ Len(s) \in Nat /\ 1 <= j /\ j <= Len(s) - 1
    BY <1>1
  <2>2. CASE j < i
    <3>2. j \in 1..(Len(a) + Len(b)) /\ j <= Len(a) /\ j \in 1..(i - 1)
      BY <1>2, <1>3, <2>1, <2>2
    <3>1. (a \o b)[j] = a[j] /\ a[j] = s[j]
      BY <1>2, <1>5, <3>2
    <3> QED
      BY <2>2, <3>1
  <2>3. CASE ~(j < i)
    <3>1. j - (i - 1) \in 1..(Len(s) - i) /\ i + (j - (i - 1)) = j + 1
      BY <2>1, <2>3
    <3>2. b[j - (i - 1)] = s[j + 1]
      BY <1>3, <3>1
    <3>3. (a \o b)[j] = b[j - (i - 1)]
      BY <1>2, <1>3, <1>5, <2>1, <2>3
    <3> QED
      BY <2>3, <3>2, <3>3
  <2> QED
    BY <2>2, <2>3
<1> QED
  BY <1>1, <1>2, <1>3, <1>4, <1>5, <1>6

-----------------------------------------------------------------------------
(***************************************************************************)
(* The handshake, for every set of encryption modes and every number of    *)
(* accidents: two ends that connect agree, and none fails without a reason. *)
(* Each conversation is a script; the invariant places both ends in it.    *)
(***************************************************************************)
(* The two conversations, as the ends' ciphers put them into the stream.   *)
AScript == <<Plain("Ya"), Plain("Req1"), Plain("Skey"), [Plain("VC") EXCEPT !.pos = 1],
             [With("Provide", {"crypto"}) EXCEPT !.pos = 2], [Plain("HS") EXCEPT !.pos = 3], [Plain("ID") EXCEPT !.pos = 4]>>
BScript == <<Plain("Yb"), Plain("PadB"), [Plain("VC") EXCEPT !.pos = 1],
             [With("Select", {"crypto"}) EXCEPT !.pos = 2], [Plain("HS") EXCEPT !.pos = 3], [Plain("ID") EXCEPT !.pos = 4]>>
\* What is on its way: of a script, r tokens have been read and n written.
Carries(w, o, u, r, n) ==
    /\ r + Len(w) + Len(o) = n
    /\ \A i \in 1..Len(w) : w[i] = u[r + i]
    /\ \A i \in 1..Len(o) : o[i] = u[r + Len(w) + i]
ToB(u, r, n) == Carries(wire["B"], hsOut["A"], u, r, n)
ToA(u, r, n) == Carries(wire["A"], hsOut["B"], u, r, n)

Trouble == hsAccidents > 0 \/ (hs["A"].mode = "CLEAR" /\ hs["B"].mode = "REQUIRED")
CipherAt(h, enc, ep, dp) == h.enc = enc /\ h.encPos = ep /\ h.decPos = dp

\* The encrypted handshake: A has read r tokens of n, B has read q of m.
EncryptedA(h, r, m) ==
    /\ ~h.retried /\ h.mode # "CLEAR" /\ (r > 0 => h.sentHello)
    /\ \/ r = 0 /\ m = 1 /\ h.state = "YB" /\ CipherAt(h, "plaintext", 0, 0)
       \/ r \in {1, 2} /\ m = 7 /\ h.state = "VC" /\ CipherAt(h, "crypto", 5, 1)
       \/ r = 3 /\ m = 7 /\ h.state = "CRYPTO_SELECT" /\ CipherAt(h, "crypto", 5, 2)
       \/ r = 4 /\ m = 7 /\ h.state = "HANDSHAKE" /\ CipherAt(h, "crypto", 5, 3)
       \/ r = 5 /\ m = 7 /\ h.state = "PEER_ID" /\ CipherAt(h, "crypto", 5, 4)
       \/ r = 6 /\ m = 7 /\ h.state = "connected" /\ CipherAt(h, "crypto", 5, 5)
EncryptedB(h, q, n) ==
    \/ q = 0 /\ n = 0 /\ h.state = "HANDSHAKE" /\ CipherAt(h, "plaintext", 0, 0)
    \/ q = 0 /\ n = 0 /\ h.state = "YA" /\ CipherAt(h, "crypto", 0, 0)
    \/ q = 1 /\ n = 2 /\ h.state \in {"PAD_A", "CRYPTO_PROVIDE"} /\ CipherAt(h, "crypto", 0, 0)
    \/ q = 5 /\ n = 2 /\ h.state = "IA" /\ CipherAt(h, "crypto", 0, 3) /\ h.select = {"crypto"}
    \/ q = 5 /\ n = 6 /\ h.state = "PAYLOAD_STREAM" /\ CipherAt(h, "crypto", 5, 3)
    \/ q = 7 /\ n = 6 /\ h.state = "connected" /\ CipherAt(h, "crypto", 5, 5)
Encrypted == \E r \in 0..6, m \in {1, 7}, q \in {0, 1, 5, 7}, n \in {0, 2, 6} :
    /\ EncryptedA(hs["A"], r, m) /\ EncryptedB(hs["B"], q, n)
    /\ ToA(BScript, r, n) /\ ToB(AScript, q, m)

\* The plaintext one; what the old connection left may come first.
Leftover == <<Plain("Junk"), Plain("HS"), Plain("ID")>>
PlainA(h, r) ==
    /\ h.sentHello /\ CipherAt(h, "plaintext", 0, 0)
    /\ \/ r \in {0, 1} /\ h.state = "HANDSHAKE"
       \/ r = 2 /\ h.state = "PEER_ID"
       \/ r = 3 /\ h.state = "connected"
PlainB(h, q, n) ==
    /\ CipherAt(h, "plaintext", 0, 0)
    /\ \/ q = 0 /\ n = 1 /\ h.state = "HANDSHAKE" /\ ~h.sentHello
       \/ q = 1 /\ n = 3 /\ h.state = "PEER_ID" /\ h.mode # "REQUIRED"
       \/ q = 2 /\ n = 3 /\ h.state = "connected" /\ h.mode # "REQUIRED"
Plaintext == \E r \in 0..3, q \in 0..2, n \in {1, 3} :
    /\ hs["A"].mode # "REQUIRED" /\ (hs["A"].mode = "CLEAR" \/ hsAccidents > 0)
    /\ r = 0 => hsAccidents > 0
    /\ PlainA(hs["A"], r) /\ PlainB(hs["B"], q, n)
    /\ ToA(Leftover, r, n) /\ ToB(Hello, q, 2)

NoHello == {t \in Token : t.what # "HS"}
NoStart == {t \in Token : t # Plain("HS") /\ t.what # "Ya"}
\* After a retry that B cannot read: nothing that comes to A is a handshake,
\* and nothing that comes to B is a plaintext one or a key.
Refused ==
    /\ hs["A"].state = "HANDSHAKE" /\ hsAccidents > 0
    /\ hs["B"].state \in {"HANDSHAKE", "YA"} /\ hsOut["B"] = <<>>
    /\ wire["A"] \in Seq(NoHello) /\ wire["B"] \in Seq(NoStart) /\ hsOut["A"] \in Seq(NoStart)
\* After a retry with the first key still unsent.
KeyAhead == <<Plain("Ya"), Plain("HS"), Plain("ID")>>
Astray ==
    /\ hs["A"].state = "HANDSHAKE" /\ hsAccidents > 0
    /\ wire["A"] \in Seq(NoHello) /\ hsOut["B"] \in Seq(NoHello)
    /\ \/ hs["B"].state \in {"HANDSHAKE", "YA"} /\ ToB(KeyAhead, 0, 3)
       \/ hs["B"].state = "PAD_A" /\ \E q \in 1..3 : ToB(KeyAhead, q, 3)

\* What a retry of A would start from.
MayTryAgain ==
    /\ hs["A"].state \in {"YB", "VC"} => hs["A"].mode # "CLEAR"
    /\ hs["A"].state = "YB" =>
         /\ CipherAt(hs["A"], "plaintext", 0, 0)
         /\ \/ hsOut["A"] = <<>>
            \/ /\ Len(hsOut["A"]) = 1 /\ hsOut["A"][1] = Plain("Ya")
               /\ wire["B"] = <<>> /\ wire["A"] = <<>> /\ hsOut["B"] = <<>>
    /\ hs["A"].state = "VC" =>
         /\ hs["A"].enc = "crypto" /\ hs["A"].encPos > 0
         /\ hsOut["A"] \in Seq(NoStart)

HsTypes == /\ hs \in [Ends -> EndRecord] /\ hsAccidents \in Nat
           /\ wire \in [Ends -> Seq(Token)] /\ hsOut \in [Ends -> Seq(Token)]
Failing(e) == hs[e].state = "failed"
OnTrack == Encrypted \/ Plaintext \/ Refused \/ Astray
HsInv == /\ HsTypes /\ ~foreign
         /\ Failing("A") \/ Failing("B") => Trouble
         /\ ~Failing("A") => MayTryAgain
         /\ ~Failing("A") /\ ~Failing("B") => OnTrack

-----------------------------------------------------------------------------
(* Sequences of tokens.                                                    *)

LEMMA TokenIs ==
    ASSUME NEW t \in Token
    PROVE  t.pos \in Nat /\ t.arg \in SUBSET CryptoOptions /\ t.what \in Whats
BY DEF Token

LEMMA TokenSeq ==
    ASSUME NEW s \in Seq(Token)
    PROVE  Len(s) \in Nat /\ s \in [1..Len(s) -> Token] /\ \A i \in 1..Len(s) : s[i] \in Token
BY LenProperties

LEMMA TokensJoined ==
    ASSUME NEW s \in Seq(Token), NEW t \in Seq(Token)
    PROVE  /\ s \o t \in Seq(Token) /\ Len(s \o t) = Len(s) + Len(t)
           /\ \A i \in 1..Len(s) : (s \o t)[i] = s[i]
           /\ \A i \in 1..Len(t) : (s \o t)[Len(s) + i] = t[i]
<1>1. s \o t \in Seq(Token) /\ Len(s \o t) = Len(s) + Len(t)
  BY ConcatProperties
<1>2. \A i \in 1..Len(s) + Len(t) : (s \o t)[i] = IF i <= Len(s) THEN s[i] ELSE t[i - Len(s)]
  BY ConcatProperties
<1>3. Len(s) \in Nat /\ Len(t) \in Nat
  BY TokenSeq
<1> QED
  BY <1>1, <1>2, <1>3

LEMMA TokenGone ==
    ASSUME NEW s \in Seq(Token), s # <<>>
    PROVE  /\ Head(s) = s[1] /\ Len(s) >= 1 /\ Tail(s) \in Seq(Token) /\ Len(Tail(s)) = Len(s) - 1
           /\ \A i \in 1..Len(s) - 1 : Tail(s)[i] = s[i + 1]
BY HeadTailProperties, TokenSeq

LEMMA TokensGone ==
    ASSUME NEW s \in Seq(Token), NEW k \in Nat, k <= Len(s)
    PROVE  /\ After(s, k) \in Seq(Token) /\ Len(After(s, k)) = Len(s) - k
           /\ \A i \in 1..Len(s) - k : After(s, k)[i] = s[i + k]
<1>1. Len(s) \in Nat
  BY TokenSeq
<1>2. SubSeq(s, k + 1, Len(s)) \in Seq(Token) /\ Len(SubSeq(s, k + 1, Len(s))) = Len(s) - k
  BY <1>1, SubSeqProperties, TokenSeq
<1>3. \A i \in 1..Len(s) - k : SubSeq(s, k + 1, Len(s))[i] = s[i + k]
  BY <1>1, <1>2, SubSeqProperties, TokenSeq
<1> QED
  BY <1>2, <1>3 DEF After

LEMMA TokenAdded ==
    ASSUME NEW s \in Seq(Token), NEW t \in Token
    PROVE  /\ Append(s, t) \in Seq(Token) /\ Len(Append(s, t)) = Len(s) + 1
           /\ \A i \in 1..Len(s) : Append(s, t)[i] = s[i]
           /\ Append(s, t)[Len(s) + 1] = t
BY AppendProperties, TokenSeq

-----------------------------------------------------------------------------
(* What is on its way, as the socket, the reader and the writer change it. *)

LEMMA FlushCarries ==
    ASSUME NEW w \in Seq(Token), NEW o \in Seq(Token), NEW u, NEW r \in Nat, NEW n \in Nat,
           Carries(w, o, u, r, n), o # <<>>
    PROVE  Carries(Append(w, Head(o)), Tail(o), u, r, n)
<1>1. Head(o) \in Token
  BY TokenSeq, TokenGone
<1>2. /\ Len(Append(w, Head(o))) = Len(w) + 1 /\ Append(w, Head(o))[Len(w) + 1] = o[1]
      /\ \A i \in 1..Len(w) : Append(w, Head(o))[i] = w[i]
  BY <1>1, TokenAdded, TokenGone
<1>3. Len(Tail(o)) = Len(o) - 1 /\ Len(o) >= 1 /\ \A i \in 1..Len(o) - 1 : Tail(o)[i] = o[i + 1]
  BY TokenGone
<1>4. Len(w) \in Nat /\ Len(o) \in Nat
  BY TokenSeq
<1>0. r + Len(w) + Len(o) = n
  BY DEF Carries
<1>5. r + Len(Append(w, Head(o))) + Len(Tail(o)) = n
  BY <1>0, <1>2, <1>3, <1>4
<1>6. \A i \in 1..Len(Append(w, Head(o))) : Append(w, Head(o))[i] = u[r + i]
  <2> TAKE i \in 1..Len(Append(w, Head(o)))
  <2>1. CASE i = Len(w) + 1
    <3>1. o[1] = u[r + Len(w) + 1]
      BY <1>3, <1>4 DEF Carries
    <3>2. r + Len(w) + 1 = r + i
      BY <2>1, <1>4
    <3> QED
      BY <3>1, <3>2, <2>1, <1>2
  <2>2. CASE i # Len(w) + 1
    BY <2>2, <1>2, <1>4 DEF Carries
  <2> QED
    BY <2>1, <2>2
<1>7. \A i \in 1..Len(Tail(o)) : Tail(o)[i] = u[r + Len(Append(w, Head(o))) + i]
  <2> TAKE i \in 1..Len(Tail(o))
  <2>1. i + 1 \in 1..Len(o) /\ i \in 1..Len(o) - 1
    BY <1>3, <1>4
  <2>2. o[i + 1] = u[r + Len(w) + (i + 1)]
    BY <2>1 DEF Carries
  <2>3. r + Len(w) + (i + 1) = r + Len(Append(w, Head(o))) + i
    BY <2>1, <1>2, <1>4
  <2> QED
    BY <2>1, <2>2, <2>3, <1>3
<1> QED
  BY <1>5, <1>6, <1>7 DEF Carries

LEMMA ReadCarries ==
    ASSUME NEW w \in Seq(Token), NEW o \in Seq(Token), NEW u, NEW r \in Nat, NEW n \in Nat,
           Carries(w, o, u, r, n), NEW k \in Nat, k <= Len(w)
    PROVE  Carries(After(w, k), o, u, r + k, n)
<1>1. Len(w) \in Nat /\ Len(o) \in Nat
  BY TokenSeq
<1>2. Len(After(w, k)) = Len(w) - k /\ \A i \in 1..Len(w) - k : After(w, k)[i] = w[i + k]
  BY TokensGone
<1>3. \A i \in 1..Len(w) - k : w[i + k] = u[r + k + i]
  <2> TAKE i \in 1..Len(w) - k
  <2>1. i + k \in 1..Len(w) /\ r + (i + k) = r + k + i
    BY <1>1
  <2>2. w[i + k] = u[r + (i + k)]
    BY <2>1 DEF Carries
  <2> QED
    BY <2>1, <2>2
<1>0. r + Len(w) + Len(o) = n
  BY DEF Carries
<1>4. r + k + Len(After(w, k)) + Len(o) = n
  BY <1>0, <1>1, <1>2
<1>5. \A i \in 1..Len(o) : o[i] = u[r + k + Len(After(w, k)) + i]
  <2> TAKE i \in 1..Len(o)
  <2>1. o[i] = u[r + Len(w) + i]
    BY DEF Carries
  <2>2. r + Len(w) + i = r + k + Len(After(w, k)) + i
    BY <1>1, <1>2
  <2> QED
    BY <2>1, <2>2
<1> QED
  BY <1>2, <1>3, <1>4, <1>5 DEF Carries

LEMMA TailIsAfter ==
    ASSUME NEW s \in Seq(Token), s # <<>>
    PROVE  Tail(s) = After(s, 1)
<1>1. Tail(s) \in Seq(Token) /\ After(s, 1) \in Seq(Token)
  BY TokenGone, TokensGone
<1>2. Len(Tail(s)) = Len(After(s, 1)) /\ \A i \in 1..Len(Tail(s)) : Tail(s)[i] = After(s, 1)[i]
  BY TokenGone, TokensGone
<1> QED
  BY <1>1, <1>2, SeqEqual

LEMMA WriteCarries ==
    ASSUME NEW w \in Seq(Token), NEW o \in Seq(Token), NEW u, NEW r \in Nat, NEW n \in Nat,
           Carries(w, o, u, r, n), NEW ts \in Seq(Token), \A i \in 1..Len(ts) : ts[i] = u[n + i]
    PROVE  Carries(w, o \o ts, u, r, n + Len(ts))
<1>1. Len(w) \in Nat /\ Len(o) \in Nat /\ Len(ts) \in Nat
  BY TokenSeq
<1>2. /\ Len(o \o ts) = Len(o) + Len(ts)
      /\ \A i \in 1..Len(o) : (o \o ts)[i] = o[i]
      /\ \A i \in 1..Len(ts) : (o \o ts)[Len(o) + i] = ts[i]
  BY TokensJoined
<1>0. r + Len(w) + Len(o) = n
  BY DEF Carries
<1>5. Len(o \o ts) = Len(o) + Len(ts)
  BY <1>2
<1>6. r + Len(w) + (Len(o) + Len(ts)) = n + Len(ts)
  BY <1>0, <1>1
<1>3. r + Len(w) + Len(o \o ts) = n + Len(ts)
  BY <1>5, <1>6
<1>4. \A i \in 1..Len(o \o ts) : (o \o ts)[i] = u[r + Len(w) + i]
  <2> TAKE i \in 1..Len(o \o ts)
  <2>1. CASE i <= Len(o)
    BY <2>1, <1>1, <1>2 DEF Carries
  <2>2. CASE ~(i <= Len(o))
    <3> DEFINE j == i - Len(o)
    <3>1. j \in 1..Len(ts) /\ i = Len(o) + j
      BY <2>2, <1>1, <1>2
    <3>2. (o \o ts)[i] = u[n + j]
      BY <3>1, <1>2
    <3>3. n + j = r + Len(w) + i
      <4>1. j \in Nat /\ i = Len(o) + j
        BY <1>1, <3>1
      <4> HIDE DEF j
      <4>2. r + Len(w) + (Len(o) + j) = n + j
        BY ONLY <1>0, <1>1, <4>1, r \in Nat, n \in Nat
      <4> QED
        BY <4>1, <4>2
    <3> QED
      BY <3>2, <3>3
  <2> QED
    BY <2>1, <2>2
<1> QED
  BY <1>3, <1>4 DEF Carries

LEMMA HeadCarried ==
    ASSUME NEW w \in Seq(Token), NEW o \in Seq(Token), NEW u, NEW r \in Nat, NEW n \in Nat,
           Carries(w, o, u, r, n), w # <<>>
    PROVE  Head(w) = u[r + 1] /\ r < n
BY TokenGone, TokenSeq DEF Carries

-----------------------------------------------------------------------------
(* The ends' records and what the readers make of them.                    *)

LEMMA EndIs ==
    ASSUME NEW h \in EndRecord
    PROVE  /\ h = [state |-> h.state, mode |-> h.mode, enc |-> h.enc, encPos |-> h.encPos, decPos |-> h.decPos,
                   sentHello |-> h.sentHello, select |-> h.select, retried |-> h.retried]
           /\ h.state \in NotYet \cup Ended /\ h.mode \in Modes /\ h.enc \in CryptoOptions
           /\ h.encPos \in Nat /\ h.decPos \in Nat /\ h.sentHello \in BOOLEAN
           /\ h.select \in SUBSET CryptoOptions /\ h.retried \in BOOLEAN
BY DEF EndRecord

LEMMA ToIs ==
    ASSUME NEW h \in EndRecord, NEW s \in NotYet \cup Ended
    PROVE  /\ To(h, s) \in EndRecord /\ To(h, s).state = s /\ To(h, s).mode = h.mode /\ To(h, s).enc = h.enc
           /\ To(h, s).encPos = h.encPos /\ To(h, s).decPos = h.decPos /\ To(h, s).sentHello = h.sentHello
           /\ To(h, s).select = h.select /\ To(h, s).retried = h.retried
BY DEF EndRecord, To

LEMMA SetEncryptionIs ==
    ASSUME NEW h \in EndRecord, NEW c \in CryptoOptions
    PROVE  LET g == SetEncryption(h, c) IN
           /\ g \in EndRecord /\ g.state = h.state /\ g.mode = h.mode /\ g.enc = c
           /\ g.encPos = h.encPos /\ g.decPos = h.decPos /\ g.sentHello = h.sentHello
           /\ g.select = h.select /\ g.retried = h.retried
BY DEF EndRecord, SetEncryption

LEMMA InitsAre ==
    ASSUME NEW h \in EndRecord
    PROVE  /\ EncryptInit(h) \in EndRecord /\ EncryptInit(h).state = h.state /\ EncryptInit(h).mode = h.mode
           /\ EncryptInit(h).enc = h.enc /\ EncryptInit(h).encPos = 1 /\ EncryptInit(h).decPos = h.decPos
           /\ EncryptInit(h).sentHello = h.sentHello /\ EncryptInit(h).select = h.select
           /\ EncryptInit(h).retried = h.retried
           /\ DecryptInit(h) \in EndRecord /\ DecryptInit(h).state = h.state /\ DecryptInit(h).mode = h.mode
           /\ DecryptInit(h).enc = h.enc /\ DecryptInit(h).encPos = h.encPos /\ DecryptInit(h).decPos = 1
           /\ DecryptInit(h).sentHello = h.sentHello /\ DecryptInit(h).select = h.select
           /\ DecryptInit(h).retried = h.retried
BY DEF EndRecord, EncryptInit, DecryptInit

LEMMA WroteIs ==
    ASSUME NEW h \in EndRecord, NEW ts \in Seq(Token)
    PROVE  LET g == Wrote(h, ts) IN
           /\ g \in EndRecord /\ g.state = h.state /\ g.mode = h.mode /\ g.enc = h.enc
           /\ g.encPos = (IF Keyed(h) THEN h.encPos + Len(ts) ELSE h.encPos) /\ g.decPos = h.decPos
           /\ g.sentHello = h.sentHello /\ g.select = h.select /\ g.retried = h.retried
<1>1. Len(ts) \in Nat
  BY TokenSeq
<1>2. CASE Keyed(h)
  BY <1>1, <1>2 DEF EndRecord, Wrote
<1>3. CASE ~Keyed(h)
  BY <1>3 DEF Wrote
<1> QED
  BY <1>2, <1>3

LEMMA WasReadIs ==
    ASSUME NEW h \in EndRecord, NEW n \in Nat
    PROVE  LET g == WasRead(h, n) IN
           /\ g \in EndRecord /\ g.state = h.state /\ g.mode = h.mode /\ g.enc = h.enc
           /\ g.encPos = h.encPos
           /\ g.decPos = (IF h.enc = "crypto" /\ h.decPos > 0 THEN h.decPos + n ELSE h.decPos)
           /\ g.sentHello = h.sentHello /\ g.select = h.select /\ g.retried = h.retried
<1>2. CASE h.enc = "crypto" /\ h.decPos > 0
  BY <1>2 DEF EndRecord, WasRead
<1>3. CASE ~(h.enc = "crypto" /\ h.decPos > 0)
  BY <1>3 DEF WasRead
<1> QED
  BY <1>2, <1>3

LEMMA HelloSaidIs ==
    ASSUME NEW h \in EndRecord
    PROVE  LET g == [h EXCEPT !.sentHello = TRUE] IN
           /\ g \in EndRecord /\ g.state = h.state /\ g.mode = h.mode /\ g.enc = h.enc
           /\ g.encPos = h.encPos /\ g.decPos = h.decPos
           /\ g.sentHello = TRUE /\ g.select = h.select /\ g.retried = h.retried
BY DEF EndRecord

LEMMA EncryptIs ==
    ASSUME NEW h \in EndRecord, NEW ts \in Seq(Token)
    PROVE  /\ Encrypt(h, ts) \in Seq(Token) /\ Len(Encrypt(h, ts)) = Len(ts)
           /\ \A i \in 1..Len(ts) : Encrypt(h, ts)[i].what = ts[i].what
           /\ ~Keyed(h) => Encrypt(h, ts) = ts
           /\ Keyed(h) => \A i \in 1..Len(ts) : Encrypt(h, ts)[i] = [ts[i] EXCEPT !.pos = h.encPos + i - 1]
<1>1. Len(ts) \in Nat /\ ts \in [1..Len(ts) -> Token] /\ \A i \in 1..Len(ts) : ts[i] \in Token
  BY TokenSeq
<1>2. CASE ~Keyed(h)
  BY <1>2 DEF Encrypt
<1>3. CASE Keyed(h)
  <2> DEFINE e == [i \in 1..Len(ts) |-> [ts[i] EXCEPT !.pos = h.encPos + i - 1]]
  <2>1. Encrypt(h, ts) = e
    BY <1>1, <1>3 DEF Encrypt
  <2>2. h.encPos \in Nat /\ h.encPos > 0
    BY <1>3, EndIs DEF Keyed
  <2>3. \A i \in 1..Len(ts) : [ts[i] EXCEPT !.pos = h.encPos + i - 1] \in Token
    <3> TAKE i \in 1..Len(ts)
    <3>1. h.encPos + i - 1 \in Nat /\ ts[i] \in Token
      BY <1>1, <2>2
    <3> QED
      BY <3>1 DEF Token
  <2>4. e \in [1..Len(ts) -> Token]
    BY <2>3
  <2>5. e \in Seq(Token) /\ Len(e) = Len(ts)
    BY <2>4, <1>1, SeqDef, LenProperties
  <2>6. \A i \in 1..Len(ts) : e[i].what = ts[i].what
    BY <1>1 DEF Token
  <2> QED
    BY <2>1, <2>5, <2>6, <1>3
<1> QED
  BY <1>2, <1>3

LEMMA PlainIs ==
    ASSUME NEW w \in Whats
    PROVE  Plain(w) \in Token /\ Plain(w).what = w /\ Plain(w).pos = 0 /\ Plain(w).arg = {}
BY DEF Plain, Token

LEMMA WithIs ==
    ASSUME NEW w \in Whats, NEW a \in SUBSET CryptoOptions
    PROVE  With(w, a) \in Token /\ With(w, a).what = w /\ With(w, a).pos = 0 /\ With(w, a).arg = a
BY DEF Plain, With, Token

LEMMA SamePlain ==
    ASSUME NEW t \in Token, NEW w \in Whats, t = Plain(w)
    PROVE  t.what = w /\ t.pos = 0
BY PlainIs

LEMMA TwoTokens ==
    ASSUME NEW a \in Token, NEW b \in Token
    PROVE  <<a, b>> \in Seq(Token) /\ Len(<<a, b>>) = 2 /\ <<a, b>>[1] = a /\ <<a, b>>[2] = b
OBVIOUS

LEMMA OneToken ==
    ASSUME NEW a \in Token
    PROVE  <<a>> \in Seq(Token) /\ Len(<<a>>) = 1 /\ <<a>>[1] = a
OBVIOUS

LEMMA HelloIs == Hello \in Seq(Token) /\ Len(Hello) = 2 /\ Hello[1] = Plain("HS") /\ Hello[2] = Plain("ID")
BY TwoTokens, PlainIs DEF Hello, Whats

LEMMA NoTokens == <<>> \in Seq(Token) /\ Len(<<>>) = 0
OBVIOUS

LEMMA GotIs ==
    ASSUME NEW h, NEW ts, NEW rest
    PROVE  Got(h, ts, rest).h = h /\ Got(h, ts, rest).ts = ts /\ Got(h, ts, rest).rest = rest
BY DEF Got

\* What every reader keeps to.
ReadRight(r, h) ==
    /\ r.h \in EndRecord /\ r.h.mode = h.mode /\ r.h.retried = h.retried
    /\ r.ts \in Seq(Token) /\ r.rest \in Seq(Token)

LEMMA ReadRightIs ==
    ASSUME NEW h, NEW g \in EndRecord, g.mode = h.mode, g.retried = h.retried,
           NEW ts \in Seq(Token), NEW rest \in Seq(Token)
    PROVE  ReadRight(Got(g, ts, rest), h)
BY GotIs DEF ReadRight

LEMMA FailRight ==
    ASSUME NEW h, NEW g \in EndRecord, g.mode = h.mode, g.retried = h.retried, NEW s \in Seq(Token)
    PROVE  /\ ReadRight(Fail(g, s), h) /\ Fail(g, s).h.state = "failed"
           /\ Fail(g, s).ts = <<>> /\ Fail(g, s).rest = s
<1>1. To(g, "failed") \in EndRecord /\ To(g, "failed").mode = g.mode /\ To(g, "failed").retried = g.retried
      /\ To(g, "failed").state = "failed"
  BY ToIs DEF Ended
<1>2. ReadRight(Fail(g, s), h)
  BY <1>1, ReadRightIs, NoTokens DEF Fail
<1> QED
  BY <1>1, <1>2, GotIs DEF Fail

\* A's answer to the key.
LEMMA AScriptIs ==
    /\ AScript[1] = Plain("Ya") /\ AScript[2] = Plain("Req1") /\ AScript[3] = Plain("Skey")
    /\ AScript[4] = [Plain("VC") EXCEPT !.pos = 1]
    /\ AScript[5] = [With("Provide", {"crypto"}) EXCEPT !.pos = 2]
    /\ AScript[6] = [Plain("HS") EXCEPT !.pos = 3] /\ AScript[7] = [Plain("ID") EXCEPT !.pos = 4]
BY DEF AScript

LEMMA BScriptIs ==
    /\ BScript[1] = Plain("Yb") /\ BScript[2] = Plain("PadB")
    /\ BScript[3] = [Plain("VC") EXCEPT !.pos = 1]
    /\ BScript[4] = [With("Select", {"crypto"}) EXCEPT !.pos = 2]
    /\ BScript[5] = [Plain("HS") EXCEPT !.pos = 3] /\ BScript[6] = [Plain("ID") EXCEPT !.pos = 4]
BY DEF BScript

\* A token at a place of the stream.
LEMMA PlacedIs ==
    ASSUME NEW t \in Token, NEW p \in Nat
    PROVE  LET x == [t EXCEPT !.pos = p] IN x \in Token /\ x.what = t.what /\ x.arg = t.arg /\ x.pos = p
BY DEF Token

LEMMA ProvideIs ==
    ASSUME NEW m
    PROVE  Provide(m) \in SUBSET CryptoOptions /\ (m # "CLEAR" /\ ~foreign => Provide(m) = {"crypto"})
BY DEF Provide, CryptoOptions

LEMMA JoinedTwoTwo ==
    ASSUME NEW s \in Seq(Token), NEW t \in Seq(Token), Len(s) = 2, Len(t) = 2
    PROVE  /\ s \o t \in Seq(Token) /\ Len(s \o t) = 4 /\ (s \o t)[1] = s[1] /\ (s \o t)[2] = s[2]
           /\ (s \o t)[3] = t[1] /\ (s \o t)[4] = t[2]
<1> DEFINE x == s \o t
<1>1. x \in Seq(Token) /\ Len(x) = Len(s) + Len(t)
  BY TokensJoined
<1>2. \A i \in 1..Len(s) : x[i] = s[i]
  BY TokensJoined
<1>3. \A i \in 1..Len(t) : x[Len(s) + i] = t[i]
  BY TokensJoined
<1> HIDE DEF x
<1>4. x[2 + 1] = t[1] /\ x[2 + 2] = t[2]
  BY <1>3
<1>5. x[1] = s[1] /\ x[2] = s[2]
  BY <1>2
<1>6. /\ x \in Seq(Token) /\ Len(x) = 4 /\ x[1] = s[1] /\ x[2] = s[2]
      /\ x[3] = t[1] /\ x[4] = t[2]
  BY <1>1, <1>4, <1>5
<1> QED
  BY <1>6 DEF x

LEMMA JoinedTwoFour ==
    ASSUME NEW s \in Seq(Token), NEW t \in Seq(Token), Len(s) = 2, Len(t) = 4
    PROVE  /\ s \o t \in Seq(Token) /\ Len(s \o t) = 6 /\ (s \o t)[1] = s[1] /\ (s \o t)[2] = s[2]
           /\ (s \o t)[3] = t[1] /\ (s \o t)[4] = t[2] /\ (s \o t)[5] = t[3] /\ (s \o t)[6] = t[4]
<1> DEFINE x == s \o t
<1>1. x \in Seq(Token) /\ Len(x) = Len(s) + Len(t)
  BY TokensJoined
<1>2. \A i \in 1..Len(s) : x[i] = s[i]
  BY TokensJoined
<1>3. \A i \in 1..Len(t) : x[Len(s) + i] = t[i]
  BY TokensJoined
<1> HIDE DEF x
<1>4. x[2 + 1] = t[1] /\ x[2 + 2] = t[2] /\ x[2 + 3] = t[3] /\ x[2 + 4] = t[4]
  BY <1>3
<1>5. x[1] = s[1] /\ x[2] = s[2]
  BY <1>2
<1>6. /\ x \in Seq(Token) /\ Len(x) = 6 /\ x[1] = s[1] /\ x[2] = s[2]
      /\ x[3] = t[1] /\ x[4] = t[2] /\ x[5] = t[3] /\ x[6] = t[4]
  BY <1>1, <1>4, <1>5
<1> QED
  BY <1>6 DEF x

LEMMA EncryptsFour ==
    ASSUME NEW h \in EndRecord, h.enc = "crypto", h.encPos = 1, NEW t \in Seq(Token), Len(t) = 4
    PROVE  LET e == Encrypt(h, t) IN
           /\ e \in Seq(Token) /\ Len(e) = 4
           /\ e[1] = [t[1] EXCEPT !.pos = 1] /\ e[2] = [t[2] EXCEPT !.pos = 2]
           /\ e[3] = [t[3] EXCEPT !.pos = 3] /\ e[4] = [t[4] EXCEPT !.pos = 4]
           /\ Wrote(h, t).encPos = 5
<1> DEFINE e == Encrypt(h, t)
<1>1. Keyed(h)
  BY DEF Keyed
<1>2. e \in Seq(Token) /\ Len(e) = Len(t)
  BY EncryptIs
<1>3. \A i \in 1..Len(t) : e[i] = [t[i] EXCEPT !.pos = h.encPos + i - 1]
  BY <1>1, EncryptIs
<1> HIDE DEF e
<1>4. \A i \in 1..4 : e[i] = [t[i] EXCEPT !.pos = i]
  <2> TAKE i \in 1..4
  <2>1. h.encPos + i - 1 = i
    OBVIOUS
  <2>2. e[i] = [t[i] EXCEPT !.pos = h.encPos + i - 1]
    BY <1>3
  <2> QED
    BY <2>1, <2>2
<1>5. /\ e[1] = [t[1] EXCEPT !.pos = 1] /\ e[2] = [t[2] EXCEPT !.pos = 2]
      /\ e[3] = [t[3] EXCEPT !.pos = 3] /\ e[4] = [t[4] EXCEPT !.pos = 4]
  <2>1. 1 \in 1..4 /\ 2 \in 1..4 /\ 3 \in 1..4 /\ 4 \in 1..4
    OBVIOUS
  <2> QED
    BY <1>4, <2>1
<1>6. Wrote(h, t).encPos = h.encPos + Len(t)
  BY <1>1, WroteIs
<1>7. Wrote(h, t).encPos = 5
  BY <1>6
<1>8. /\ e \in Seq(Token) /\ Len(e) = 4
      /\ e[1] = [t[1] EXCEPT !.pos = 1] /\ e[2] = [t[2] EXCEPT !.pos = 2]
      /\ e[3] = [t[3] EXCEPT !.pos = 3] /\ e[4] = [t[4] EXCEPT !.pos = 4]
      /\ Wrote(h, t).encPos = 5
  BY <1>2, <1>5, <1>7
<1> QED
  BY <1>8 DEF e

\* The answer, with the option offered.
LEMMA YbAnswer ==
    ASSUME NEW h \in EndRecord, NEW c \in SUBSET CryptoOptions
    PROVE  LET keyed == EncryptInit(SetEncryption(h, "crypto"))
               body == <<Plain("VC"), With("Provide", c)>> \o Hello
               ts == <<Plain("Req1"), Plain("Skey")>> \o Encrypt(keyed, body)
               g == Wrote(keyed, body)
           IN  /\ keyed \in EndRecord /\ body \in Seq(Token) /\ ts \in Seq(Token) /\ Len(ts) = 6 /\ g \in EndRecord
               /\ ts[1] = Plain("Req1") /\ ts[2] = Plain("Skey")
               /\ ts[3] = [Plain("VC") EXCEPT !.pos = 1] /\ ts[4] = [With("Provide", c) EXCEPT !.pos = 2]
               /\ ts[5] = [Plain("HS") EXCEPT !.pos = 3] /\ ts[6] = [Plain("ID") EXCEPT !.pos = 4]
               /\ g.mode = h.mode /\ g.enc = "crypto" /\ g.encPos = 5 /\ g.retried = h.retried
<1> DEFINE keyed == EncryptInit(SetEncryption(h, "crypto"))
           front == <<Plain("VC"), With("Provide", c)>>
           body == front \o Hello
           keys == <<Plain("Req1"), Plain("Skey")>>
           flight == Encrypt(keyed, body)
           ts == keys \o flight
           g == Wrote(keyed, body)
<1>1. /\ keyed \in EndRecord /\ keyed.mode = h.mode /\ keyed.enc = "crypto" /\ keyed.encPos = 1
      /\ keyed.retried = h.retried
  <2>1. "crypto" \in CryptoOptions
    BY DEF CryptoOptions
  <2> QED
    BY <2>1, SetEncryptionIs, InitsAre
<1>2. Keyed(keyed)
  BY <1>1 DEF Keyed
<1>3. front \in Seq(Token) /\ Len(front) = 2 /\ front[1] = Plain("VC") /\ front[2] = With("Provide", c)
  BY TwoTokens, PlainIs, WithIs DEF Whats
<1>4. keys \in Seq(Token) /\ Len(keys) = 2 /\ keys[1] = Plain("Req1") /\ keys[2] = Plain("Skey")
  BY TwoTokens, PlainIs DEF Whats
<1> HIDE DEF keyed, front, keys
<1>5. /\ body \in Seq(Token) /\ Len(body) = 4
      /\ body[1] = front[1] /\ body[2] = front[2] /\ body[3] = Hello[1] /\ body[4] = Hello[2]
  BY <1>3, HelloIs, JoinedTwoTwo
<1>6. body[1] = Plain("VC") /\ body[2] = With("Provide", c) /\ body[3] = Plain("HS") /\ body[4] = Plain("ID")
  BY <1>3, <1>5, HelloIs
<1> HIDE DEF body
<1>7. flight \in Seq(Token) /\ Len(flight) = 4
  BY <1>1, <1>5, EncryptsFour
<1>8. /\ flight[1] = [body[1] EXCEPT !.pos = 1] /\ flight[2] = [body[2] EXCEPT !.pos = 2]
      /\ flight[3] = [body[3] EXCEPT !.pos = 3] /\ flight[4] = [body[4] EXCEPT !.pos = 4]
  BY <1>1, <1>5, EncryptsFour
<1> HIDE DEF flight
<1>9. ts \in Seq(Token) /\ Len(ts) = 6
  BY <1>4, <1>7, JoinedTwoFour
<1>10. ts[1] = keys[1] /\ ts[2] = keys[2] /\ ts[3] = flight[1] /\ ts[4] = flight[2] /\ ts[5] = flight[3] /\ ts[6] = flight[4]
  BY <1>4, <1>7, JoinedTwoFour
<1>11. g \in EndRecord /\ g.mode = h.mode /\ g.enc = "crypto" /\ g.encPos = 5 /\ g.retried = h.retried
  <2>1. g \in EndRecord /\ g.mode = keyed.mode /\ g.enc = keyed.enc /\ g.retried = keyed.retried
    BY <1>1, <1>5, WroteIs
  <2>2. g.encPos = 5
    BY <1>1, <1>5, EncryptsFour
  <2> QED
    BY <2>1, <2>2, <1>1
<1> HIDE DEF ts, g
<1>12. /\ keyed \in EndRecord /\ body \in Seq(Token) /\ ts \in Seq(Token) /\ Len(ts) = 6 /\ g \in EndRecord
       /\ ts[1] = Plain("Req1") /\ ts[2] = Plain("Skey")
       /\ ts[3] = [Plain("VC") EXCEPT !.pos = 1] /\ ts[4] = [With("Provide", c) EXCEPT !.pos = 2]
       /\ ts[5] = [Plain("HS") EXCEPT !.pos = 3] /\ ts[6] = [Plain("ID") EXCEPT !.pos = 4]
       /\ g.mode = h.mode /\ g.enc = "crypto" /\ g.encPos = 5 /\ g.retried = h.retried
  BY <1>1, <1>4, <1>5, <1>6, <1>8, <1>9, <1>10, <1>11
<1> QED
  BY <1>12 DEF ts, g, flight, body, keys, front, keyed

LEMMA YbRead ==
    ASSUME NEW h \in EndRecord, NEW s \in Seq(Token), s # <<>>
    PROVE  LET r == ReadYb(h, s) IN
           /\ ReadRight(r, h) /\ r.h.state \in {"HANDSHAKE", "VC", "failed"}
           /\ Head(s).what \notin {"HS", "Yb"} => r.h.state = "failed"
           /\ r.h.state = "VC" =>
                /\ r.h.enc = "crypto" /\ r.h.encPos = 5 /\ r.h.decPos = 1 /\ r.h.sentHello
                /\ r.rest = Tail(s) /\ Len(r.ts) = 6 /\ r.ts[1] = Plain("Req1") /\ r.ts[2] = Plain("Skey")
                /\ r.ts[3] = [Plain("VC") EXCEPT !.pos = 1]
                /\ r.ts[4] = [With("Provide", Provide(h.mode)) EXCEPT !.pos = 2]
                /\ r.ts[5] = [Plain("HS") EXCEPT !.pos = 3] /\ r.ts[6] = [Plain("ID") EXCEPT !.pos = 4]
           /\ Head(s).what = "Yb" => r.h.state = "VC"
<1> DEFINE r == ReadYb(h, s)
<1>0. Head(s) \in Token /\ Tail(s) \in Seq(Token) /\ Plain("HS").what = "HS"
  BY TokenGone, TokenSeq, PlainIs DEF Whats
<1>1. CASE Head(s) = Plain("HS")
  <2> DEFINE g == To(SetEncryption(h, "plaintext"), "HANDSHAKE")
  <2>1. g \in EndRecord /\ g.mode = h.mode /\ g.retried = h.retried /\ g.state = "HANDSHAKE"
    <3>1. "plaintext" \in CryptoOptions /\ "HANDSHAKE" \in NotYet \cup Ended
      BY DEF CryptoOptions, NotYet
    <3> QED
      BY <3>1, SetEncryptionIs, ToIs
  <2> HIDE DEF g
  <2>2. r = Got(g, <<>>, s)
    BY <1>1 DEF ReadYb, g
  <2>3. ReadRight(r, h)
    BY <2>1, <2>2, ReadRightIs, NoTokens
  <2>4. r.h.state = "HANDSHAKE"
    BY <2>1, <2>2, GotIs
  <2> QED
    BY <2>3, <2>4, <1>0, <1>1
<1>2. CASE Head(s) # Plain("HS") /\ Head(s).what # "Yb"
  <2>1. r = Fail(h, s)
    BY <1>2 DEF ReadYb
  <2>2. ReadRight(r, h) /\ r.h.state = "failed"
    BY <2>1, FailRight
  <2> QED
    BY <2>2, <1>2
<1>3. CASE Head(s).what = "Yb"
  <2> DEFINE keyed == EncryptInit(SetEncryption(h, "crypto"))
             body == <<Plain("VC"), With("Provide", Provide(h.mode))>> \o Hello
             ts == <<Plain("Req1"), Plain("Skey")>> \o Encrypt(keyed, body)
             k == Wrote(keyed, body)
             d == To(DecryptInit(k), "VC")
             g == [d EXCEPT !.sentHello = TRUE]
  <2>0. Provide(h.mode) \in SUBSET CryptoOptions
    BY ProvideIs
  <2>1. /\ ts \in Seq(Token) /\ Len(ts) = 6 /\ k \in EndRecord
        /\ ts[1] = Plain("Req1") /\ ts[2] = Plain("Skey")
        /\ ts[3] = [Plain("VC") EXCEPT !.pos = 1] /\ ts[4] = [With("Provide", Provide(h.mode)) EXCEPT !.pos = 2]
        /\ ts[5] = [Plain("HS") EXCEPT !.pos = 3] /\ ts[6] = [Plain("ID") EXCEPT !.pos = 4]
        /\ k.mode = h.mode /\ k.enc = "crypto" /\ k.encPos = 5 /\ k.retried = h.retried
    BY <2>0, YbAnswer
  <2>2. r = Got(g, ts, Tail(s))
    BY <1>0, <1>3 DEF ReadYb
  <2> HIDE DEF ts, k
  <2>3. /\ d \in EndRecord /\ d.mode = h.mode /\ d.enc = "crypto" /\ d.encPos = 5 /\ d.decPos = 1
        /\ d.retried = h.retried /\ d.state = "VC"
    <3>1. "VC" \in NotYet \cup Ended
      BY DEF NotYet
    <3> QED
      BY <3>1, <2>1, InitsAre, ToIs
  <2> HIDE DEF d
  <2>4. /\ g \in EndRecord /\ g.mode = h.mode /\ g.enc = "crypto" /\ g.encPos = 5 /\ g.decPos = 1
        /\ g.retried = h.retried /\ g.state = "VC" /\ g.sentHello = TRUE
    BY <2>3, HelloSaidIs
  <2> HIDE DEF g
  <2>5. r.h = g /\ r.ts = ts /\ r.rest = Tail(s)
    BY <2>2 DEF Got
  <2>9. ReadRight(Got(g, ts, Tail(s)), h)
    BY <2>1, <2>4, <1>0, ReadRightIs
  <2>6. ReadRight(r, h)
    BY <2>2, <2>9
  <2> HIDE DEF r
  <2>7. /\ r.h.state = "VC" /\ r.h.enc = "crypto" /\ r.h.encPos = 5 /\ r.h.decPos = 1 /\ r.h.sentHello
        /\ r.rest = Tail(s) /\ Len(r.ts) = 6 /\ r.ts[1] = Plain("Req1") /\ r.ts[2] = Plain("Skey")
        /\ r.ts[3] = [Plain("VC") EXCEPT !.pos = 1]
        /\ r.ts[4] = [With("Provide", Provide(h.mode)) EXCEPT !.pos = 2]
        /\ r.ts[5] = [Plain("HS") EXCEPT !.pos = 3] /\ r.ts[6] = [Plain("ID") EXCEPT !.pos = 4]
    BY <2>1, <2>4, <2>5
  <2>8. /\ ReadRight(r, h) /\ r.h.state \in {"HANDSHAKE", "VC", "failed"}
        /\ Head(s).what \notin {"HS", "Yb"} => r.h.state = "failed"
        /\ r.h.state = "VC" =>
             /\ r.h.enc = "crypto" /\ r.h.encPos = 5 /\ r.h.decPos = 1 /\ r.h.sentHello
             /\ r.rest = Tail(s) /\ Len(r.ts) = 6 /\ r.ts[1] = Plain("Req1") /\ r.ts[2] = Plain("Skey")
             /\ r.ts[3] = [Plain("VC") EXCEPT !.pos = 1]
             /\ r.ts[4] = [With("Provide", Provide(h.mode)) EXCEPT !.pos = 2]
             /\ r.ts[5] = [Plain("HS") EXCEPT !.pos = 3] /\ r.ts[6] = [Plain("ID") EXCEPT !.pos = 4]
        /\ Head(s).what = "Yb" => r.h.state = "VC"
    BY <2>6, <2>7, <1>3
  <2> QED
    BY <2>8 DEF r
<1> QED
  BY <1>1, <1>2, <1>3

LEMMA VCRead ==
    ASSUME NEW h \in EndRecord, NEW s \in Seq(Token), s # <<>>, h.state = "VC"
    PROVE  LET r == ReadVC(h, s) IN
           /\ ReadRight(r, h) /\ r.ts = <<>> /\ r.rest = Tail(s)
           /\ ~(Head(s).what = "VC" /\ Head(s).pos = 1) => r.h = h
           /\ Head(s).what = "VC" /\ Head(s).pos = 1 =>
                /\ r.h.state = "CRYPTO_SELECT" /\ r.h.enc = h.enc /\ r.h.encPos = h.encPos /\ r.h.decPos = 2
                /\ r.h.sentHello = h.sentHello
           /\ r.h.state = "VC" => r.h = h
           /\ r.h.state \in {"VC", "CRYPTO_SELECT"}
<1>0. Tail(s) \in Seq(Token)
  BY TokenGone
<1> DEFINE r == ReadVC(h, s)
<1>1. CASE Head(s).what = "VC" /\ Head(s).pos = 1
  <2> DEFINE d == [h EXCEPT !.decPos = 2]
             g == To(d, "CRYPTO_SELECT")
  <2>1. /\ d \in EndRecord /\ d.mode = h.mode /\ d.retried = h.retried /\ d.enc = h.enc /\ d.encPos = h.encPos
        /\ d.decPos = 2 /\ d.sentHello = h.sentHello
    BY DEF EndRecord
  <2>2. r = Got(g, <<>>, Tail(s))
    BY <1>1 DEF ReadVC
  <2> HIDE DEF d
  <2>3. /\ g \in EndRecord /\ g.mode = h.mode /\ g.retried = h.retried /\ g.enc = h.enc /\ g.encPos = h.encPos
        /\ g.decPos = 2 /\ g.sentHello = h.sentHello /\ g.state = "CRYPTO_SELECT"
    <3>1. "CRYPTO_SELECT" \in NotYet \cup Ended
      BY DEF NotYet
    <3> QED
      BY <3>1, <2>1, ToIs
  <2> HIDE DEF g
  <2>4. r.h = g /\ r.ts = <<>> /\ r.rest = Tail(s)
    BY <2>2 DEF Got
  <2>5. ReadRight(r, h)
    BY <2>2, <2>3, <1>0, ReadRightIs, NoTokens
  <2> QED
    BY <2>3, <2>4, <2>5, <1>1
<1>2. CASE ~(Head(s).what = "VC" /\ Head(s).pos = 1)
  <2>1. r = Got(h, <<>>, Tail(s))
    BY <1>2 DEF ReadVC
  <2>2. r.h = h /\ r.ts = <<>> /\ r.rest = Tail(s)
    BY <2>1 DEF Got
  <2>3. ReadRight(r, h)
    BY <2>1, <1>0, ReadRightIs, NoTokens
  <2> QED
    BY <2>2, <2>3, <1>2
<1> QED
  BY <1>1, <1>2

LEMMA CryptoSelectRead ==
    ASSUME NEW h \in EndRecord, NEW s \in Seq(Token), s # <<>>
    PROVE  LET r == ReadCryptoSelect(h, s) IN
           /\ ReadRight(r, h) /\ r.h.state \in {"HANDSHAKE", "failed"}
           /\ h.enc = "crypto" /\ h.decPos = 2 /\ Head(s).pos = 2 /\ Head(s).arg = {"crypto"} =>
                /\ r.h.state = "HANDSHAKE" /\ r.h.enc = "crypto" /\ r.h.encPos = h.encPos /\ r.h.decPos = 3
                /\ r.h.sentHello = h.sentHello /\ r.ts = <<>> /\ r.rest = Tail(s)
<1> DEFINE r == ReadCryptoSelect(h, s)
           t == Head(s)
           c == CHOOSE x \in t.arg : TRUE
<1>0. /\ t \in Token /\ t.arg \in SUBSET CryptoOptions /\ Tail(s) \in Seq(Token)
      /\ "HANDSHAKE" \in NotYet \cup Ended /\ "crypto" \in CryptoOptions
  BY TokenGone, TokenSeq, TokenIs DEF NotYet, CryptoOptions
<1>1. CASE ~Legible(h, t) \/ t.arg \cap Provide(h.mode) = {}
  <2>1. r = Fail(h, s)
    BY <1>1 DEF ReadCryptoSelect
  <2>2. ReadRight(r, h) /\ r.h.state = "failed"
    BY <2>1, FailRight
  <2>3. ~(h.enc = "crypto" /\ h.decPos = 2 /\ t.pos = 2 /\ t.arg = {"crypto"})
    BY <1>1 DEF Legible, Provide, CryptoOptions
  <2> QED
    BY <2>2, <2>3
<1>2. CASE ~(~Legible(h, t) \/ t.arg \cap Provide(h.mode) = {})
  <2> DEFINE g1 == WasRead(h, 1)
             g2 == SetEncryption(g1, c)
             g == To(g2, "HANDSHAKE")
  <2>1. c \in CryptoOptions /\ (t.arg = {"crypto"} => c = "crypto")
    BY <1>0, <1>2
  <2>2. r = Got(g, <<>>, Tail(s))
    BY <1>2 DEF ReadCryptoSelect
  <2> HIDE DEF c, t
  <2>3. /\ g1 \in EndRecord /\ g1.mode = h.mode /\ g1.retried = h.retried /\ g1.encPos = h.encPos
        /\ g1.sentHello = h.sentHello /\ (h.enc = "crypto" /\ h.decPos = 2 => g1.decPos = 3)
    <3>1. /\ g1 \in EndRecord /\ g1.mode = h.mode /\ g1.retried = h.retried /\ g1.encPos = h.encPos
          /\ g1.sentHello = h.sentHello
          /\ g1.decPos = (IF h.enc = "crypto" /\ h.decPos > 0 THEN h.decPos + 1 ELSE h.decPos)
      BY WasReadIs
    <3> HIDE DEF g1
    <3> QED
      BY <3>1
  <2> HIDE DEF g1
  <2>4. /\ g2 \in EndRecord /\ g2.mode = h.mode /\ g2.retried = h.retried /\ g2.encPos = h.encPos
        /\ g2.enc = c /\ g2.sentHello = h.sentHello /\ g2.decPos = g1.decPos
    BY <2>1, <2>3, SetEncryptionIs
  <2> HIDE DEF g2
  <2>5. /\ g \in EndRecord /\ g.mode = h.mode /\ g.retried = h.retried /\ g.encPos = h.encPos
        /\ g.enc = c /\ g.sentHello = h.sentHello /\ g.decPos = g1.decPos /\ g.state = "HANDSHAKE"
    BY <1>0, <2>4, ToIs
  <2> HIDE DEF g
  <2>6. r.h = g /\ r.ts = <<>> /\ r.rest = Tail(s)
    BY <2>2 DEF Got
  <2>7. ReadRight(Got(g, <<>>, Tail(s)), h)
    BY <2>5, <1>0, ReadRightIs, NoTokens
  <2>8. ReadRight(r, h)
    BY <2>2, <2>7
  <2> HIDE DEF r
  <2>9. /\ ReadRight(r, h) /\ r.h.state \in {"HANDSHAKE", "failed"}
        /\ h.enc = "crypto" /\ h.decPos = 2 /\ t.pos = 2 /\ t.arg = {"crypto"} =>
             /\ r.h.state = "HANDSHAKE" /\ r.h.enc = "crypto" /\ r.h.encPos = h.encPos /\ r.h.decPos = 3
             /\ r.h.sentHello = h.sentHello /\ r.ts = <<>> /\ r.rest = Tail(s)
    BY <2>1, <2>3, <2>5, <2>6, <2>8
  <2> QED
    BY <2>9 DEF r, t
<1> QED
  BY <1>1, <1>2

LEMMA PeerIdRead ==
    ASSUME NEW h \in EndRecord, NEW s \in Seq(Token), s # <<>>
    PROVE  LET r == ReadPeerId(h, s) IN
           /\ ReadRight(r, h) /\ r.h.state \in {"connected", "failed"}
           /\ Legible(h, Head(s)) =>
                /\ r.h.state = "connected" /\ r.h.enc = h.enc /\ r.h.encPos = h.encPos
                /\ r.h.decPos = (IF h.enc = "crypto" /\ h.decPos > 0 THEN h.decPos + 1 ELSE h.decPos)
                /\ r.h.sentHello = h.sentHello /\ r.ts = <<>> /\ r.rest = Tail(s)
<1> DEFINE r == ReadPeerId(h, s)
<1>0. Tail(s) \in Seq(Token) /\ "connected" \in NotYet \cup Ended
  BY TokenGone DEF Ended
<1>1. CASE ~Legible(h, Head(s))
  <2>1. r = Fail(h, s)
    BY <1>1 DEF ReadPeerId
  <2>2. ReadRight(r, h) /\ r.h.state = "failed"
    BY <2>1, FailRight
  <2> QED
    BY <2>2, <1>1
<1>2. CASE Legible(h, Head(s))
  <2> DEFINE g1 == WasRead(h, 1)
             g == To(g1, "connected")
  <2>2. r = Got(g, <<>>, Tail(s))
    BY <1>2 DEF ReadPeerId
  <2>3. /\ g1 \in EndRecord /\ g1.mode = h.mode /\ g1.retried = h.retried /\ g1.encPos = h.encPos
        /\ g1.enc = h.enc /\ g1.sentHello = h.sentHello
        /\ g1.decPos = (IF h.enc = "crypto" /\ h.decPos > 0 THEN h.decPos + 1 ELSE h.decPos)
    BY WasReadIs
  <2> HIDE DEF g1
  <2>5. /\ g \in EndRecord /\ g.mode = h.mode /\ g.retried = h.retried /\ g.encPos = h.encPos
        /\ g.enc = h.enc /\ g.sentHello = h.sentHello /\ g.decPos = g1.decPos /\ g.state = "connected"
    BY <1>0, <2>3, ToIs
  <2> HIDE DEF g
  <2>6. r.h = g /\ r.ts = <<>> /\ r.rest = Tail(s)
    BY <2>2 DEF Got
  <2>7. ReadRight(Got(g, <<>>, Tail(s)), h)
    BY <2>5, <1>0, ReadRightIs, NoTokens
  <2>8. ReadRight(r, h)
    BY <2>2, <2>7
  <2> HIDE DEF r
  <2>9. /\ ReadRight(r, h) /\ r.h.state \in {"connected", "failed"}
        /\ r.h.state = "connected" /\ r.h.enc = h.enc /\ r.h.encPos = h.encPos
        /\ r.h.decPos = (IF h.enc = "crypto" /\ h.decPos > 0 THEN h.decPos + 1 ELSE h.decPos)
        /\ r.h.sentHello = h.sentHello /\ r.ts = <<>> /\ r.rest = Tail(s)
    BY <2>3, <2>5, <2>6, <2>8
  <2> QED
    BY <2>9 DEF r
<1> QED
  BY <1>1, <1>2

LEMMA YaRead ==
    ASSUME NEW h \in EndRecord, NEW s \in Seq(Token), s # <<>>
    PROVE  LET r == ReadYa(h, s) IN
           /\ ReadRight(r, h) /\ r.h.state = "PAD_A" /\ r.h.enc = h.enc /\ r.h.encPos = h.encPos
           /\ r.h.decPos = h.decPos /\ r.rest = Tail(s) /\ Len(r.ts) = 2
           /\ r.ts[1].what = "Yb" /\ r.ts[2].what = "PadB"
           /\ h.encPos = 0 => r.ts[1] = Plain("Yb") /\ r.ts[2] = Plain("PadB")
<1> DEFINE r == ReadYa(h, s)
           body == <<Plain("Yb"), Plain("PadB")>>
           ts == Encrypt(h, body)
           g == To(h, "PAD_A")
<1>0. Tail(s) \in Seq(Token) /\ "PAD_A" \in NotYet \cup Ended /\ Plain("Yb").what = "Yb" /\ Plain("PadB").what = "PadB"
  BY TokenGone, PlainIs DEF NotYet, Whats
<1>1. body \in Seq(Token) /\ Len(body) = 2 /\ body[1] = Plain("Yb") /\ body[2] = Plain("PadB")
  BY TwoTokens, PlainIs DEF Whats
<1>2. r = Got(g, ts, Tail(s))
  BY DEF ReadYa
<1> HIDE DEF body
<1>3. ts \in Seq(Token) /\ Len(ts) = 2 /\ \A i \in 1..2 : ts[i].what = body[i].what
  BY <1>1, EncryptIs
<1>4. h.encPos = 0 => ts = body
  BY <1>1, EncryptIs DEF Keyed
<1> HIDE DEF ts
<1>5. ts[1].what = "Yb" /\ ts[2].what = "PadB"
  BY <1>0, <1>1, <1>3
<1>6. /\ g \in EndRecord /\ g.mode = h.mode /\ g.retried = h.retried /\ g.encPos = h.encPos
      /\ g.enc = h.enc /\ g.decPos = h.decPos /\ g.state = "PAD_A"
  BY <1>0, ToIs
<1> HIDE DEF g
<1>7. r.h = g /\ r.ts = ts /\ r.rest = Tail(s)
  BY <1>2 DEF Got
<1>8. ReadRight(Got(g, ts, Tail(s)), h)
  BY <1>6, <1>3, <1>0, ReadRightIs
<1>9. ReadRight(r, h)
  BY <1>2, <1>8
<1> HIDE DEF r
<1>10. /\ ReadRight(r, h) /\ r.h.state = "PAD_A" /\ r.h.enc = h.enc /\ r.h.encPos = h.encPos
       /\ r.h.decPos = h.decPos /\ r.rest = Tail(s) /\ Len(r.ts) = 2
       /\ r.ts[1].what = "Yb" /\ r.ts[2].what = "PadB"
       /\ h.encPos = 0 => r.ts[1] = Plain("Yb") /\ r.ts[2] = Plain("PadB")
  BY <1>1, <1>3, <1>4, <1>5, <1>6, <1>7, <1>9
<1> QED
  BY <1>10 DEF r

LEMMA PadARead ==
    ASSUME NEW h \in EndRecord, NEW s \in Seq(Token), s # <<>>
    PROVE  LET r == ReadPadA(h, s) IN
           /\ ReadRight(r, h) /\ r.ts = <<>> /\ r.h.enc = h.enc /\ r.h.encPos = h.encPos
           /\ r.h.decPos = h.decPos
           /\ Head(s) = Plain("Req1") => r.h.state = "CRYPTO_PROVIDE" /\ r.rest = s
           /\ Head(s) # Plain("Req1") => r.h = h /\ r.rest = Tail(s)
<1> DEFINE r == ReadPadA(h, s)
<1>0. Tail(s) \in Seq(Token) /\ "CRYPTO_PROVIDE" \in NotYet \cup Ended
  BY TokenGone DEF NotYet
<1>1. CASE Head(s) = Plain("Req1")
  <2> DEFINE g == To(h, "CRYPTO_PROVIDE")
  <2>1. /\ g \in EndRecord /\ g.mode = h.mode /\ g.retried = h.retried /\ g.encPos = h.encPos
        /\ g.enc = h.enc /\ g.decPos = h.decPos /\ g.state = "CRYPTO_PROVIDE"
    BY <1>0, ToIs
  <2>2. r = Got(g, <<>>, s)
    BY <1>1 DEF ReadPadA
  <2> HIDE DEF g
  <2>3. r.h = g /\ r.ts = <<>> /\ r.rest = s
    BY <2>2 DEF Got
  <2>4. ReadRight(Got(g, <<>>, s), h)
    BY <2>1, ReadRightIs, NoTokens
  <2> QED
    BY <2>1, <2>2, <2>3, <2>4, <1>1
<1>2. CASE Head(s) # Plain("Req1")
  <2>2. r = Got(h, <<>>, Tail(s))
    BY <1>2 DEF ReadPadA
  <2>3. r.h = h /\ r.ts = <<>> /\ r.rest = Tail(s)
    BY <2>2 DEF Got
  <2>4. ReadRight(Got(h, <<>>, Tail(s)), h)
    BY <1>0, ReadRightIs, NoTokens
  <2> QED
    BY <2>2, <2>3, <2>4, <1>2
<1> QED
  BY <1>1, <1>2

LEMMA CryptoProvideRead ==
    ASSUME NEW h \in EndRecord, NEW s \in Seq(Token), Len(s) >= 4, NEW wanted \in BOOLEAN
    PROVE  LET r == ReadCryptoProvide(h, s, wanted) IN
           /\ ReadRight(r, h) /\ r.h.state \in {"IA", "failed"}
           /\ ~wanted => r.h.state = "failed"
           /\ wanted =>
                /\ r.h.state = "IA" /\ r.h.enc = h.enc /\ r.h.encPos = h.encPos
                /\ h.enc = "crypto" => r.h.decPos = 3
                /\ r.h.select = s[4].arg /\ r.ts = <<>> /\ r.rest = After(s, 4)
<1> DEFINE r == ReadCryptoProvide(h, s, wanted)
<1>1. CASE ~wanted
  <2>1. r = Fail(h, s)
    BY <1>1 DEF ReadCryptoProvide
  <2>3. ReadRight(Fail(h, s), h) /\ Fail(h, s).h.state = "failed"
    BY FailRight
  <2> HIDE DEF r
  <2>2. ReadRight(r, h) /\ r.h.state = "failed"
    BY ONLY <2>1, <2>3
  <2>4. ~wanted /\ ReadRight(r, h) /\ r.h.state \in {"IA", "failed"} /\ r.h.state = "failed"
    BY <2>2, <1>1
  <2> QED
    BY <2>4 DEF r
<1>2. CASE wanted
  <2> DEFINE g0 == DecryptInit(h)
             g1 == WasRead(g0, 2)
             g2 == To(g1, "IA")
             a == s[4].arg
             g == [g2 EXCEPT !.select = a]
  <2>1. After(s, 4) \in Seq(Token)
    BY TokensGone
  <2>2. a \in SUBSET CryptoOptions
    <3>1. 4 \in 1..Len(s)
      BY TokenSeq
    <3> QED
      BY <3>1, TokenSeq, TokenIs
  <2>3. r = Got(g, <<>>, After(s, 4))
    BY <1>2 DEF ReadCryptoProvide
  <2>4. /\ g0 \in EndRecord /\ g0.mode = h.mode /\ g0.retried = h.retried /\ g0.encPos = h.encPos
        /\ g0.enc = h.enc /\ g0.decPos = 1
    BY InitsAre
  <2> HIDE DEF g0, a
  <2>5. /\ g1 \in EndRecord /\ g1.mode = h.mode /\ g1.retried = h.retried /\ g1.encPos = h.encPos
        /\ g1.enc = h.enc
        /\ g1.decPos = (IF g0.enc = "crypto" /\ g0.decPos > 0 THEN g0.decPos + 2 ELSE g0.decPos)
    BY <2>4, WasReadIs
  <2> HIDE DEF g1
  <2>6. h.enc = "crypto" => g1.decPos = 3
    BY <2>4, <2>5
  <2>7. /\ g2 \in EndRecord /\ g2.mode = h.mode /\ g2.retried = h.retried /\ g2.encPos = h.encPos
        /\ g2.enc = h.enc /\ g2.decPos = g1.decPos /\ g2.state = "IA"
    <3>1. "IA" \in NotYet \cup Ended
      BY DEF NotYet
    <3> QED
      BY <3>1, <2>5, ToIs
  <2> HIDE DEF g2
  <2>8. /\ g \in EndRecord /\ g.mode = h.mode /\ g.retried = h.retried /\ g.encPos = h.encPos
        /\ g.enc = h.enc /\ g.decPos = g1.decPos /\ g.state = "IA" /\ g.select = a
    BY <2>7, <2>2 DEF EndRecord
  <2> HIDE DEF g
  <2>9. r.h = g /\ r.ts = <<>> /\ r.rest = After(s, 4)
    BY <2>3 DEF Got
  <2>10. ReadRight(Got(g, <<>>, After(s, 4)), h)
    BY <2>8, <2>1, ReadRightIs, NoTokens
  <2>11. ReadRight(r, h)
    BY <2>3, <2>10
  <2> HIDE DEF r
  <2>12. /\ ReadRight(r, h) /\ r.h.state \in {"IA", "failed"}
         /\ r.h.state = "IA" /\ r.h.enc = h.enc /\ r.h.encPos = h.encPos
         /\ h.enc = "crypto" => r.h.decPos = 3
         /\ r.h.select = a /\ r.ts = <<>> /\ r.rest = After(s, 4)
    BY <2>6, <2>8, <2>9, <2>11
  <2> QED
    BY <2>12, <1>2 DEF r, a
<1> QED
  BY <1>1, <1>2

LEMMA PayloadRead ==
    ASSUME NEW h \in EndRecord, NEW s \in Seq(Token), Len(s) >= 2
    PROVE  LET r == ReadPayload(h, s) IN
           /\ ReadRight(r, h) /\ r.h.state \in {"connected", "failed"}
           /\ Legible(h, s[1]) =>
                /\ r.h.state = "connected" /\ r.h.enc = h.enc /\ r.h.encPos = h.encPos
                /\ r.h.decPos = (IF h.enc = "crypto" /\ h.decPos > 0 THEN h.decPos + 2 ELSE h.decPos)
                /\ r.ts = <<>> /\ r.rest = After(s, 2)
<1> DEFINE r == ReadPayload(h, s)
<1>0. After(s, 2) \in Seq(Token) /\ "connected" \in NotYet \cup Ended
  BY TokensGone DEF Ended
<1>1. CASE ~Legible(h, s[1])
  <2>1. r = Fail(h, s)
    BY <1>1 DEF ReadPayload
  <2>2. ReadRight(r, h) /\ r.h.state = "failed"
    BY <2>1, FailRight
  <2> QED
    BY <2>2, <1>1
<1>2. CASE Legible(h, s[1])
  <2> DEFINE g1 == WasRead(h, 2)
             g == To(g1, "connected")
  <2>2. r = Got(g, <<>>, After(s, 2))
    BY <1>2 DEF ReadPayload
  <2>3. /\ g1 \in EndRecord /\ g1.mode = h.mode /\ g1.retried = h.retried /\ g1.encPos = h.encPos
        /\ g1.enc = h.enc
        /\ g1.decPos = (IF h.enc = "crypto" /\ h.decPos > 0 THEN h.decPos + 2 ELSE h.decPos)
    BY WasReadIs
  <2> HIDE DEF g1
  <2>5. /\ g \in EndRecord /\ g.mode = h.mode /\ g.retried = h.retried /\ g.encPos = h.encPos
        /\ g.enc = h.enc /\ g.decPos = g1.decPos /\ g.state = "connected"
    BY <1>0, <2>3, ToIs
  <2> HIDE DEF g
  <2>6. r.h = g /\ r.ts = <<>> /\ r.rest = After(s, 2)
    BY <2>2 DEF Got
  <2>7. ReadRight(Got(g, <<>>, After(s, 2)), h)
    BY <2>5, <1>0, ReadRightIs, NoTokens
  <2>8. ReadRight(r, h)
    BY <2>2, <2>7
  <2> HIDE DEF r
  <2>9. /\ ReadRight(r, h) /\ r.h.state \in {"connected", "failed"}
        /\ r.h.state = "connected" /\ r.h.enc = h.enc /\ r.h.encPos = h.encPos
        /\ r.h.decPos = (IF h.enc = "crypto" /\ h.decPos > 0 THEN h.decPos + 2 ELSE h.decPos)
        /\ r.ts = <<>> /\ r.rest = After(s, 2)
    BY <2>3, <2>5, <2>6, <2>8
  <2> QED
    BY <2>9 DEF r
<1> QED
  BY <1>1, <1>2

\* Either handshake, as an end reads it.
LEMMA HandshakeRead ==
    ASSUME NEW h \in EndRecord, NEW s \in Seq(Token), s # <<>>, NEW e \in Ends
    PROVE  LET r == ReadHandshake(e, h, s) IN
           /\ ReadRight(r, h) /\ r.h.state \in {"YA", "PEER_ID", "failed"} /\ (e = "A" => r.h.state # "YA")
           /\ Head(s) = Plain("HS") /\ h.mode = "REQUIRED" => r.h.state = "failed"
           /\ Head(s) = Plain("HS") /\ h.mode # "REQUIRED" =>
                /\ r.h.state = "PEER_ID" /\ r.h.enc = "plaintext" /\ r.h.encPos = h.encPos
                /\ r.h.decPos = h.decPos /\ r.h.sentHello
                /\ r.ts = (IF h.sentHello THEN <<>> ELSE Hello) /\ r.rest = Tail(s)
           /\ Head(s) # Plain("HS") /\ e = "B" =>
                /\ r.h.state = "YA" /\ r.h.enc = "crypto" /\ r.h.encPos = h.encPos
                /\ r.h.decPos = h.decPos /\ r.ts = <<>> /\ r.rest = s
           /\ Head(s).what # "HS" /\ e = "A" => r.h.state = "failed"
           /\ Head(s).what = "HS" /\ Head(s).pos = 3 /\ h.decPos = 3 /\ e = "A" /\ h.sentHello =>
                /\ r.h.state = "PEER_ID" /\ r.h.enc = "crypto" /\ r.h.encPos = h.encPos
                /\ r.h.decPos = 4 /\ r.h.sentHello /\ r.ts = <<>> /\ r.rest = Tail(s)
<1> DEFINE r == ReadHandshake(e, h, s)
           t == Head(s)
           plain == t = Plain("HS")
           h2 == SetEncryption(h, IF plain THEN "plaintext" ELSE "crypto")
           h3 == WasRead(h2, 1)
           reply == IF h.sentHello THEN <<>> ELSE Hello
           d == To(Wrote(h3, reply), "PEER_ID")
           g == [d EXCEPT !.sentHello = TRUE]
<1>0. /\ t \in Token /\ Tail(s) \in Seq(Token) /\ t.pos \in Nat
      /\ Plain("HS").what = "HS" /\ Plain("HS").pos = 0
      /\ {"YA", "PEER_ID", "failed"} \subseteq NotYet \cup Ended
  BY TokenGone, TokenSeq, TokenIs, PlainIs DEF NotYet, Ended, Whats
<1>1. /\ h2 \in EndRecord /\ h2.mode = h.mode /\ h2.retried = h.retried /\ h2.encPos = h.encPos
      /\ h2.enc = (IF plain THEN "plaintext" ELSE "crypto") /\ h2.decPos = h.decPos /\ h2.sentHello = h.sentHello
  <2>1. (IF plain THEN "plaintext" ELSE "crypto") \in CryptoOptions
    BY DEF CryptoOptions
  <2> QED
    BY <2>1, SetEncryptionIs
<1>2. reply \in Seq(Token)
  BY HelloIs, NoTokens
<1>3. CASE plain /\ h.mode = "REQUIRED"
  <2>1. r = Fail(h2, s)
    BY <1>3 DEF ReadHandshake
  <2> HIDE DEF h2
  <2>2. ReadRight(r, h) /\ r.h.state = "failed"
    BY <2>1, <1>1, FailRight
  <2> QED
    BY <2>2, <1>3, <1>0
<1>4. CASE ~plain /\ e = "B"
  <2> DEFINE y == To(h2, "YA")
  <2>1. r = Got(y, <<>>, s)
    BY <1>4 DEF ReadHandshake
  <2> HIDE DEF h2
  <2>2. /\ y \in EndRecord /\ y.mode = h.mode /\ y.retried = h.retried /\ y.encPos = h.encPos
        /\ y.enc = "crypto" /\ y.decPos = h.decPos /\ y.state = "YA"
    BY <1>0, <1>1, <1>4, ToIs
  <2> HIDE DEF y
  <2>3. r.h = y /\ r.ts = <<>> /\ r.rest = s
    BY <2>1 DEF Got
  <2>4. ReadRight(Got(y, <<>>, s), h)
    BY <2>2, ReadRightIs, NoTokens
  <2> QED
    BY <2>1, <2>2, <2>3, <2>4, <1>4
<1>5. CASE ~(plain /\ h.mode = "REQUIRED") /\ ~(~plain /\ e = "B") /\ (t.what # "HS" \/ ~Legible(h2, t))
  <2>1. r = Fail(h2, s)
    BY <1>5 DEF ReadHandshake
  <2>3. ~(plain /\ h.mode # "REQUIRED")
    BY <1>0, <1>1, <1>5 DEF Legible
  <2>4. ~(t.what = "HS" /\ t.pos = 3 /\ h.decPos = 3)
    BY <1>0, <1>1, <1>5 DEF Legible
  <2> HIDE DEF h2
  <2>2. ReadRight(r, h) /\ r.h.state = "failed"
    BY <2>1, <1>1, FailRight
  <2> QED
    BY <2>2, <2>3, <2>4, <1>5, <1>0
<1>6. CASE ~(plain /\ h.mode = "REQUIRED") /\ ~(~plain /\ e = "B") /\ ~(t.what # "HS" \/ ~Legible(h2, t))
  <2>1. r = Got(g, Encrypt(h3, reply), Tail(s))
    BY <1>6 DEF ReadHandshake
  <2> HIDE DEF h2
  <2>2. /\ h3 \in EndRecord /\ h3.mode = h.mode /\ h3.retried = h.retried /\ h3.encPos = h.encPos
        /\ h3.enc = h2.enc
        /\ h3.decPos = (IF h2.enc = "crypto" /\ h2.decPos > 0 THEN h2.decPos + 1 ELSE h2.decPos)
    BY <1>1, WasReadIs
  <2> HIDE DEF h3
  <2>3. /\ d \in EndRecord /\ d.mode = h.mode /\ d.retried = h.retried /\ d.enc = h2.enc
        /\ d.encPos = (IF Keyed(h3) THEN h3.encPos + Len(reply) ELSE h3.encPos)
        /\ d.decPos = h3.decPos /\ d.state = "PEER_ID"
    <3> DEFINE k == Wrote(h3, reply)
    <3> HIDE DEF reply
    <3>1. /\ k \in EndRecord /\ k.mode = h3.mode /\ k.retried = h3.retried /\ k.enc = h3.enc
          /\ k.encPos = (IF Keyed(h3) THEN h3.encPos + Len(reply) ELSE h3.encPos) /\ k.decPos = h3.decPos
      BY <1>2, <2>2, WroteIs
    <3> HIDE DEF k
    <3>2. "PEER_ID" \in NotYet \cup Ended
      BY <1>0
    <3>3. LET x == To(k, "PEER_ID") IN
          /\ x \in EndRecord /\ x.mode = k.mode /\ x.retried = k.retried /\ x.enc = k.enc
          /\ x.encPos = k.encPos /\ x.decPos = k.decPos /\ x.state = "PEER_ID"
      BY <3>1, <3>2, ToIs
    <3>4. d = To(k, "PEER_ID")
      BY DEF k
    <3> HIDE DEF d
    <3> QED
      BY <2>2, <3>1, <3>3, <3>4
  <2> HIDE DEF d
  <2>4. /\ g \in EndRecord /\ g.mode = h.mode /\ g.retried = h.retried /\ g.enc = h2.enc
        /\ g.encPos = d.encPos /\ g.decPos = d.decPos /\ g.state = "PEER_ID" /\ g.sentHello = TRUE
    BY <2>3, HelloSaidIs
  <2> HIDE DEF g
  <2>5. /\ Encrypt(h3, reply) \in Seq(Token)
        /\ ~Keyed(h3) => Encrypt(h3, reply) = reply
    BY <1>2, <2>2, EncryptIs
  <2>6. h.sentHello => reply = <<>>
    OBVIOUS
  <2>7. reply = <<>> => Encrypt(h3, reply) = <<>> /\ d.encPos = h3.encPos
    <3> SUFFICES ASSUME reply = <<>>
                 PROVE  Encrypt(h3, reply) = <<>> /\ d.encPos = h3.encPos
      OBVIOUS
    <3>1. Len(Encrypt(h3, reply)) = 0 /\ Len(reply) = 0
      BY <1>2, <2>2, EncryptIs
    <3>2. h3.encPos \in Nat
      BY <2>2, EndIs
    <3> QED
      BY <3>1, <3>2, <2>3, <2>5, EmptySeq
  <2>8. r.h = g /\ r.ts = Encrypt(h3, reply) /\ r.rest = Tail(s)
    BY <2>1 DEF Got
  <2>9. ReadRight(Got(g, Encrypt(h3, reply), Tail(s)), h)
    BY <2>4, <2>5, <1>0, ReadRightIs
  <2>10. ReadRight(r, h) /\ r.h.state = "PEER_ID" /\ r.h.sentHello
    BY <2>1, <2>4, <2>8, <2>9
  <2>11. plain => /\ r.h.enc = "plaintext" /\ r.h.encPos = h.encPos /\ r.h.decPos = h.decPos
                  /\ r.ts = reply /\ r.rest = Tail(s)
    <3> SUFFICES ASSUME plain
                 PROVE  /\ r.h.enc = "plaintext" /\ r.h.encPos = h.encPos /\ r.h.decPos = h.decPos
                        /\ r.ts = reply /\ r.rest = Tail(s)
      OBVIOUS
    <3>1. h2.enc = "plaintext"
      BY <1>1
    <3>2. ~Keyed(h3)
      BY <2>2, <3>1 DEF Keyed
    <3> HIDE DEF r, t, reply, plain
    <3> QED
      BY <3>1, <3>2, <1>1, <2>2, <2>3, <2>4, <2>5, <2>8
  <2>12. ~plain /\ h.decPos = 3 /\ h.sentHello =>
           /\ r.h.enc = "crypto" /\ r.h.encPos = h.encPos /\ r.h.decPos = 4 /\ r.ts = <<>> /\ r.rest = Tail(s)
    <3> SUFFICES ASSUME ~plain, h.decPos = 3, h.sentHello
                 PROVE  r.h.enc = "crypto" /\ r.h.encPos = h.encPos /\ r.h.decPos = 4 /\ r.ts = <<>> /\ r.rest = Tail(s)
      OBVIOUS
    <3>1. h2.enc = "crypto"
      BY <1>1
    <3> HIDE DEF r, t, reply, plain
    <3> QED
      BY <3>1, <1>1, <2>2, <2>3, <2>4, <2>6, <2>7, <2>8
  <2> QED
    BY <1>0, <1>6, <2>10, <2>11, <2>12
<1> QED
  BY <1>3, <1>4, <1>5, <1>6

LEMMA SelectIs ==
    ASSUME NEW m, NEW p \in SUBSET CryptoOptions
    PROVE  Select(m, p) \in SUBSET CryptoOptions /\ (p = {"crypto"} => Select(m, p) = {"crypto"})
BY DEF Select, Preferred, Allowed, CryptoOptions

LEMMA IARead ==
    ASSUME NEW h \in EndRecord, NEW s \in Seq(Token)
    PROVE  LET r == ReadIA(h, s) IN
           /\ ReadRight(r, h) /\ r.h.state \in {"PAYLOAD_STREAM", "failed"}
           /\ h.enc = "crypto" /\ h.select = {"crypto"} =>
                /\ r.h.state = "PAYLOAD_STREAM" /\ r.h.enc = "crypto" /\ r.h.encPos = 5 /\ r.h.decPos = h.decPos
                /\ r.rest = s /\ Len(r.ts) = 4
                /\ r.ts[1] = [Plain("VC") EXCEPT !.pos = 1]
                /\ r.ts[2] = [With("Select", {"crypto"}) EXCEPT !.pos = 2]
                /\ r.ts[3] = [Plain("HS") EXCEPT !.pos = 3] /\ r.ts[4] = [Plain("ID") EXCEPT !.pos = 4]
<1> DEFINE r == ReadIA(h, s)
           choice == Select(h.mode, h.select)
           c == CHOOSE x \in choice : TRUE
           k == EncryptInit(h)
           answer == <<Plain("VC"), With("Select", choice)>>
           k1 == Wrote(k, answer)
           k2 == SetEncryption(k1, c)
           k3 == Wrote(k2, Hello)
           d == To(k3, "PAYLOAD_STREAM")
           g == [d EXCEPT !.sentHello = TRUE]
           front == Encrypt(k, answer)
           back == Encrypt(k2, Hello)
           ts == front \o back
           Both == h.enc = "crypto" /\ h.select = {"crypto"}
<1>0. choice \in SUBSET CryptoOptions /\ (h.select = {"crypto"} => choice = {"crypto"})
  BY SelectIs, EndIs
<1>1. CASE choice = {}
  <2>1. r = Fail(h, s)
    BY <1>1 DEF ReadIA
  <2>2. ReadRight(r, h) /\ r.h.state = "failed"
    BY <2>1, FailRight
  <2>3. ~Both
    BY <1>0, <1>1
  <2> QED
    BY <2>2, <2>3
<1>2. CASE choice # {}
  <2>1. r = Got(g, ts, s)
    BY <1>2 DEF ReadIA
  <2>2. c \in CryptoOptions /\ (h.select = {"crypto"} => c = "crypto")
    BY <1>0, <1>2
  <2>3. /\ k \in EndRecord /\ k.mode = h.mode /\ k.retried = h.retried /\ k.encPos = 1 /\ k.enc = h.enc
        /\ k.decPos = h.decPos
    BY InitsAre
  <2>4. answer \in Seq(Token) /\ Len(answer) = 2 /\ answer[1] = Plain("VC") /\ answer[2] = With("Select", choice)
    BY <1>0, TwoTokens, PlainIs, WithIs DEF Whats
  <2> HIDE DEF k, answer, c
  <2>5. /\ k1 \in EndRecord /\ k1.mode = h.mode /\ k1.retried = h.retried /\ k1.enc = h.enc
        /\ k1.encPos = (IF Keyed(k) THEN k.encPos + Len(answer) ELSE k.encPos) /\ k1.decPos = h.decPos
    BY <2>3, <2>4, WroteIs
  <2> HIDE DEF k1
  <2>6. /\ k2 \in EndRecord /\ k2.mode = h.mode /\ k2.retried = h.retried /\ k2.enc = c
        /\ k2.encPos = k1.encPos /\ k2.decPos = h.decPos
    BY <2>2, <2>5, SetEncryptionIs
  <2> HIDE DEF k2
  <2>7. /\ k3 \in EndRecord /\ k3.mode = h.mode /\ k3.retried = h.retried /\ k3.enc = c
        /\ k3.encPos = (IF Keyed(k2) THEN k2.encPos + Len(Hello) ELSE k2.encPos) /\ k3.decPos = h.decPos
    BY <2>6, HelloIs, WroteIs
  <2> HIDE DEF k3
  <2>8. /\ d \in EndRecord /\ d.mode = h.mode /\ d.retried = h.retried /\ d.enc = c
        /\ d.encPos = k3.encPos /\ d.decPos = h.decPos /\ d.state = "PAYLOAD_STREAM"
    <3>1. "PAYLOAD_STREAM" \in NotYet \cup Ended
      BY DEF NotYet
    <3> QED
      BY <3>1, <2>7, ToIs
  <2> HIDE DEF d
  <2>9. /\ g \in EndRecord /\ g.mode = h.mode /\ g.retried = h.retried /\ g.enc = c
        /\ g.encPos = k3.encPos /\ g.decPos = h.decPos /\ g.state = "PAYLOAD_STREAM"
    BY <2>8, HelloSaidIs
  <2> HIDE DEF g
  <2>10. front \in Seq(Token) /\ Len(front) = 2
    BY <2>3, <2>4, EncryptIs
  <2>11. back \in Seq(Token) /\ Len(back) = 2
    BY <2>6, HelloIs, EncryptIs
  <2>12. Keyed(k) => front[1] = [answer[1] EXCEPT !.pos = 1] /\ front[2] = [answer[2] EXCEPT !.pos = 2]
    <3> SUFFICES ASSUME Keyed(k)
                 PROVE  front[1] = [answer[1] EXCEPT !.pos = 1] /\ front[2] = [answer[2] EXCEPT !.pos = 2]
      OBVIOUS
    <3>1. \A i \in 1..Len(answer) : front[i] = [answer[i] EXCEPT !.pos = k.encPos + i - 1]
      BY <2>3, <2>4, EncryptIs
    <3> HIDE DEF front
    <3>2. \A i \in 1..2 : front[i] = [answer[i] EXCEPT !.pos = 1 + i - 1]
      BY <3>1, <2>3, <2>4
    <3>3. 1 \in 1..2 /\ 2 \in 1..2 /\ 1 + 1 - 1 = 1 /\ 1 + 2 - 1 = 2
      OBVIOUS
    <3> QED
      BY <3>2, <3>3
  <2>13. k2.enc = "crypto" /\ k2.encPos = 3 =>
           back[1] = [Hello[1] EXCEPT !.pos = 3] /\ back[2] = [Hello[2] EXCEPT !.pos = 4]
    <3> SUFFICES ASSUME k2.enc = "crypto", k2.encPos = 3
                 PROVE  back[1] = [Hello[1] EXCEPT !.pos = 3] /\ back[2] = [Hello[2] EXCEPT !.pos = 4]
      OBVIOUS
    <3>1. \A i \in 1..Len(Hello) : back[i] = [Hello[i] EXCEPT !.pos = k2.encPos + i - 1]
      BY <2>6, HelloIs, EncryptIs DEF Keyed
    <3> HIDE DEF back
    <3>2. \A i \in 1..2 : back[i] = [Hello[i] EXCEPT !.pos = 3 + i - 1]
      BY <3>1, HelloIs
    <3>3. 1 \in 1..2 /\ 2 \in 1..2 /\ 3 + 1 - 1 = 3 /\ 3 + 2 - 1 = 4
      OBVIOUS
    <3> QED
      BY <3>2, <3>3
  <2> HIDE DEF front, back
  <2>14. /\ ts \in Seq(Token) /\ Len(ts) = 4
         /\ ts[1] = front[1] /\ ts[2] = front[2] /\ ts[3] = back[1] /\ ts[4] = back[2]
    BY <2>10, <2>11, JoinedTwoTwo
  <2> HIDE DEF ts
  <2>15. r.h = g /\ r.ts = ts /\ r.rest = s
    BY <2>1 DEF Got
  <2>16. ReadRight(Got(g, ts, s), h)
    BY <2>9, <2>14, ReadRightIs
  <2>17. ReadRight(r, h) /\ r.h.state = "PAYLOAD_STREAM"
    BY <2>1, <2>9, <2>15, <2>16
  <2>18. Both => /\ r.h.enc = "crypto" /\ r.h.encPos = 5 /\ r.h.decPos = h.decPos
                 /\ r.rest = s /\ Len(r.ts) = 4
                 /\ r.ts[1] = [Plain("VC") EXCEPT !.pos = 1]
                 /\ r.ts[2] = [With("Select", {"crypto"}) EXCEPT !.pos = 2]
                 /\ r.ts[3] = [Plain("HS") EXCEPT !.pos = 3] /\ r.ts[4] = [Plain("ID") EXCEPT !.pos = 4]
    <3> SUFFICES ASSUME Both
                 PROVE  /\ r.h.enc = "crypto" /\ r.h.encPos = 5 /\ r.h.decPos = h.decPos
                        /\ r.rest = s /\ Len(r.ts) = 4
                        /\ r.ts[1] = [Plain("VC") EXCEPT !.pos = 1]
                        /\ r.ts[2] = [With("Select", {"crypto"}) EXCEPT !.pos = 2]
                        /\ r.ts[3] = [Plain("HS") EXCEPT !.pos = 3] /\ r.ts[4] = [Plain("ID") EXCEPT !.pos = 4]
      OBVIOUS
    <3>1. c = "crypto" /\ choice = {"crypto"} /\ Keyed(k)
      BY <1>0, <2>2, <2>3 DEF Keyed
    <3>2. k1.encPos = 3
      BY <3>1, <2>3, <2>4, <2>5
    <3>3. Keyed(k2) /\ k2.encPos = 3 /\ k2.enc = "crypto"
      BY <3>1, <3>2, <2>6 DEF Keyed
    <3>4. g.encPos = 5 /\ g.enc = "crypto" /\ g.decPos = h.decPos
      BY <3>1, <3>3, <2>7, <2>9, HelloIs
    <3>5. /\ ts[1] = [Plain("VC") EXCEPT !.pos = 1] /\ ts[2] = [With("Select", {"crypto"}) EXCEPT !.pos = 2]
          /\ ts[3] = [Plain("HS") EXCEPT !.pos = 3] /\ ts[4] = [Plain("ID") EXCEPT !.pos = 4]
      BY <3>1, <3>3, <2>4, <2>12, <2>13, <2>14, HelloIs
    <3> QED
      BY <3>4, <3>5, <2>14, <2>15
  <2> HIDE DEF r, g
  <2>19. /\ ReadRight(r, h) /\ r.h.state \in {"PAYLOAD_STREAM", "failed"}
         /\ h.enc = "crypto" /\ h.select = {"crypto"} =>
              /\ r.h.state = "PAYLOAD_STREAM" /\ r.h.enc = "crypto" /\ r.h.encPos = 5 /\ r.h.decPos = h.decPos
              /\ r.rest = s /\ Len(r.ts) = 4
              /\ r.ts[1] = [Plain("VC") EXCEPT !.pos = 1]
              /\ r.ts[2] = [With("Select", {"crypto"}) EXCEPT !.pos = 2]
              /\ r.ts[3] = [Plain("HS") EXCEPT !.pos = 3] /\ r.ts[4] = [Plain("ID") EXCEPT !.pos = 4]
    BY <2>17, <2>18
  <2> QED
    BY <2>19 DEF r
<1> QED
  BY <1>1, <1>2

-----------------------------------------------------------------------------
(* What an end reads at each state.                                        *)

LEMMA OutcomeIs ==
    ASSUME NEW e, NEW h, NEW s, NEW wanted \in BOOLEAN
    PROVE  /\ h.state = "YB" => Outcome(e, h, s, wanted) = ReadYb(h, s)
           /\ h.state = "VC" => Outcome(e, h, s, wanted) = ReadVC(h, s)
           /\ h.state = "CRYPTO_SELECT" => Outcome(e, h, s, wanted) = ReadCryptoSelect(h, s)
           /\ h.state = "HANDSHAKE" => Outcome(e, h, s, wanted) = ReadHandshake(e, h, s)
           /\ h.state = "PEER_ID" => Outcome(e, h, s, wanted) = ReadPeerId(h, s)
           /\ h.state = "YA" => Outcome(e, h, s, wanted) = ReadYa(h, s)
           /\ h.state = "PAD_A" => Outcome(e, h, s, wanted) = ReadPadA(h, s)
           /\ h.state = "CRYPTO_PROVIDE" => Outcome(e, h, s, wanted) = ReadCryptoProvide(h, s, wanted)
           /\ h.state = "IA" => Outcome(e, h, s, wanted) = ReadIA(h, s)
           /\ h.state = "PAYLOAD_STREAM" => Outcome(e, h, s, wanted) = ReadPayload(h, s)
BY DEF Outcome

LEMMA EnoughIs ==
    ASSUME NEW h \in EndRecord, NEW s \in Seq(Token), Enough(h, s)
    PROVE  /\ h.state \in NotYet /\ s # <<>>
           /\ h.state = "CRYPTO_PROVIDE" => Len(s) >= 4
           /\ h.state \in {"IA", "PAYLOAD_STREAM"} => Len(s) >= 2
           /\ h.state = "YA" => Head(s).what = "Ya"
           /\ h.state = "CRYPTO_SELECT" => Head(s).what = "Select"
<1>1. h.state \in NotYet \cup Ended /\ h.state \notin Ended
  BY EndIs DEF Enough, Ended
<1>2. h.state = "CRYPTO_PROVIDE" => Len(s) >= 4
  <2> SUFFICES ASSUME h.state = "CRYPTO_PROVIDE"
               PROVE  Len(s) >= 4
    OBVIOUS
  <2>1. Has(s, <<"Req1", "Skey", "VC", "Provide">>)
    BY DEF Enough
  <2> QED
    BY <2>1 DEF Has
<1>3. h.state \in {"IA", "PAYLOAD_STREAM"} => Len(s) >= 2
  BY DEF Enough
<1>4. h.state = "YA" => Len(s) >= 1 /\ s[1].what = "Ya"
  <2> SUFFICES ASSUME h.state = "YA"
               PROVE  Len(s) >= 1 /\ s[1].what = "Ya"
    OBVIOUS
  <2>1. Has(s, <<"Ya">>)
    BY DEF Enough
  <2> QED
    BY <2>1 DEF Has
<1>5. h.state = "CRYPTO_SELECT" => Len(s) >= 1 /\ s[1].what = "Select"
  <2> SUFFICES ASSUME h.state = "CRYPTO_SELECT"
               PROVE  Len(s) >= 1 /\ s[1].what = "Select"
    OBVIOUS
  <2>1. Has(s, <<"Select">>)
    BY DEF Enough
  <2> QED
    BY <2>1 DEF Has
<1>6. h.state \in {"YB", "VC", "HANDSHAKE", "PEER_ID", "PAD_A"} => s # <<>>
  BY DEF Enough
<1>7. s # <<>>
  <2>1. Len(s) >= 1 => s # <<>>
    OBVIOUS
  <2>2. Len(s) \in Nat
    BY TokenSeq
  <2> QED
    BY <1>1, <1>2, <1>3, <1>4, <1>5, <1>6, <2>1, <2>2 DEF NotYet
<1>8. Head(s) = s[1]
  BY <1>7, TokenGone
<1> QED
  BY <1>1, <1>2, <1>3, <1>4, <1>5, <1>7, <1>8

LEMMA OutcomeRight ==
    ASSUME NEW e \in Ends, NEW h \in EndRecord, NEW s \in Seq(Token), Enough(h, s), NEW wanted \in BOOLEAN
    PROVE  ReadRight(Outcome(e, h, s, wanted), h)
<1>1. /\ h.state \in NotYet /\ s # <<>>
      /\ h.state = "CRYPTO_PROVIDE" => Len(s) >= 4
      /\ h.state \in {"IA", "PAYLOAD_STREAM"} => Len(s) >= 2
  BY EnoughIs
<1>2. CASE h.state = "YB"
  <2>1. ReadRight(ReadYb(h, s), h)
    BY <1>1, YbRead
  <2>2. Outcome(e, h, s, wanted) = ReadYb(h, s)
    BY <1>2, OutcomeIs
  <2> QED
    BY <2>1, <2>2
<1>3. CASE h.state = "VC"
  BY <1>1, <1>3, OutcomeIs, VCRead
<1>4. CASE h.state = "CRYPTO_SELECT"
  BY <1>1, <1>4, OutcomeIs, CryptoSelectRead
<1>5. CASE h.state = "HANDSHAKE"
  BY <1>1, <1>5, OutcomeIs, HandshakeRead
<1>6. CASE h.state = "PEER_ID"
  BY <1>1, <1>6, OutcomeIs, PeerIdRead
<1>7. CASE h.state = "YA"
  BY <1>1, <1>7, OutcomeIs, YaRead
<1>8. CASE h.state = "PAD_A"
  BY <1>1, <1>8, OutcomeIs, PadARead
<1>9. CASE h.state = "CRYPTO_PROVIDE"
  BY <1>1, <1>9, OutcomeIs, CryptoProvideRead
<1>10. CASE h.state = "IA"
  BY <1>1, <1>10, OutcomeIs, IARead
<1>11. CASE h.state = "PAYLOAD_STREAM"
  BY <1>1, <1>11, OutcomeIs, PayloadRead
<1> QED
  BY <1>1, <1>2, <1>3, <1>4, <1>5, <1>6, <1>7, <1>8, <1>9, <1>10, <1>11 DEF NotYet

-----------------------------------------------------------------------------
(* The encrypted handshake, as A reads.                                    *)

LEMMA BScriptTokens ==
    /\ BScript[1].what = "Yb" /\ BScript[2].what = "PadB"
    /\ BScript[3].what = "VC" /\ BScript[3].pos = 1
    /\ BScript[4].what = "Select" /\ BScript[4].pos = 2 /\ BScript[4].arg = {"crypto"}
    /\ BScript[5].what = "HS" /\ BScript[5].pos = 3 /\ BScript[6].what = "ID" /\ BScript[6].pos = 4
BY BScriptIs DEF Plain, With

LEMMA AScriptTokens ==
    /\ AScript[1].what = "Ya" /\ AScript[2] = Plain("Req1") /\ AScript[3].what = "Skey" /\ AScript[4].what = "VC"
    /\ AScript[5].what = "Provide" /\ AScript[5].arg = {"crypto"}
    /\ AScript[6].what = "HS" /\ AScript[6].pos = 3 /\ AScript[7].what = "ID" /\ AScript[7].pos = 4
BY AScriptIs DEF Plain, With

\* A reads one token, and is further on in the script of B.
AReadOn(g, o, wB, oB, r, q, n) ==
    /\ r + 1 \in 0..6 /\ EncryptedA(g.h, r + 1, 7)
    /\ Carries(g.rest, oB, BScript, r + 1, n) /\ Carries(wB, o \o g.ts, AScript, q, 7)

LEMMA EncryptedAReads ==
    ASSUME NEW h \in EndRecord, NEW w \in Seq(Token), NEW o \in Seq(Token), NEW wB \in Seq(Token),
           NEW oB \in Seq(Token), NEW r \in 0..6, NEW m \in {1, 7}, NEW q \in Nat, NEW n \in 0..6,
           EncryptedA(h, r, m), Carries(w, oB, BScript, r, n), Carries(wB, o, AScript, q, m), ~foreign,
           Enough(h, w), NEW wanted \in BOOLEAN
    PROVE  AReadOn(Outcome("A", h, w, wanted), o, wB, oB, r, q, n)
<1> SUFFICES LET g == Outcome("A", h, w, wanted) IN
             /\ r + 1 \in 0..6 /\ EncryptedA(g.h, r + 1, 7)
             /\ Carries(g.rest, oB, BScript, r + 1, n) /\ Carries(wB, o \o g.ts, AScript, q, 7)
  BY DEF AReadOn
<1> DEFINE g == Outcome("A", h, w, wanted)
<1>0. /\ w # <<>> /\ h.state \in NotYet /\ (h.state = "YA" => Head(w).what = "Ya") /\ "A" \in Ends
  BY EnoughIs DEF Ends
<1>20. r \in Nat /\ n \in Nat
  OBVIOUS
<1>1. Head(w) = BScript[r + 1] /\ r < n
  BY <1>0, <1>20, HeadCarried
<1>2. Carries(After(w, 1), oB, BScript, r + 1, n)
  <2>1. 1 <= Len(w)
    BY <1>0, TokenGone
  <2> QED
    BY <2>1, ReadCarries
<1>3. Tail(w) = After(w, 1)
  BY <1>0, TailIsAfter
<1>4. ReadRight(g, h)
  BY <1>0, OutcomeRight
<1>5. r \in 0..5 /\ r + 1 \in 0..6
  BY <1>1
<1>6. \* what leaves A's other words alone
      g.ts = <<>> => o \o g.ts = o
  BY TokenSeq
<1>7. ASSUME m = 7, g.ts = <<>>
      PROVE  Carries(wB, o \o g.ts, AScript, q, 7)
  BY <1>6, <1>7
<1> HIDE DEF g
<1>8. ASSUME g.rest = Tail(w)
      PROVE  Carries(g.rest, oB, BScript, r + 1, n)
  BY <1>2, <1>3, <1>8
<1>9. CASE r = 0
  <2>1. /\ m = 1 /\ h.state = "YB" /\ ~h.retried /\ h.mode # "CLEAR"
    BY <1>9 DEF EncryptedA
  <2>2. Head(w).what = "Yb"
    BY <1>1, <1>9, BScriptTokens
  <2>3. g = ReadYb(h, w)
    BY <2>1, OutcomeIs DEF g
  <2>4. /\ g.h.state = "VC" /\ g.h.enc = "crypto" /\ g.h.encPos = 5 /\ g.h.decPos = 1 /\ g.h.sentHello
        /\ g.rest = Tail(w) /\ Len(g.ts) = 6 /\ g.ts[1] = Plain("Req1") /\ g.ts[2] = Plain("Skey")
        /\ g.ts[3] = [Plain("VC") EXCEPT !.pos = 1]
        /\ g.ts[4] = [With("Provide", Provide(h.mode)) EXCEPT !.pos = 2]
        /\ g.ts[5] = [Plain("HS") EXCEPT !.pos = 3] /\ g.ts[6] = [Plain("ID") EXCEPT !.pos = 4]
    BY <1>0, <2>2, <2>3, YbRead
  <2>5. Provide(h.mode) = {"crypto"}
    BY <2>1, ProvideIs
  <2>6. \A i \in 1..Len(g.ts) : g.ts[i] = AScript[1 + i]
    <3>1. /\ g.ts[1] = AScript[2] /\ g.ts[2] = AScript[3] /\ g.ts[3] = AScript[4] /\ g.ts[4] = AScript[5]
          /\ g.ts[5] = AScript[6] /\ g.ts[6] = AScript[7]
      BY <2>4, <2>5, AScriptIs
    <3> HIDE DEF AScript
    <3>2. \A i \in 1..6 : g.ts[i] = AScript[1 + i]
      <4> TAKE i \in 1..6
      <4>1. i = 1 \/ i = 2 \/ i = 3 \/ i = 4 \/ i = 5 \/ i = 6
        OBVIOUS
      <4> QED
        BY <3>1, <4>1, SMTT(40)
    <3> QED
      BY <3>2, <2>4
  <2>7. g.ts \in Seq(Token) /\ g.h.retried = h.retried /\ g.h.mode = h.mode
    BY <1>4 DEF ReadRight
  <2>8. Carries(wB, o, AScript, q, 1)
    BY <2>1
  <2>9. Carries(wB, o \o g.ts, AScript, q, 1 + Len(g.ts))
    BY <2>6, <2>7, <2>8, WriteCarries
  <2>10. EncryptedA(g.h, 1, 7)
    BY <2>1, <2>4, <2>7 DEF EncryptedA, CipherAt
  <2>11. 1 + Len(g.ts) = 7 /\ r + 1 = 1
    BY <2>4, <1>9
  <2> QED
    BY <2>9, <2>10, <2>11, <2>4, <1>5, <1>8 DEF g
<1>10. CASE r = 1 \/ r = 2
  <2>1. /\ m = 7 /\ h.state = "VC" /\ h.enc = "crypto" /\ h.encPos = 5 /\ h.decPos = 1 /\ ~h.retried
        /\ h.mode # "CLEAR" /\ h.sentHello
    BY <1>10 DEF EncryptedA, CipherAt
  <2>2. g = ReadVC(h, w)
    BY <2>1, OutcomeIs DEF g
  <2>5. /\ ReadVC(h, w).ts = <<>> /\ ReadVC(h, w).rest = Tail(w)
        /\ ~(Head(w).what = "VC" /\ Head(w).pos = 1) => ReadVC(h, w).h = h
        /\ Head(w).what = "VC" /\ Head(w).pos = 1 =>
             /\ ReadVC(h, w).h.state = "CRYPTO_SELECT" /\ ReadVC(h, w).h.enc = h.enc
             /\ ReadVC(h, w).h.encPos = h.encPos /\ ReadVC(h, w).h.decPos = 2
             /\ ReadVC(h, w).h.sentHello = h.sentHello
    <3>1. LET v == ReadVC(h, w) IN
          /\ ReadRight(v, h) /\ v.ts = <<>> /\ v.rest = Tail(w)
          /\ ~(Head(w).what = "VC" /\ Head(w).pos = 1) => v.h = h
          /\ Head(w).what = "VC" /\ Head(w).pos = 1 =>
               /\ v.h.state = "CRYPTO_SELECT" /\ v.h.enc = h.enc /\ v.h.encPos = h.encPos /\ v.h.decPos = 2
               /\ v.h.sentHello = h.sentHello
          /\ v.h.state = "VC" => v.h = h
          /\ v.h.state \in {"VC", "CRYPTO_SELECT"}
      BY <1>0, <2>1, VCRead
    <3> QED
      BY <3>1
  <2>3. g.ts = <<>> /\ g.rest = Tail(w) /\ g.h.mode = h.mode /\ g.h.retried = h.retried
    BY <1>4, <2>2, <2>5 DEF ReadRight
  <2>4. EncryptedA(g.h, r + 1, 7)
    <3>1. CASE r = 1
      <4>1. Head(w).what = "PadB"
        BY <1>1, <3>1, BScriptTokens
      <4>2. g.h = h
        BY <2>2, <2>5, <4>1
      <4> QED
        BY <4>2, <3>1, <2>1 DEF EncryptedA, CipherAt
    <3>2. CASE r = 2
      <4>1. Head(w).what = "VC" /\ Head(w).pos = 1
        BY <1>1, <3>2, BScriptTokens
      <4>2. /\ g.h.state = "CRYPTO_SELECT" /\ g.h.enc = h.enc /\ g.h.encPos = h.encPos /\ g.h.decPos = 2
            /\ g.h.sentHello = h.sentHello
        BY <2>2, <2>5, <4>1
      <4>3. EncryptedA(g.h, 3, 7)
        BY <4>2, <2>1, <2>3 DEF EncryptedA, CipherAt
      <4> QED
        BY <4>3, <3>2
    <3> QED
      BY <3>1, <3>2, <1>10
  <2> QED
    BY <2>1, <2>3, <2>4, <1>5, <1>7, <1>8 DEF g
<1>11. CASE r = 3
  <2>1. /\ m = 7 /\ h.state = "CRYPTO_SELECT" /\ h.enc = "crypto" /\ h.encPos = 5 /\ h.decPos = 2 /\ ~h.retried
        /\ h.mode # "CLEAR" /\ h.sentHello
    BY <1>11 DEF EncryptedA, CipherAt
  <2>2. g = ReadCryptoSelect(h, w)
    BY <2>1, OutcomeIs DEF g
  <2>3. Head(w).pos = 2 /\ Head(w).arg = {"crypto"}
    BY <1>1, <1>11, BScriptTokens
  <2>4. /\ g.h.state = "HANDSHAKE" /\ g.h.enc = "crypto" /\ g.h.encPos = h.encPos /\ g.h.decPos = 3
        /\ g.h.sentHello = h.sentHello /\ g.ts = <<>> /\ g.rest = Tail(w)
    BY <1>0, <2>1, <2>2, <2>3, CryptoSelectRead
  <2>5. EncryptedA(g.h, 4, 7)
    BY <2>1, <2>4, <1>4 DEF EncryptedA, CipherAt, ReadRight
  <2> QED
    BY <2>1, <2>4, <2>5, <1>5, <1>7, <1>8, <1>11 DEF g
<1>12. CASE r = 4
  <2>1. /\ m = 7 /\ h.state = "HANDSHAKE" /\ h.enc = "crypto" /\ h.encPos = 5 /\ h.decPos = 3 /\ ~h.retried
        /\ h.mode # "CLEAR" /\ h.sentHello
    BY <1>12 DEF EncryptedA, CipherAt
  <2>2. g = ReadHandshake("A", h, w)
    BY <2>1, OutcomeIs DEF g
  <2>3. Head(w).what = "HS" /\ Head(w).pos = 3
    BY <1>1, <1>12, BScriptTokens
  <2>4. /\ g.h.state = "PEER_ID" /\ g.h.enc = "crypto" /\ g.h.encPos = h.encPos
        /\ g.h.decPos = 4 /\ g.h.sentHello /\ g.ts = <<>> /\ g.rest = Tail(w)
    BY <1>0, <2>1, <2>2, <2>3, HandshakeRead
  <2>5. EncryptedA(g.h, 5, 7)
    BY <2>1, <2>4, <1>4 DEF EncryptedA, CipherAt, ReadRight
  <2> QED
    BY <2>1, <2>4, <2>5, <1>5, <1>7, <1>8, <1>12 DEF g
<1>13. CASE r = 5
  <2>1. /\ m = 7 /\ h.state = "PEER_ID" /\ h.enc = "crypto" /\ h.encPos = 5 /\ h.decPos = 4 /\ ~h.retried
        /\ h.mode # "CLEAR" /\ h.sentHello
    BY <1>13 DEF EncryptedA, CipherAt
  <2>2. g = ReadPeerId(h, w)
    BY <2>1, OutcomeIs DEF g
  <2>3. Legible(h, Head(w))
    <3>3. Head(w).pos = 4
      BY <1>1, <1>13, BScriptTokens
    <3> QED
      BY <3>3, <2>1 DEF Legible
  <2>4. /\ g.h.state = "connected" /\ g.h.enc = h.enc /\ g.h.encPos = h.encPos
        /\ g.h.decPos = (IF h.enc = "crypto" /\ h.decPos > 0 THEN h.decPos + 1 ELSE h.decPos)
        /\ g.h.sentHello = h.sentHello /\ g.ts = <<>> /\ g.rest = Tail(w)
    BY <1>0, <2>2, <2>3, PeerIdRead
  <2>5. EncryptedA(g.h, 6, 7)
    BY <2>1, <2>4, <1>4 DEF EncryptedA, CipherAt, ReadRight
  <2> QED
    BY <2>1, <2>4, <2>5, <1>5, <1>7, <1>8, <1>13 DEF g
<1> QED
  BY <1>5, <1>9, <1>10, <1>11, <1>12, <1>13

\* B reads, and is further on in the script of A, or the torrent is not wanted.
BReadOn(g, o, wA, oA, r, m, wanted) ==
    \/ ~wanted /\ g.h.state = "failed"
    \/ \E q2 \in {0, 1, 5, 7}, n2 \in {0, 2, 6} :
         /\ EncryptedB(g.h, q2, n2) /\ Carries(g.rest, oA, AScript, q2, m)
         /\ Carries(wA, o \o g.ts, BScript, r, n2)

LEMMA EncryptedBReads ==
    ASSUME NEW h \in EndRecord, NEW w \in Seq(Token), NEW o \in Seq(Token), NEW wA \in Seq(Token),
           NEW oA \in Seq(Token), NEW r \in Nat, NEW m \in {1, 7}, NEW q \in {0, 1, 5, 7}, NEW n \in {0, 2, 6},
           EncryptedB(h, q, n), Carries(w, oA, AScript, q, m), Carries(wA, o, BScript, r, n),
           Enough(h, w), NEW wanted \in BOOLEAN
    PROVE  BReadOn(Outcome("B", h, w, wanted), o, wA, oA, r, m, wanted)
<1> SUFFICES LET g == Outcome("B", h, w, wanted) IN
             \/ ~wanted /\ g.h.state = "failed"
             \/ \E q2 \in {0, 1, 5, 7}, n2 \in {0, 2, 6} :
                  /\ EncryptedB(g.h, q2, n2) /\ Carries(g.rest, oA, AScript, q2, m)
                  /\ Carries(wA, o \o g.ts, BScript, r, n2)
  BY DEF BReadOn
<1> DEFINE g == Outcome("B", h, w, wanted)
           Goes(q2, n2) == /\ EncryptedB(g.h, q2, n2) /\ Carries(g.rest, oA, AScript, q2, m)
                           /\ Carries(wA, o \o g.ts, BScript, r, n2)
<1>0. /\ w # <<>> /\ h.state \in NotYet /\ (h.state = "YA" => Head(w).what = "Ya") /\ "B" \in Ends
      /\ q \in Nat /\ n \in Nat /\ m \in Nat
  BY EnoughIs DEF Ends
<1>1. Head(w) = AScript[q + 1] /\ q < m
  BY <1>0, HeadCarried
<1>2. ReadRight(g, h)
  BY <1>0, OutcomeRight
<1>3. g.ts = <<>> => o \o g.ts = o
  BY TokenSeq
<1>4. \A k \in Nat : k <= Len(w) => Carries(After(w, k), oA, AScript, q + k, m)
  BY <1>0, ReadCarries
<1>5. Len(w) >= 1 /\ Tail(w) = After(w, 1)
  BY <1>0, TokenGone, TailIsAfter
<1>6. Carries(Tail(w), oA, AScript, q + 1, m)
  BY <1>4, <1>5
<1> HIDE DEF g
<1>7. SUFFICES (~wanted /\ g.h.state = "failed") \/ \E q2 \in {0, 1, 5, 7}, n2 \in {0, 2, 6} : Goes(q2, n2)
  BY DEF g
<1>8. CASE h.state = "HANDSHAKE"
  <2>1. q = 0 /\ n = 0 /\ CipherAt(h, "plaintext", 0, 0)
    BY <1>8 DEF EncryptedB
  <2>2. Head(w) # Plain("HS")
    BY <1>1, <2>1, AScriptTokens, PlainIs DEF Whats
  <2>3. g = ReadHandshake("B", h, w)
    BY <1>8, OutcomeIs DEF g
  <2>4. /\ g.h.state = "YA" /\ g.h.enc = "crypto" /\ g.h.encPos = h.encPos
        /\ g.h.decPos = h.decPos /\ g.ts = <<>> /\ g.rest = w
    BY <1>0, <2>2, <2>3, HandshakeRead
  <2>5. EncryptedB(g.h, 0, 0)
    BY <2>1, <2>4 DEF EncryptedB, CipherAt
  <2>6. Goes(0, 0)
    BY <2>1, <2>4, <2>5, <1>3
  <2> QED
    BY <2>6
<1>9. CASE h.state = "YA"
  <2>1. q = 0 /\ n = 0 /\ CipherAt(h, "crypto", 0, 0)
    BY <1>9 DEF EncryptedB
  <2>3. g = ReadYa(h, w)
    BY <1>9, OutcomeIs DEF g
  <2>4. /\ g.h.state = "PAD_A" /\ g.h.enc = h.enc /\ g.h.encPos = h.encPos
        /\ g.h.decPos = h.decPos /\ g.rest = Tail(w) /\ Len(g.ts) = 2
        /\ h.encPos = 0 => g.ts[1] = Plain("Yb") /\ g.ts[2] = Plain("PadB")
    BY <1>0, <2>3, YaRead
  <2>5. EncryptedB(g.h, 1, 2)
    BY <2>1, <2>4 DEF EncryptedB, CipherAt
  <2>6. \A i \in 1..Len(g.ts) : g.ts[i] = BScript[0 + i]
    <3>1. g.ts[1] = BScript[1] /\ g.ts[2] = BScript[2]
      BY <2>1, <2>4, BScriptIs DEF CipherAt
    <3> HIDE DEF BScript
    <3>2. \A i \in 1..2 : g.ts[i] = BScript[0 + i]
      <4> TAKE i \in 1..2
      <4>1. i = 1 \/ i = 2
        OBVIOUS
      <4> QED
        BY <3>1, <4>1
    <3> QED
      BY <3>2, <2>4
  <2>7. g.ts \in Seq(Token)
    BY <1>2 DEF ReadRight
  <2>8. Carries(wA, o, BScript, r, 0)
    BY <2>1
  <2>9. Carries(wA, o \o g.ts, BScript, r, 0 + Len(g.ts))
    BY <2>6, <2>7, <2>8, WriteCarries
  <2>10. 0 + Len(g.ts) = 2 /\ q + 1 = 1
    BY <2>1, <2>4
  <2>11. Goes(1, 2)
    BY <2>4, <2>5, <2>9, <2>10, <1>6
  <2> QED
    BY <2>11
<1>10. CASE h.state = "PAD_A"
  <2>1. q = 1 /\ n = 2 /\ CipherAt(h, "crypto", 0, 0)
    BY <1>10 DEF EncryptedB
  <2>2. Head(w) = Plain("Req1")
    BY <1>1, <2>1, AScriptTokens
  <2>3. g = ReadPadA(h, w)
    BY <1>10, OutcomeIs DEF g
  <2>4. /\ g.h.state = "CRYPTO_PROVIDE" /\ g.h.enc = h.enc /\ g.h.encPos = h.encPos
        /\ g.h.decPos = h.decPos /\ g.rest = w /\ g.ts = <<>>
    BY <1>0, <2>2, <2>3, PadARead
  <2>5. EncryptedB(g.h, 1, 2)
    BY <2>1, <2>4 DEF EncryptedB, CipherAt
  <2>6. Goes(1, 2)
    BY <2>1, <2>4, <2>5, <1>3
  <2> QED
    BY <2>6
<1>11. CASE h.state = "CRYPTO_PROVIDE"
  <2>1. q = 1 /\ n = 2 /\ CipherAt(h, "crypto", 0, 0)
    BY <1>11 DEF EncryptedB
  <2>2. Len(w) >= 4 /\ Len(w) \in Nat
    BY <1>11, EnoughIs, TokenSeq
  <2>3. g = ReadCryptoProvide(h, w, wanted)
    BY <1>11, OutcomeIs DEF g
  <2>4. CASE ~wanted
    <3>1. ReadCryptoProvide(h, w, wanted).h.state = "failed"
      BY <2>2, <2>4, CryptoProvideRead
    <3> QED
      BY <3>1, <2>3, <2>4
  <2>5. CASE wanted
    <3>1. LET x == ReadCryptoProvide(h, w, wanted) IN
          /\ x.h.state = "IA" /\ x.h.enc = h.enc /\ x.h.encPos = h.encPos
          /\ h.enc = "crypto" => x.h.decPos = 3
          /\ x.h.select = w[4].arg /\ x.ts = <<>> /\ x.rest = After(w, 4)
      BY <2>2, <2>5, CryptoProvideRead
    <3>2. /\ g.h.state = "IA" /\ g.h.enc = h.enc /\ g.h.encPos = h.encPos
          /\ h.enc = "crypto" => g.h.decPos = 3
          /\ g.h.select = w[4].arg /\ g.ts = <<>> /\ g.rest = After(w, 4)
      BY <2>3, <3>1
    <3>3. w[4] = AScript[q + 4]
      <4>1. 4 \in 1..Len(w)
        BY <2>2
      <4> QED
        BY <4>1 DEF Carries
    <3>4. w[4].arg = {"crypto"}
      BY <3>3, <2>1, AScriptTokens
    <3>5. EncryptedB(g.h, 5, 2)
      BY <2>1, <3>2, <3>4 DEF EncryptedB, CipherAt
    <3>6. Carries(After(w, 4), oA, AScript, q + 4, m) /\ q + 4 = 5
      BY <2>1, <2>2, <1>4
    <3>7. Goes(5, 2)
      BY <2>1, <3>2, <3>5, <3>6, <1>3
    <3> QED
      BY <3>7
  <2> QED
    BY <2>4, <2>5
<1>12. CASE h.state = "IA"
  <2>1. q = 5 /\ n = 2 /\ CipherAt(h, "crypto", 0, 3) /\ h.select = {"crypto"}
    BY <1>12 DEF EncryptedB
  <2>3. g = ReadIA(h, w)
    BY <1>12, OutcomeIs DEF g
  <2>4. /\ g.h.state = "PAYLOAD_STREAM" /\ g.h.enc = "crypto" /\ g.h.encPos = 5 /\ g.h.decPos = h.decPos
        /\ g.rest = w /\ Len(g.ts) = 4
        /\ g.ts[1] = [Plain("VC") EXCEPT !.pos = 1]
        /\ g.ts[2] = [With("Select", {"crypto"}) EXCEPT !.pos = 2]
        /\ g.ts[3] = [Plain("HS") EXCEPT !.pos = 3] /\ g.ts[4] = [Plain("ID") EXCEPT !.pos = 4]
    BY <2>1, <2>3, IARead, ZenonT(60) DEF CipherAt
  <2>5. EncryptedB(g.h, 5, 6)
    BY <2>1, <2>4 DEF EncryptedB, CipherAt
  <2>6. \A i \in 1..Len(g.ts) : g.ts[i] = BScript[2 + i]
    <3>1. g.ts[1] = BScript[3] /\ g.ts[2] = BScript[4] /\ g.ts[3] = BScript[5] /\ g.ts[4] = BScript[6]
      BY <2>4, BScriptIs
    <3> HIDE DEF BScript
    <3>2. \A i \in 1..4 : g.ts[i] = BScript[2 + i]
      <4> TAKE i \in 1..4
      <4>1. i = 1 \/ i = 2 \/ i = 3 \/ i = 4
        OBVIOUS
      <4> QED
        BY <3>1, <4>1
    <3> QED
      BY <3>2, <2>4
  <2>7. g.ts \in Seq(Token)
    BY <1>2 DEF ReadRight
  <2>8. Carries(wA, o, BScript, r, 2)
    BY <2>1
  <2>9. Carries(wA, o \o g.ts, BScript, r, 2 + Len(g.ts))
    BY <2>6, <2>7, <2>8, WriteCarries
  <2>10. 2 + Len(g.ts) = 6
    BY <2>4
  <2>11. Goes(5, 6)
    BY <2>1, <2>4, <2>5, <2>9, <2>10
  <2> QED
    BY <2>11
<1>13. CASE h.state = "PAYLOAD_STREAM"
  <2>1. q = 5 /\ n = 6 /\ CipherAt(h, "crypto", 5, 3)
    BY <1>13 DEF EncryptedB
  <2>2. Len(w) >= 2 /\ Len(w) \in Nat
    BY <1>13, EnoughIs, TokenSeq
  <2>3. g = ReadPayload(h, w)
    BY <1>13, OutcomeIs DEF g
  <2>4. Legible(h, w[1])
    <3>1. w[1] = AScript[6]
      BY <1>0, <1>1, <2>1, TokenGone
    <3>2. w[1].pos = 3
      BY <3>1, AScriptTokens
    <3> QED
      BY <3>2, <2>1 DEF Legible, CipherAt
  <2>5. /\ g.h.state = "connected" /\ g.h.enc = h.enc /\ g.h.encPos = h.encPos
        /\ g.h.decPos = (IF h.enc = "crypto" /\ h.decPos > 0 THEN h.decPos + 2 ELSE h.decPos)
        /\ g.ts = <<>> /\ g.rest = After(w, 2)
    BY <2>2, <2>3, <2>4, PayloadRead
  <2>6. EncryptedB(g.h, 7, 6)
    BY <2>1, <2>5 DEF EncryptedB, CipherAt
  <2>7. Carries(After(w, 2), oA, AScript, q + 2, m) /\ q + 2 = 7
    BY <2>1, <2>2, <1>4
  <2>8. Goes(7, 6)
    BY <2>1, <2>5, <2>6, <2>7, <1>3
  <2> QED
    BY <2>8
<1>14. h.state \in {"HANDSHAKE", "YA", "PAD_A", "CRYPTO_PROVIDE", "IA", "PAYLOAD_STREAM"}
  BY <1>0 DEF EncryptedB, NotYet
<1> QED
  BY <1>8, <1>9, <1>10, <1>11, <1>12, <1>13, <1>14

-----------------------------------------------------------------------------
(* The plaintext handshake.                                                *)

LEMMA LeftoverIs ==
    /\ Leftover[1] = Plain("Junk") /\ Leftover[2] = Plain("HS") /\ Leftover[3] = Plain("ID")
    /\ Plain("Junk").what = "Junk" /\ Plain("HS").what = "HS" /\ Plain("ID").what = "ID" /\ Plain("ID").pos = 0
BY DEF Leftover, Plain

LEMMA PlainAReads ==
    ASSUME NEW h \in EndRecord, NEW w \in Seq(Token), NEW o \in Seq(Token),
           NEW r \in 0..3, NEW n \in {1, 3}, PlainA(h, r), h.mode # "REQUIRED", Carries(w, o, Leftover, r, n),
           Enough(h, w), NEW wanted \in BOOLEAN
    PROVE  LET g == Outcome("A", h, w, wanted) IN
           \/ r = 0 /\ g.h.state = "failed"
           \/ /\ r + 1 \in 0..3 /\ PlainA(g.h, r + 1) /\ Carries(g.rest, o, Leftover, r + 1, n)
              /\ g.ts = <<>>
<1> DEFINE g == Outcome("A", h, w, wanted)
<1>0. w # <<>> /\ h.state \in NotYet /\ "A" \in Ends /\ r \in Nat /\ n \in Nat
  BY EnoughIs DEF Ends
<1>1. Head(w) = Leftover[r + 1] /\ r < n
  BY <1>0, HeadCarried
<1>2. Len(w) >= 1 /\ Tail(w) = After(w, 1)
  BY <1>0, TokenGone, TailIsAfter
<1>3. Carries(Tail(w), o, Leftover, r + 1, n)
  BY <1>0, <1>2, ReadCarries
<1> HIDE DEF g
<1>4. CASE r = 0
  <2>1. h.state = "HANDSHAKE" /\ Head(w).what # "HS"
    BY <1>1, <1>4, LeftoverIs DEF PlainA
  <2>2. g = ReadHandshake("A", h, w)
    BY <2>1, OutcomeIs DEF g
  <2>3. g.h.state = "failed"
    BY <1>0, <2>1, <2>2, HandshakeRead
  <2> QED
    BY <2>3, <1>4 DEF g
<1>5. CASE r = 1
  <2>1. h.state = "HANDSHAKE" /\ Head(w) = Plain("HS") /\ CipherAt(h, "plaintext", 0, 0) /\ h.sentHello
    BY <1>1, <1>5, LeftoverIs DEF PlainA
  <2>2. g = ReadHandshake("A", h, w)
    BY <2>1, OutcomeIs DEF g
  <2>3. /\ g.h.state = "PEER_ID" /\ g.h.enc = "plaintext" /\ g.h.encPos = h.encPos
        /\ g.h.decPos = h.decPos /\ g.h.sentHello
        /\ g.ts = (IF h.sentHello THEN <<>> ELSE Hello) /\ g.rest = Tail(w)
    BY <1>0, <2>1, <2>2, HandshakeRead
  <2>4. g.ts = <<>>
    BY <2>1, <2>3
  <2>5. PlainA(g.h, 2)
    BY <2>1, <2>3 DEF PlainA, CipherAt
  <2>6. r + 1 = 2 /\ r + 1 \in 0..3
    BY <1>5
  <2>7. /\ r + 1 \in 0..3 /\ PlainA(g.h, r + 1) /\ Carries(g.rest, o, Leftover, r + 1, n)
        /\ g.ts = <<>>
    BY <2>3, <2>4, <2>5, <2>6, <1>3
  <2> QED
    BY <2>7 DEF g
<1>6. CASE r = 2
  <2>1. h.state = "PEER_ID" /\ Head(w) = Plain("ID") /\ CipherAt(h, "plaintext", 0, 0) /\ h.sentHello
    BY <1>1, <1>6, LeftoverIs DEF PlainA
  <2>2. g = ReadPeerId(h, w)
    BY <2>1, OutcomeIs DEF g
  <2>3. Legible(h, Head(w))
    BY <2>1, LeftoverIs DEF Legible, CipherAt
  <2>4. /\ g.h.state = "connected" /\ g.h.enc = h.enc /\ g.h.encPos = h.encPos
        /\ g.h.decPos = (IF h.enc = "crypto" /\ h.decPos > 0 THEN h.decPos + 1 ELSE h.decPos)
        /\ g.h.sentHello = h.sentHello /\ g.ts = <<>> /\ g.rest = Tail(w)
    BY <1>0, <2>2, <2>3, PeerIdRead
  <2>5. PlainA(g.h, 3)
    BY <2>1, <2>4 DEF PlainA, CipherAt
  <2>6. r + 1 = 3 /\ r + 1 \in 0..3
    BY <1>6
  <2>7. /\ r + 1 \in 0..3 /\ PlainA(g.h, r + 1) /\ Carries(g.rest, o, Leftover, r + 1, n)
        /\ g.ts = <<>>
    BY <2>4, <2>5, <2>6, <1>3
  <2> QED
    BY <2>7 DEF g
<1>7. r # 3
  BY <1>1
<1> QED
  BY <1>4, <1>5, <1>6, <1>7

LEMMA PlainBReads ==
    ASSUME NEW h \in EndRecord, NEW w \in Seq(Token), NEW o \in Seq(Token), NEW wA \in Seq(Token),
           NEW oA \in Seq(Token), NEW r \in 0..3, NEW q \in 0..2, NEW n \in {1, 3},
           PlainB(h, q, n), Carries(w, oA, Hello, q, 2), Carries(wA, o, Leftover, r, n),
           Enough(h, w), NEW wanted \in BOOLEAN
    PROVE  LET g == Outcome("B", h, w, wanted) IN
           \/ h.mode = "REQUIRED" /\ g.h.state = "failed"
           \/ /\ q + 1 \in 0..2 /\ PlainB(g.h, q + 1, 3) /\ Carries(g.rest, oA, Hello, q + 1, 2)
              /\ Carries(wA, o \o g.ts, Leftover, r, 3)
<1> DEFINE g == Outcome("B", h, w, wanted)
<1>0. w # <<>> /\ h.state \in NotYet /\ "B" \in Ends /\ q \in Nat /\ n \in Nat /\ r \in Nat /\ 2 \in Nat
  BY EnoughIs DEF Ends
<1>1. Head(w) = Hello[q + 1] /\ q < 2
  BY <1>0, HeadCarried
<1>2. Len(w) >= 1 /\ Tail(w) = After(w, 1)
  BY <1>0, TokenGone, TailIsAfter
<1>3. Carries(Tail(w), oA, Hello, q + 1, 2)
  BY <1>0, <1>2, ReadCarries
<1>4. ReadRight(g, h)
  BY <1>0, OutcomeRight
<1> HIDE DEF g
<1>5. CASE q = 0 /\ h.mode = "REQUIRED"
  <2>1. h.state = "HANDSHAKE" /\ Head(w) = Plain("HS")
    BY <1>1, <1>5, HelloIs DEF PlainB
  <2>2. g = ReadHandshake("B", h, w)
    BY <2>1, OutcomeIs DEF g
  <2>3. g.h.state = "failed"
    BY <1>0, <1>5, <2>1, <2>2, HandshakeRead
  <2> QED
    BY <2>3, <1>5 DEF g
<1>6. CASE q = 0 /\ h.mode # "REQUIRED"
  <2>1. h.state = "HANDSHAKE" /\ Head(w) = Plain("HS") /\ CipherAt(h, "plaintext", 0, 0) /\ ~h.sentHello /\ n = 1
    BY <1>1, <1>6, HelloIs DEF PlainB
  <2>2. g = ReadHandshake("B", h, w)
    BY <2>1, OutcomeIs DEF g
  <2>3. /\ g.h.state = "PEER_ID" /\ g.h.enc = "plaintext" /\ g.h.encPos = h.encPos
        /\ g.h.decPos = h.decPos /\ g.h.sentHello
        /\ g.ts = (IF h.sentHello THEN <<>> ELSE Hello) /\ g.rest = Tail(w)
    BY <1>0, <1>6, <2>1, <2>2, HandshakeRead
  <2>4. g.ts = Hello
    BY <2>1, <2>3
  <2>5. g.h.mode = h.mode
    BY <1>4 DEF ReadRight
  <2>6. PlainB(g.h, 1, 3)
    BY <2>1, <2>3, <2>5, <1>6 DEF PlainB, CipherAt
  <2>7. \A i \in 1..Len(Hello) : Hello[i] = Leftover[1 + i]
    <3>1. Hello[1] = Leftover[2] /\ Hello[2] = Leftover[3] /\ Len(Hello) = 2
      BY HelloIs, LeftoverIs
    <3> HIDE DEF Hello, Leftover
    <3>2. \A i \in 1..2 : Hello[i] = Leftover[1 + i]
      <4> TAKE i \in 1..2
      <4>1. i = 1 \/ i = 2
        OBVIOUS
      <4> QED
        BY <3>1, <4>1
    <3> QED
      BY <3>1, <3>2
  <2>8. Carries(wA, o, Leftover, r, 1)
    BY <2>1
  <2>9. Carries(wA, o \o Hello, Leftover, r, 1 + Len(Hello))
    BY <1>0, <2>7, <2>8, HelloIs, WriteCarries
  <2>10. 1 + Len(Hello) = 3
    BY HelloIs
  <2>11. q + 1 = 1 /\ q + 1 \in 0..2
    BY <1>6
  <2>12. /\ q + 1 \in 0..2 /\ PlainB(g.h, q + 1, 3) /\ Carries(g.rest, oA, Hello, q + 1, 2)
         /\ Carries(wA, o \o g.ts, Leftover, r, 3)
    BY <2>3, <2>4, <2>6, <2>9, <2>10, <2>11, <1>3
  <2> QED
    BY <2>12 DEF g
<1>7. CASE q = 1
  <2>1. /\ h.state = "PEER_ID" /\ Head(w) = Plain("ID") /\ CipherAt(h, "plaintext", 0, 0) /\ h.mode # "REQUIRED"
        /\ n = 3
    BY <1>1, <1>7, HelloIs DEF PlainB
  <2>2. g = ReadPeerId(h, w)
    BY <2>1, OutcomeIs DEF g
  <2>3. Legible(h, Head(w))
    BY <2>1, LeftoverIs DEF Legible, CipherAt
  <2>4. /\ g.h.state = "connected" /\ g.h.enc = h.enc /\ g.h.encPos = h.encPos
        /\ g.h.decPos = (IF h.enc = "crypto" /\ h.decPos > 0 THEN h.decPos + 1 ELSE h.decPos)
        /\ g.ts = <<>> /\ g.rest = Tail(w)
    BY <1>0, <2>2, <2>3, PeerIdRead
  <2>5. PlainB(g.h, 2, 3)
    BY <2>1, <2>4, <1>4 DEF PlainB, CipherAt, ReadRight
  <2>6. o \o g.ts = o
    BY <2>4, TokenSeq
  <2>7. q + 1 = 2 /\ q + 1 \in 0..2
    BY <1>7
  <2>8. /\ q + 1 \in 0..2 /\ PlainB(g.h, q + 1, 3) /\ Carries(g.rest, oA, Hello, q + 1, 2)
        /\ Carries(wA, o \o g.ts, Leftover, r, 3)
    BY <2>1, <2>4, <2>5, <2>6, <2>7, <1>3
  <2> QED
    BY <2>8 DEF g
<1>8. q # 2
  BY <1>1
<1> QED
  BY <1>5, <1>6, <1>7, <1>8

-----------------------------------------------------------------------------
(* The steps in which an end reads.                                        *)

LEMMA NoHelloSeq ==
    \A s \in Seq(Token) : (\A i \in 1..Len(s) : s[i] \in NoHello) => s \in Seq(NoHello)
<1> SUFFICES ASSUME NEW s \in Seq(Token), \A i \in 1..Len(s) : s[i] \in NoHello
             PROVE  s \in Seq(NoHello)
  OBVIOUS
<1>1. Len(s) \in Nat /\ s \in [1..Len(s) -> Token]
  BY TokenSeq
<1>2. s \in [1..Len(s) -> NoHello]
  BY <1>1
<1> QED
  BY <1>1, <1>2, SeqDef

LEMMA NoStartSeq ==
    \A s \in Seq(Token) : (\A i \in 1..Len(s) : s[i] \in NoStart) => s \in Seq(NoStart)
<1> SUFFICES ASSUME NEW s \in Seq(Token), \A i \in 1..Len(s) : s[i] \in NoStart
             PROVE  s \in Seq(NoStart)
  OBVIOUS
<1>1. Len(s) \in Nat /\ s \in [1..Len(s) -> Token]
  BY TokenSeq
<1>2. s \in [1..Len(s) -> NoStart]
  BY <1>1
<1> QED
  BY <1>1, <1>2, SeqDef

LEMMA SeqHas ==
    ASSUME NEW T, NEW s \in Seq(T), s # <<>>
    PROVE  Head(s) \in T /\ Tail(s) \in Seq(T)
BY HeadTailProperties

LEMMA SeqFlushed ==
    ASSUME NEW T, NEW w \in Seq(T), NEW o \in Seq(T), o # <<>>
    PROVE  Append(w, Head(o)) \in Seq(T) /\ Tail(o) \in Seq(T)
BY SeqHas, AppendProperties

LEMMA SeqWritten ==
    ASSUME NEW T, NEW o \in Seq(T), NEW ts \in Seq(T)
    PROVE  o \o ts \in Seq(T)
BY ConcatProperties

LEMMA NoHelloIs ==
    /\ NoHello \subseteq Token /\ NoStart \subseteq Token
    /\ \A t \in NoHello : t.what # "HS"
    /\ \A t \in NoStart : t # Plain("HS") /\ t.what # "Ya"
BY DEF NoHello, NoStart

\* The end e has read and g is what came of it.
Reads(e, g) ==
    /\ hs' = [hs EXCEPT ![e] = g.h]
    /\ hsOut' = [hsOut EXCEPT ![e] = hsOut[e] \o g.ts]
    /\ wire' = [wire EXCEPT ![e] = g.rest]
    /\ foreign' = foreign /\ hsAccidents' \in Nat /\ hsAccidents' >= hsAccidents

LEMMA EndsAre == "A" \in Ends /\ "B" \in Ends /\ "A" # "B" /\ Peer("A") = "B" /\ Peer("B") = "A" /\ Ends = {"A", "B"}
BY DEF Ends, Peer

LEMMA ReadsTypes ==
    ASSUME HsTypes, NEW e \in Ends, NEW g, ReadRight(g, hs[e]), Reads(e, g)
    PROVE  /\ HsTypes' /\ hs'[e] = g.h /\ wire'[e] = g.rest /\ hsOut'[e] = hsOut[e] \o g.ts
           /\ \A d \in Ends \ {e} : hs'[d] = hs[d] /\ wire'[d] = wire[d] /\ hsOut'[d] = hsOut[d]
           /\ hs'[e].mode = hs[e].mode /\ hs'[e].retried = hs[e].retried /\ foreign' = foreign
           /\ hsAccidents' \in Nat /\ hsAccidents' >= hsAccidents
<1>1. g.h \in EndRecord /\ g.h.mode = hs[e].mode /\ g.h.retried = hs[e].retried
      /\ g.ts \in Seq(Token) /\ g.rest \in Seq(Token)
  BY DEF ReadRight
<1>2. /\ hs \in [Ends -> EndRecord] /\ hsAccidents \in Nat
      /\ wire \in [Ends -> Seq(Token)] /\ hsOut \in [Ends -> Seq(Token)]
  BY DEF HsTypes
<1>3. hsOut[e] \o g.ts \in Seq(Token)
  BY <1>1, <1>2, TokensJoined
<1>4. /\ hs' \in [Ends -> EndRecord] /\ hs'[e] = g.h /\ \A d \in Ends \ {e} : hs'[d] = hs[d]
  BY <1>1, <1>2 DEF Reads
<1>5. /\ wire' \in [Ends -> Seq(Token)] /\ wire'[e] = g.rest /\ \A d \in Ends \ {e} : wire'[d] = wire[d]
  BY <1>1, <1>2 DEF Reads
<1>6. /\ hsOut' \in [Ends -> Seq(Token)] /\ hsOut'[e] = hsOut[e] \o g.ts
      /\ \A d \in Ends \ {e} : hsOut'[d] = hsOut[d]
  BY <1>2, <1>3 DEF Reads
<1>7. foreign' = foreign /\ hsAccidents' \in Nat /\ hsAccidents' >= hsAccidents
  BY DEF Reads
<1> QED
  BY <1>1, <1>4, <1>5, <1>6, <1>7 DEF HsTypes

LEMMA TypesAre ==
    ASSUME HsTypes, NEW e \in Ends
    PROVE  hs[e] \in EndRecord /\ wire[e] \in Seq(Token) /\ hsOut[e] \in Seq(Token) /\ hsAccidents \in Nat
BY DEF HsTypes

LEMMA AOnTrack ==
    ASSUME HsTypes, ~foreign, OnTrack, NEW wanted \in BOOLEAN, Enough(hs["A"], wire["A"]),
           Reads("A", Outcome("A", hs["A"], wire["A"], wanted))
    PROVE  \/ hsAccidents > 0 /\ hs'["A"].state = "failed"
           \/ OnTrack'
<1> DEFINE g == Outcome("A", hs["A"], wire["A"], wanted)
<1>1. /\ hs["A"] \in EndRecord /\ wire["A"] \in Seq(Token) /\ hsOut["A"] \in Seq(Token)
      /\ hs["B"] \in EndRecord /\ wire["B"] \in Seq(Token) /\ hsOut["B"] \in Seq(Token) /\ hsAccidents \in Nat
  BY TypesAre, EndsAre
<1>2. ReadRight(g, hs["A"])
  BY <1>1, EndsAre, OutcomeRight
<1>3. /\ hs'["A"] = g.h /\ wire'["A"] = g.rest /\ hsOut'["A"] = hsOut["A"] \o g.ts
      /\ hs'["B"] = hs["B"] /\ wire'["B"] = wire["B"] /\ hsOut'["B"] = hsOut["B"]
      /\ hs'["A"].mode = hs["A"].mode
      /\ hsAccidents' \in Nat /\ hsAccidents' >= hsAccidents
  <2> HIDE DEF g
  <2>1. Reads("A", g)
    BY DEF g
  <2> QED
    BY <1>2, <2>1, EndsAre, ReadsTypes
<1>4. wire["A"] # <<>> /\ hs["A"].state \in NotYet
  BY <1>1, EnoughIs
<1>5. CASE Encrypted
  <2>1. PICK r \in 0..6, m \in {1, 7}, q \in {0, 1, 5, 7}, n \in {0, 2, 6} :
          /\ EncryptedA(hs["A"], r, m) /\ EncryptedB(hs["B"], q, n)
          /\ Carries(wire["A"], hsOut["B"], BScript, r, n) /\ Carries(wire["B"], hsOut["A"], AScript, q, m)
    BY <1>5 DEF Encrypted, ToA, ToB
  <2>2. q \in Nat /\ n \in 0..6
    OBVIOUS
  <2>3. /\ r + 1 \in 0..6 /\ EncryptedA(g.h, r + 1, 7)
        /\ Carries(g.rest, hsOut["B"], BScript, r + 1, n) /\ Carries(wire["B"], hsOut["A"] \o g.ts, AScript, q, 7)
    <3> DEFINE h == hs["A"]
               w == wire["A"]
               o == hsOut["A"]
               wB == wire["B"]
               oB == hsOut["B"]
    <3>1. h \in EndRecord /\ w \in Seq(Token) /\ o \in Seq(Token) /\ wB \in Seq(Token) /\ oB \in Seq(Token)
      BY <1>1
    <3>2. EncryptedA(h, r, m) /\ Carries(w, oB, BScript, r, n) /\ Carries(wB, o, AScript, q, m) /\ Enough(h, w)
      BY <2>1
    <3> HIDE DEF h, w, o, wB, oB
    <3>3. AReadOn(Outcome("A", h, w, wanted), o, wB, oB, r, q, n)
      <4>1. /\ r \in 0..6 /\ m \in {1, 7} /\ q \in Nat /\ n \in 0..6 /\ wanted \in BOOLEAN /\ ~foreign
            /\ EncryptedA(h, r, m) /\ Carries(w, oB, BScript, r, n) /\ Carries(wB, o, AScript, q, m)
            /\ Enough(h, w)
        BY <2>2, <3>2
      <4> QED
        BY <3>1, <4>1, EncryptedAReads
    <3> QED
      BY <3>3 DEF h, w, o, wB, oB, AReadOn
  <2> HIDE DEF g
  <2>4. Encrypted'
    <3>1. /\ EncryptedA(hs'["A"], r + 1, 7) /\ EncryptedB(hs'["B"], q, n)
          /\ Carries(wire'["A"], hsOut'["B"], BScript, r + 1, n) /\ Carries(wire'["B"], hsOut'["A"], AScript, q, 7)
      BY <1>3, <2>1, <2>3
    <3> QED
      BY <2>3, <3>1 DEF Encrypted, ToA, ToB
  <2> QED
    BY <2>4 DEF OnTrack
<1>6. CASE Plaintext
  <2>1. PICK r \in 0..3, q \in 0..2, n \in {1, 3} :
          /\ hs["A"].mode # "REQUIRED" /\ (hs["A"].mode = "CLEAR" \/ hsAccidents > 0)
          /\ r = 0 => hsAccidents > 0
          /\ PlainA(hs["A"], r) /\ PlainB(hs["B"], q, n)
          /\ Carries(wire["A"], hsOut["B"], Leftover, r, n) /\ Carries(wire["B"], hsOut["A"], Hello, q, 2)
    BY <1>6 DEF Plaintext, ToA, ToB
  <2>2. \/ r = 0 /\ g.h.state = "failed"
        \/ /\ r + 1 \in 0..3 /\ PlainA(g.h, r + 1) /\ Carries(g.rest, hsOut["B"], Leftover, r + 1, n)
           /\ g.ts = <<>>
    BY <1>1, <2>1, PlainAReads
  <2> HIDE DEF g
  <2>3. CASE r = 0 /\ g.h.state = "failed"
    BY <2>1, <2>3, <1>3
  <2>4. CASE /\ r + 1 \in 0..3 /\ PlainA(g.h, r + 1) /\ Carries(g.rest, hsOut["B"], Leftover, r + 1, n)
             /\ g.ts = <<>>
    <3>1. hsOut["A"] \o g.ts = hsOut["A"]
      BY <2>4, <1>1, TokenSeq
    <3>2. /\ hs'["A"].mode # "REQUIRED" /\ (hs'["A"].mode = "CLEAR" \/ hsAccidents' > 0)
          /\ r + 1 # 0
      BY <1>1, <1>3, <2>1
    <3>3. /\ PlainA(hs'["A"], r + 1) /\ PlainB(hs'["B"], q, n)
          /\ Carries(wire'["A"], hsOut'["B"], Leftover, r + 1, n) /\ Carries(wire'["B"], hsOut'["A"], Hello, q, 2)
      BY <1>3, <2>1, <2>4, <3>1
    <3>4. Plaintext'
      BY <2>4, <3>2, <3>3 DEF Plaintext, ToA, ToB
    <3> QED
      BY <3>4 DEF OnTrack
  <2> QED
    BY <2>2, <2>3, <2>4
<1>7. CASE Refused \/ Astray
  <2>1. hs["A"].state = "HANDSHAKE" /\ hsAccidents > 0 /\ wire["A"] \in Seq(NoHello)
    BY <1>7 DEF Refused, Astray
  <2>2. Head(wire["A"]).what # "HS"
    BY <1>4, <2>1, SeqHas, NoHelloIs
  <2>3. g = ReadHandshake("A", hs["A"], wire["A"])
    BY <2>1, OutcomeIs
  <2>4. g.h.state = "failed"
    BY <1>1, <1>4, <2>2, <2>3, EndsAre, HandshakeRead
  <2> HIDE DEF g
  <2> QED
    BY <1>3, <2>1, <2>4
<1> QED
  BY <1>5, <1>6, <1>7 DEF OnTrack

LEMMA KeyAheadIs ==
    /\ KeyAhead[1] = Plain("Ya") /\ KeyAhead[2] = Plain("HS") /\ KeyAhead[3] = Plain("ID")
    /\ Plain("Ya").what = "Ya" /\ Plain("Req1").what = "Req1"
    /\ Plain("HS").what = "HS" /\ Plain("ID").what = "ID"
BY DEF KeyAhead, Plain

LEMMA BOnTrack ==
    ASSUME HsTypes, OnTrack, NEW wanted \in BOOLEAN, Enough(hs["B"], wire["B"]),
           Reads("B", Outcome("B", hs["B"], wire["B"], wanted))
    PROVE  \/ (~wanted \/ Trouble) /\ hs'["B"].state = "failed"
           \/ OnTrack'
<1> DEFINE g == Outcome("B", hs["B"], wire["B"], wanted)
           h == hs["B"]
           w == wire["B"]
           o == hsOut["B"]
           wA == wire["A"]
           oA == hsOut["A"]
<1>1. /\ hs["A"] \in EndRecord /\ wA \in Seq(Token) /\ oA \in Seq(Token)
      /\ h \in EndRecord /\ w \in Seq(Token) /\ o \in Seq(Token) /\ hsAccidents \in Nat
  BY TypesAre, EndsAre
<1>2. ReadRight(g, h)
  BY <1>1, EndsAre, OutcomeRight
<1>3. /\ hs'["B"] = g.h /\ wire'["B"] = g.rest /\ hsOut'["B"] = o \o g.ts
      /\ hs'["A"] = hs["A"] /\ wire'["A"] = wA /\ hsOut'["A"] = oA
      /\ hs'["B"].mode = h.mode
      /\ hsAccidents' \in Nat /\ hsAccidents' >= hsAccidents
  <2> HIDE DEF g
  <2>1. Reads("B", g)
    BY DEF g
  <2> QED
    BY <1>2, <2>1, EndsAre, ReadsTypes
<1>4. w # <<>> /\ h.state \in NotYet /\ (h.state = "YA" => Head(w).what = "Ya")
  BY <1>1, EnoughIs
<1>5. CASE Encrypted
  <2>1. PICK r \in 0..6, m \in {1, 7}, q \in {0, 1, 5, 7}, n \in {0, 2, 6} :
          /\ EncryptedA(hs["A"], r, m) /\ EncryptedB(h, q, n)
          /\ Carries(wA, o, BScript, r, n) /\ Carries(w, oA, AScript, q, m)
    BY <1>5 DEF Encrypted, ToA, ToB
  <2>2. \/ ~wanted /\ g.h.state = "failed"
        \/ \E q2 \in {0, 1, 5, 7}, n2 \in {0, 2, 6} :
             /\ EncryptedB(g.h, q2, n2) /\ Carries(g.rest, oA, AScript, q2, m)
             /\ Carries(wA, o \o g.ts, BScript, r, n2)
    <3>0. /\ h \in EndRecord /\ w \in Seq(Token) /\ o \in Seq(Token) /\ wA \in Seq(Token) /\ oA \in Seq(Token)
      BY <1>1
    <3>1. r \in Nat /\ Enough(h, w)
      OBVIOUS
    <3>3. EncryptedB(h, q, n) /\ Carries(w, oA, AScript, q, m) /\ Carries(wA, o, BScript, r, n)
      BY <2>1
    <3> HIDE DEF h, w, o, wA, oA
    <3>2. BReadOn(Outcome("B", h, w, wanted), o, wA, oA, r, m, wanted)
      BY <3>0, <3>1, <3>3, EncryptedBReads, SMTT(40)
    <3> QED
      BY <3>2 DEF h, w, BReadOn
  <2> HIDE DEF g
  <2>3. CASE ~wanted /\ g.h.state = "failed"
    BY <2>3, <1>3
  <2>4. CASE \E q2 \in {0, 1, 5, 7}, n2 \in {0, 2, 6} :
               /\ EncryptedB(g.h, q2, n2) /\ Carries(g.rest, oA, AScript, q2, m)
               /\ Carries(wA, o \o g.ts, BScript, r, n2)
    <3>1. PICK q2 \in {0, 1, 5, 7}, n2 \in {0, 2, 6} :
            /\ EncryptedB(g.h, q2, n2) /\ Carries(g.rest, oA, AScript, q2, m)
            /\ Carries(wA, o \o g.ts, BScript, r, n2)
      BY <2>4
    <3>2. /\ EncryptedA(hs'["A"], r, m) /\ EncryptedB(hs'["B"], q2, n2)
          /\ Carries(wire'["A"], hsOut'["B"], BScript, r, n2) /\ Carries(wire'["B"], hsOut'["A"], AScript, q2, m)
      BY <1>3, <2>1, <3>1
    <3>3. Encrypted'
      BY <3>2 DEF Encrypted, ToA, ToB
    <3> QED
      BY <3>3 DEF OnTrack
  <2> QED
    BY <2>2, <2>3, <2>4
<1>6. CASE Plaintext
  <2>1. PICK r \in 0..3, q \in 0..2, n \in {1, 3} :
          /\ hs["A"].mode # "REQUIRED" /\ (hs["A"].mode = "CLEAR" \/ hsAccidents > 0)
          /\ r = 0 => hsAccidents > 0
          /\ PlainA(hs["A"], r) /\ PlainB(h, q, n)
          /\ Carries(wA, o, Leftover, r, n) /\ Carries(w, oA, Hello, q, 2)
    BY <1>6 DEF Plaintext, ToA, ToB
  <2>2. \/ h.mode = "REQUIRED" /\ g.h.state = "failed"
        \/ /\ q + 1 \in 0..2 /\ PlainB(g.h, q + 1, 3) /\ Carries(g.rest, oA, Hello, q + 1, 2)
           /\ Carries(wA, o \o g.ts, Leftover, r, 3)
    <3>1. Enough(h, w)
      OBVIOUS
    <3> HIDE DEF h, w, o, wA, oA
    <3>2. LET x == Outcome("B", h, w, wanted) IN
          \/ h.mode = "REQUIRED" /\ x.h.state = "failed"
          \/ /\ q + 1 \in 0..2 /\ PlainB(x.h, q + 1, 3) /\ Carries(x.rest, oA, Hello, q + 1, 2)
             /\ Carries(wA, o \o x.ts, Leftover, r, 3)
      BY <1>1, <2>1, <3>1, PlainBReads
    <3> QED
      BY <3>2 DEF h, w
  <2> HIDE DEF g
  <2>3. CASE h.mode = "REQUIRED" /\ g.h.state = "failed"
    <3>1. Trouble
      BY <2>1, <2>3 DEF Trouble
    <3> QED
      BY <2>3, <3>1, <1>3
  <2>4. CASE /\ q + 1 \in 0..2 /\ PlainB(g.h, q + 1, 3) /\ Carries(g.rest, oA, Hello, q + 1, 2)
             /\ Carries(wA, o \o g.ts, Leftover, r, 3)
    <3>2. /\ hs'["A"].mode # "REQUIRED" /\ (hs'["A"].mode = "CLEAR" \/ hsAccidents' > 0)
          /\ r = 0 => hsAccidents' > 0
      BY <1>1, <1>3, <2>1
    <3>3. /\ PlainA(hs'["A"], r) /\ PlainB(hs'["B"], q + 1, 3)
          /\ Carries(wire'["A"], hsOut'["B"], Leftover, r, 3) /\ Carries(wire'["B"], hsOut'["A"], Hello, q + 1, 2)
      BY <1>3, <2>1, <2>4
    <3>4. Plaintext'
      BY <2>4, <3>2, <3>3 DEF Plaintext, ToA, ToB
    <3> QED
      BY <3>4 DEF OnTrack
  <2> QED
    BY <2>2, <2>3, <2>4
<1>7. CASE Refused
  <2>1. /\ hs["A"].state = "HANDSHAKE" /\ hsAccidents > 0 /\ h.state \in {"HANDSHAKE", "YA"} /\ o = <<>>
        /\ wA \in Seq(NoHello) /\ w \in Seq(NoStart) /\ oA \in Seq(NoStart)
    BY <1>7 DEF Refused
  <2>2. Head(w) # Plain("HS") /\ Head(w).what # "Ya"
    <3>1. Head(w) \in NoStart
      BY <1>4, <2>1, SeqHas
    <3> QED
      BY <3>1, NoHelloIs
  <2>3. h.state = "HANDSHAKE"
    BY <1>4, <2>1, <2>2
  <2>4. g = ReadHandshake("B", h, w)
    BY <2>3, OutcomeIs
  <2>5. g.h.state = "YA" /\ g.ts = <<>> /\ g.rest = w
    BY <1>1, <1>4, <2>2, <2>4, EndsAre, HandshakeRead
  <2> HIDE DEF g
  <2>6. o \o g.ts = <<>>
    BY <2>1, <2>5
  <2>7. hsAccidents' > 0
    BY <1>1, <1>3, <2>1
  <2>8. Refused'
    BY <1>3, <2>1, <2>5, <2>6, <2>7 DEF Refused
  <2> QED
    BY <2>8 DEF OnTrack
<1>8. CASE Astray
  <2>1. /\ hs["A"].state = "HANDSHAKE" /\ hsAccidents > 0 /\ wA \in Seq(NoHello) /\ o \in Seq(NoHello)
        /\ \/ h.state \in {"HANDSHAKE", "YA"} /\ Carries(w, oA, KeyAhead, 0, 3)
           \/ h.state = "PAD_A" /\ \E q \in 1..3 : Carries(w, oA, KeyAhead, q, 3)
    BY <1>8 DEF Astray, ToB
  <2>2. hsAccidents' > 0
    BY <1>1, <1>3, <2>1
  <2>3. Len(w) >= 1 /\ Tail(w) = After(w, 1)
    BY <1>1, <1>4, TokenGone, TailIsAfter
  <2>4. \A q \in 0..3 : Carries(w, oA, KeyAhead, q, 3) =>
          Carries(Tail(w), oA, KeyAhead, q + 1, 3) /\ Head(w) = KeyAhead[q + 1] /\ q < 3
    <3> SUFFICES ASSUME NEW q \in 0..3, Carries(w, oA, KeyAhead, q, 3)
                 PROVE  Carries(Tail(w), oA, KeyAhead, q + 1, 3) /\ Head(w) = KeyAhead[q + 1] /\ q < 3
      OBVIOUS
    <3>1. q \in Nat /\ 3 \in Nat /\ 1 \in Nat /\ 1 <= Len(w)
      BY <2>3
    <3>2. Head(w) = KeyAhead[q + 1] /\ q < 3
      BY <1>1, <1>4, <3>1, HeadCarried
    <3>3. Carries(After(w, 1), oA, KeyAhead, q + 1, 3)
      BY <1>1, <3>1, ReadCarries
    <3> QED
      BY <2>3, <3>2, <3>3
  <2>5. CASE h.state = "HANDSHAKE"
    <3>1. Carries(w, oA, KeyAhead, 0, 3)
      BY <2>1, <2>5
    <3>2. Head(w) # Plain("HS")
      BY <2>4, <3>1, KeyAheadIs
    <3>3. g = ReadHandshake("B", h, w)
      BY <2>5, OutcomeIs
    <3>4. g.h.state = "YA" /\ g.ts = <<>> /\ g.rest = w
      BY <1>1, <1>4, <3>2, <3>3, EndsAre, HandshakeRead
    <3> HIDE DEF g
    <3>5. o \o g.ts = o
      BY <1>1, <3>4, TokenSeq
    <3>6. Astray'
      BY <1>3, <2>1, <2>2, <3>1, <3>4, <3>5 DEF Astray, ToB
    <3> QED
      BY <3>6 DEF OnTrack
  <2>6. CASE h.state = "YA"
    <3>1. Carries(w, oA, KeyAhead, 0, 3)
      BY <2>1, <2>6
    <3>3. g = ReadYa(h, w)
      BY <2>6, OutcomeIs
    <3>4. /\ g.h.state = "PAD_A" /\ g.rest = Tail(w) /\ Len(g.ts) = 2
          /\ g.ts[1].what = "Yb" /\ g.ts[2].what = "PadB"
      <4> HIDE DEF g, h, w
      <4>1. /\ ReadYa(h, w).h.state = "PAD_A" /\ ReadYa(h, w).rest = Tail(w) /\ Len(ReadYa(h, w).ts) = 2
            /\ ReadYa(h, w).ts[1].what = "Yb" /\ ReadYa(h, w).ts[2].what = "PadB"
        BY <1>1, <1>4, YaRead
      <4> QED
        BY <3>3, <4>1
    <3>5. g.ts \in Seq(Token)
      BY <1>2 DEF ReadRight
    <3> HIDE DEF g
    <3>6. g.ts \in Seq(NoHello)
      <4>1. \A i \in 1..Len(g.ts) : g.ts[i] \in NoHello
        <5> TAKE i \in 1..Len(g.ts)
        <5>1. i = 1 \/ i = 2
          BY <3>4
        <5>2. g.ts[i] \in Token
          BY <3>5, TokenSeq
        <5>3. g.ts[i].what = "Yb" \/ g.ts[i].what = "PadB"
          <6>1. CASE i = 1
            BY <3>4, <6>1
          <6>2. CASE i = 2
            BY <3>4, <6>2
          <6> QED
            BY <5>1, <6>1, <6>2
        <5> QED
          BY <5>2, <5>3 DEF NoHello
      <4> QED
        BY <4>1, <3>5, NoHelloSeq
    <3>7. o \o g.ts \in Seq(NoHello)
      BY <2>1, <3>6, SeqWritten
    <3>8. Carries(Tail(w), oA, KeyAhead, 1, 3)
      <4>1. 0 \in 0..3 /\ 0 + 1 = 1
        OBVIOUS
      <4> QED
        BY <2>4, <3>1, <4>1
    <3>9. Astray'
      <4>1. \E q \in 1..3 : Carries(wire'["B"], hsOut'["A"], KeyAhead, q, 3)
        BY <1>3, <3>4, <3>8
      <4> QED
        BY <1>3, <2>1, <2>2, <3>4, <3>7, <4>1 DEF Astray, ToB
    <3> QED
      BY <3>9 DEF OnTrack
  <2>7. CASE h.state = "PAD_A"
    <3>1. PICK q \in 1..3 : Carries(w, oA, KeyAhead, q, 3)
      BY <2>1, <2>7
    <3>2. Carries(Tail(w), oA, KeyAhead, q + 1, 3) /\ Head(w) = KeyAhead[q + 1] /\ q < 3
      BY <2>4, <3>1
    <3>3. Head(w) # Plain("Req1")
      <4>1. q = 1 \/ q = 2
        BY <3>2
      <4>2. Head(w) = KeyAhead[2] \/ Head(w) = KeyAhead[3]
        BY <3>2, <4>1
      <4> QED
        BY <4>2, KeyAheadIs
    <3>4. g = ReadPadA(h, w)
      BY <2>7, OutcomeIs
    <3>5. g.h = h /\ g.ts = <<>> /\ g.rest = Tail(w)
      <4> HIDE DEF g, h, w
      <4>1. ReadPadA(h, w).h = h /\ ReadPadA(h, w).ts = <<>> /\ ReadPadA(h, w).rest = Tail(w)
        BY <1>1, <1>4, <3>3, PadARead
      <4> QED
        BY <3>4, <4>1
    <3> HIDE DEF g
    <3>6. o \o g.ts = o
      BY <1>1, <3>5, TokenSeq
    <3>7. q + 1 \in 1..3
      BY <3>2
    <3>8. Astray'
      <4>1. \E p \in 1..3 : Carries(wire'["B"], hsOut'["A"], KeyAhead, p, 3)
        BY <1>3, <3>2, <3>5, <3>7
      <4> QED
        BY <1>3, <2>1, <2>2, <2>7, <3>5, <3>6, <4>1 DEF Astray, ToB
    <3> QED
      BY <3>8 DEF OnTrack
  <2> QED
    BY <2>1, <2>5, <2>6, <2>7
<1> QED
  BY <1>5, <1>6, <1>7, <1>8 DEF OnTrack

-----------------------------------------------------------------------------
(* What a retry would start from is kept by whatever an end reads.         *)

LEMMA StateRead ==
    ASSUME NEW e \in Ends, NEW h \in EndRecord, NEW s \in Seq(Token), Enough(h, s), NEW wanted \in BOOLEAN
    PROVE  LET g == Outcome(e, h, s, wanted) IN
           /\ g.h.state # "YB"
           /\ g.h.state = "VC" => h.state \in {"YB", "VC"}
<1> DEFINE g == Outcome(e, h, s, wanted)
<1>0. /\ h.state \in NotYet /\ s # <<>>
      /\ h.state = "CRYPTO_PROVIDE" => Len(s) >= 4
      /\ h.state \in {"IA", "PAYLOAD_STREAM"} => Len(s) >= 2
  BY EnoughIs
<1>1. CASE h.state = "YB"
  <2>1. g = ReadYb(h, s)
    BY <1>1, OutcomeIs
  <2>2. ReadYb(h, s).h.state \in {"HANDSHAKE", "VC", "failed"}
    BY <1>0, YbRead
  <2> QED
    BY <1>1, <2>1, <2>2
<1>2. CASE h.state = "VC"
  <2>1. g = ReadVC(h, s)
    BY <1>2, OutcomeIs
  <2>2. ReadVC(h, s).h.state \in {"VC", "CRYPTO_SELECT"}
    BY <1>0, <1>2, VCRead
  <2> QED
    BY <1>2, <2>1, <2>2
<1>3. CASE h.state = "CRYPTO_SELECT"
  <2>1. g = ReadCryptoSelect(h, s)
    BY <1>3, OutcomeIs
  <2>2. ReadCryptoSelect(h, s).h.state \in {"HANDSHAKE", "failed"}
    BY <1>0, CryptoSelectRead
  <2> QED
    BY <2>1, <2>2
<1>4. CASE h.state = "HANDSHAKE"
  <2>1. g = ReadHandshake(e, h, s)
    BY <1>4, OutcomeIs
  <2>2. ReadHandshake(e, h, s).h.state \in {"YA", "PEER_ID", "failed"}
    BY <1>0, HandshakeRead
  <2> QED
    BY <2>1, <2>2
<1>5. CASE h.state = "PEER_ID"
  <2>1. g = ReadPeerId(h, s)
    BY <1>5, OutcomeIs
  <2>2. ReadPeerId(h, s).h.state \in {"connected", "failed"}
    BY <1>0, PeerIdRead
  <2> QED
    BY <2>1, <2>2
<1>6. CASE h.state = "YA"
  <2>1. g = ReadYa(h, s)
    BY <1>6, OutcomeIs
  <2>2. ReadYa(h, s).h.state = "PAD_A"
    BY <1>0, YaRead
  <2> QED
    BY <2>1, <2>2
<1>7. CASE h.state = "PAD_A"
  <2>1. g = ReadPadA(h, s)
    BY <1>7, OutcomeIs
  <2>2. ReadPadA(h, s).h.state \in {"CRYPTO_PROVIDE", "PAD_A"}
    BY <1>0, <1>7, PadARead
  <2> QED
    BY <2>1, <2>2
<1>8. CASE h.state = "CRYPTO_PROVIDE"
  <2>1. g = ReadCryptoProvide(h, s, wanted)
    BY <1>8, OutcomeIs
  <2>2. ReadCryptoProvide(h, s, wanted).h.state \in {"IA", "failed"}
    BY <1>0, <1>8, CryptoProvideRead
  <2> QED
    BY <2>1, <2>2
<1>9. CASE h.state = "IA"
  <2>1. g = ReadIA(h, s)
    BY <1>9, OutcomeIs
  <2>2. ReadIA(h, s).h.state \in {"PAYLOAD_STREAM", "failed"}
    BY IARead
  <2> QED
    BY <2>1, <2>2
<1>10. CASE h.state = "PAYLOAD_STREAM"
  <2>1. g = ReadPayload(h, s)
    BY <1>10, OutcomeIs
  <2>2. ReadPayload(h, s).h.state \in {"connected", "failed"}
    BY <1>0, <1>10, PayloadRead
  <2> QED
    BY <2>1, <2>2
<1> QED
  BY <1>0, <1>1, <1>2, <1>3, <1>4, <1>5, <1>6, <1>7, <1>8, <1>9, <1>10 DEF NotYet

LEMMA NotAStart ==
    /\ \A t \in Token : t.pos > 0 /\ t.what # "Ya" => t \in NoStart
    /\ Plain("Req1") \in NoStart /\ Plain("Skey") \in NoStart
<1>1. Plain("HS").pos = 0
  BY DEF Plain
<1>2. Plain("Req1") \in Token /\ Plain("Req1").what = "Req1" /\ Plain("Skey") \in Token /\ Plain("Skey").what = "Skey"
  BY PlainIs DEF Whats
<1>3. Plain("HS").what = "HS"
  BY DEF Plain
<1> QED
  BY <1>1, <1>2, <1>3 DEF NoStart

\* The first flight of A that is partly encrypted.
LEMMA FlightIs ==
    ASSUME NEW h \in EndRecord, NEW s \in Seq(Token), s # <<>>, ReadYb(h, s).h.state = "VC"
    PROVE  /\ ReadYb(h, s).h.enc = "crypto" /\ ReadYb(h, s).h.encPos > 0
           /\ ReadYb(h, s).ts \in Seq(NoStart)
<1> DEFINE r == ReadYb(h, s)
           ts == r.ts
<1>1. /\ ReadRight(r, h) /\ r.h.enc = "crypto" /\ r.h.encPos = 5
      /\ Len(ts) = 6 /\ ts[1] = Plain("Req1") /\ ts[2] = Plain("Skey")
      /\ ts[3] = [Plain("VC") EXCEPT !.pos = 1]
      /\ ts[4] = [With("Provide", Provide(h.mode)) EXCEPT !.pos = 2]
      /\ ts[5] = [Plain("HS") EXCEPT !.pos = 3] /\ ts[6] = [Plain("ID") EXCEPT !.pos = 4]
  BY YbRead
<1> HIDE DEF r
<1>2. ts \in Seq(Token)
  BY <1>1 DEF ReadRight
<1> HIDE DEF ts
<1>3. \A i \in 1..6 : ts[i] \in Token
  BY <1>1, <1>2, TokenSeq
<1>4. ts[1] \in NoStart /\ ts[2] \in NoStart
  BY <1>1, NotAStart
<1>5. ts[3].pos = 1 /\ ts[3].what = "VC"
  BY <1>1 DEF Plain
<1>6. ts[4].pos = 2 /\ ts[4].what = "Provide"
  BY <1>1 DEF Plain, With
<1>7. ts[5].pos = 3 /\ ts[5].what = "HS"
  BY <1>1 DEF Plain
<1>8. ts[6].pos = 4 /\ ts[6].what = "ID"
  BY <1>1 DEF Plain
<1>9. ts[3] \in NoStart /\ ts[4] \in NoStart
  BY <1>3, <1>5, <1>6, NotAStart
<1>10. ts[5] \in NoStart /\ ts[6] \in NoStart
  BY <1>3, <1>7, <1>8, NotAStart
<1>11. \A i \in 1..Len(ts) : ts[i] \in NoStart
  <2> TAKE i \in 1..Len(ts)
  <2>1. i = 1 \/ i = 2 \/ i = 3 \/ i = 4 \/ i = 5 \/ i = 6
    BY <1>1
  <2> QED
    BY <2>1, <1>4, <1>9, <1>10
<1>12. ts \in Seq(NoStart)
  BY <1>2, <1>11, NoStartSeq
<1> QED
  BY <1>1, <1>12 DEF r, ts

LEMMA AMayTry ==
    ASSUME HsTypes, MayTryAgain, NEW wanted \in BOOLEAN, Enough(hs["A"], wire["A"]),
           Reads("A", Outcome("A", hs["A"], wire["A"], wanted))
    PROVE  MayTryAgain'
<1> DEFINE g == Outcome("A", hs["A"], wire["A"], wanted)
           h == hs["A"]
           w == wire["A"]
           o == hsOut["A"]
<1>1. /\ h \in EndRecord /\ w \in Seq(Token) /\ o \in Seq(Token)
  BY TypesAre, EndsAre
<1>2. ReadRight(g, h)
  BY <1>1, EndsAre, OutcomeRight
<1>3. /\ hs'["A"] = g.h /\ hsOut'["A"] = o \o g.ts /\ hs'["A"].mode = h.mode
  <2> HIDE DEF g
  <2>1. Reads("A", g)
    BY DEF g
  <2> QED
    BY <1>2, <2>1, EndsAre, ReadsTypes
<1>4. w # <<>>
  BY <1>1, EnoughIs
<1>5. g.h.state # "YB" /\ (g.h.state = "VC" => h.state \in {"YB", "VC"})
  <2>1. Enough(h, w) /\ "A" \in Ends
    BY EndsAre
  <2> HIDE DEF h, w
  <2>2. LET x == Outcome("A", h, w, wanted) IN
        x.h.state # "YB" /\ (x.h.state = "VC" => h.state \in {"YB", "VC"})
    BY <1>1, <2>1, StateRead
  <2> QED
    BY <2>2 DEF h, w
<1>6. CASE g.h.state # "VC"
  <2> HIDE DEF g
  <2>1. hs'["A"].state \notin {"YB", "VC"}
    BY <1>3, <1>5, <1>6
  <2> QED
    BY <2>1 DEF MayTryAgain
<1>7. CASE g.h.state = "VC" /\ h.state = "YB"
  <2>1. o = <<>> /\ h.mode # "CLEAR"
    BY <1>4, <1>7 DEF MayTryAgain
  <2>2. g = ReadYb(h, w)
    BY <1>7, OutcomeIs
  <2>3. g.h.enc = "crypto" /\ g.h.encPos > 0 /\ g.ts \in Seq(NoStart)
    <3> HIDE DEF h, w, g
    <3>1. /\ ReadYb(h, w).h.enc = "crypto" /\ ReadYb(h, w).h.encPos > 0
          /\ ReadYb(h, w).ts \in Seq(NoStart)
      BY <1>1, <1>4, <1>7, <2>2, FlightIs
    <3> QED
      BY <2>2, <3>1
  <2> HIDE DEF g
  <2>4. o \o g.ts = g.ts
    BY <2>1, <2>3
  <2> QED
    BY <1>3, <1>7, <2>1, <2>3, <2>4 DEF MayTryAgain
<1>8. CASE g.h.state = "VC" /\ h.state = "VC"
  <2>1. h.mode # "CLEAR" /\ h.enc = "crypto" /\ h.encPos > 0 /\ o \in Seq(NoStart)
    BY <1>8 DEF MayTryAgain
  <2>2. g = ReadVC(h, w)
    BY <1>8, OutcomeIs
  <2>3. g.h = h /\ g.ts = <<>>
    <3> HIDE DEF h, w, g
    <3>1. ReadVC(h, w).ts = <<>> /\ (ReadVC(h, w).h.state = "VC" => ReadVC(h, w).h = h)
      BY <1>1, <1>4, <1>8, VCRead
    <3> QED
      BY <1>8, <2>2, <3>1
  <2> HIDE DEF g
  <2>4. o \o g.ts = o
    BY <1>1, <2>3, TokenSeq
  <2> QED
    BY <1>3, <1>8, <2>1, <2>3, <2>4 DEF MayTryAgain
<1> QED
  BY <1>5, <1>6, <1>7, <1>8

LEMMA BMayTry ==
    ASSUME HsTypes, MayTryAgain, NEW g, ReadRight(g, hs["B"]), wire["B"] # <<>>, Reads("B", g)
    PROVE  MayTryAgain'
<1>1. hs'["A"] = hs["A"] /\ hsOut'["A"] = hsOut["A"]
  BY EndsAre, ReadsTypes
<1> QED
  BY <1>1 DEF MayTryAgain, CipherAt

-----------------------------------------------------------------------------
(* Every step keeps the invariant.                                         *)

LEMMA NotFailing == OnTrack' => hs'["A"].state # "failed" /\ hs'["B"].state # "failed"
<1>1. Encrypted' => hs'["A"].state # "failed" /\ hs'["B"].state # "failed"
  BY DEF Encrypted, EncryptedA, EncryptedB
<1>2. Plaintext' => hs'["A"].state # "failed" /\ hs'["B"].state # "failed"
  BY DEF Plaintext, PlainA, PlainB
<1>3. Refused' => hs'["A"].state # "failed" /\ hs'["B"].state # "failed"
  BY DEF Refused
<1>4. Astray' => hs'["A"].state # "failed" /\ hs'["B"].state # "failed"
  BY DEF Astray
<1> QED
  BY <1>1, <1>2, <1>3, <1>4 DEF OnTrack

LEMMA TroubleKept ==
    ASSUME HsTypes, Trouble, hs'["A"].mode = hs["A"].mode, hs'["B"].mode = hs["B"].mode,
           hsAccidents' \in Nat, hsAccidents' >= hsAccidents
    PROVE  Trouble'
BY DEF HsTypes, Trouble

LEMMA HsInvNext ==
    ASSUME HsTypes', ~foreign', Failing("A")' \/ Failing("B")' => Trouble',
           ~Failing("A")' => MayTryAgain', ~Failing("A")' /\ ~Failing("B")' => OnTrack'
    PROVE  HsInv'
BY DEF HsInv

LEMMA ReadStep ==
    ASSUME HsInv, NEW e \in Ends, HsCanRead(e)
    PROVE  HsInv'
<1>0. HsTypes /\ ~foreign
  BY DEF HsInv
<1>1. PICK wanted \in BOOLEAN :
        /\ Enough(hs[e], wire[e])
        /\ wanted \/ hs[e].state = "CRYPTO_PROVIDE"
        /\ IF wanted THEN UNCHANGED hsAccidents ELSE Accident
        /\ hs' = [hs EXCEPT ![e] = Outcome(e, hs[e], wire[e], wanted).h]
        /\ hsOut' = [hsOut EXCEPT ![e] = @ \o Outcome(e, hs[e], wire[e], wanted).ts]
        /\ wire' = [wire EXCEPT ![e] = Outcome(e, hs[e], wire[e], wanted).rest]
        /\ UNCHANGED <<utp, foreign>>
  BY DEF HsCanRead
<1> DEFINE g == Outcome(e, hs[e], wire[e], wanted)
<1>2. hs[e] \in EndRecord /\ wire[e] \in Seq(Token) /\ hsOut[e] \in Seq(Token) /\ hsAccidents \in Nat
  BY <1>0, TypesAre
<1>3. ReadRight(g, hs[e])
  BY <1>1, <1>2, OutcomeRight
<1>4. wire[e] # <<>> /\ hs[e].state \in NotYet
  BY <1>1, <1>2, EnoughIs
<1>5. hsAccidents' \in Nat /\ hsAccidents' >= hsAccidents /\ (~wanted => hsAccidents' > 0)
  <2>1. CASE wanted
    BY <1>1, <1>2, <2>1
  <2>2. CASE ~wanted
    BY <1>1, <1>2, <2>2 DEF Accident
  <2> QED
    BY <2>1, <2>2
<1>6. Reads(e, g)
  BY <1>1, <1>5 DEF Reads
<1>7. /\ HsTypes' /\ hs'[e] = g.h /\ wire'[e] = g.rest
      /\ \A d \in Ends \ {e} : hs'[d] = hs[d] /\ wire'[d] = wire[d] /\ hsOut'[d] = hsOut[d]
      /\ hs'[e].mode = hs[e].mode /\ foreign' = foreign
  <2> HIDE DEF g
  <2> QED
    BY <1>0, <1>3, <1>6, ReadsTypes
<1>8. \A d \in Ends : hs'[d].mode = hs[d].mode
  BY <1>7
<1>9. Trouble => Trouble'
  BY <1>0, <1>5, <1>8, EndsAre, TroubleKept
<1>10. hs[e].state # "failed"
  BY <1>4 DEF NotYet
<1>11. CASE e = "A"
  <2>1. Enough(hs["A"], wire["A"]) /\ Reads("A", Outcome("A", hs["A"], wire["A"], wanted))
    BY <1>1, <1>6, <1>11
  <2>2. MayTryAgain'
    <3>1. MayTryAgain
      BY <1>10, <1>11 DEF HsInv, Failing
    <3> QED
      BY <1>0, <2>1, <3>1, AMayTry
  <2>3. hs'["B"] = hs["B"]
    BY <1>7, <1>11, EndsAre
  <2>4. CASE Failing("B")
    <3>1. Trouble
      BY <2>4 DEF HsInv
    <3>2. Failing("B")'
      BY <2>3, <2>4 DEF Failing
    <3> QED
      BY <1>0, <1>7, <1>9, <2>2, <3>1, <3>2, HsInvNext
  <2>5. CASE ~Failing("B")
    <3>1. OnTrack
      BY <1>10, <1>11, <2>5 DEF HsInv, Failing
    <3>2. \/ hsAccidents > 0 /\ hs'["A"].state = "failed"
          \/ OnTrack'
      BY <1>0, <2>1, <3>1, AOnTrack
    <3>3. CASE hsAccidents > 0 /\ hs'["A"].state = "failed"
      <4>1. Trouble' /\ Failing("A")'
        BY <1>2, <1>5, <3>3 DEF Trouble, Failing
      <4> QED
        BY <1>0, <1>7, <2>2, <4>1, HsInvNext
    <3>4. CASE OnTrack'
      <4>1. ~Failing("A")' /\ ~Failing("B")'
        BY <3>4, NotFailing DEF Failing
      <4> QED
        BY <1>0, <1>7, <2>2, <3>4, <4>1, HsInvNext
    <3> QED
      BY <3>2, <3>3, <3>4
  <2> QED
    BY <2>4, <2>5
<1>12. CASE e = "B"
  <2>1. Enough(hs["B"], wire["B"]) /\ Reads("B", Outcome("B", hs["B"], wire["B"], wanted))
    BY <1>1, <1>6, <1>12
  <2>2. hs'["A"] = hs["A"]
    BY <1>7, <1>12, EndsAre
  <2>3. ~Failing("A")' => MayTryAgain'
    <3>1. CASE Failing("A")
      BY <2>2, <3>1 DEF Failing
    <3>2. CASE ~Failing("A")
      <4>1. MayTryAgain
        BY <3>2 DEF HsInv
      <4>2. ReadRight(g, hs["B"]) /\ wire["B"] # <<>> /\ Reads("B", g)
        BY <1>3, <1>4, <1>6, <1>12
      <4> HIDE DEF g
      <4> QED
        BY <1>0, <4>1, <4>2, BMayTry
    <3> QED
      BY <3>1, <3>2
  <2>4. CASE Failing("A")
    <3>1. Trouble
      BY <2>4 DEF HsInv
    <3>2. Failing("A")'
      BY <2>2, <2>4 DEF Failing
    <3> QED
      BY <1>0, <1>7, <1>9, <2>3, <3>1, <3>2, HsInvNext
  <2>5. CASE ~Failing("A")
    <3>1. OnTrack
      BY <1>10, <1>12, <2>5 DEF HsInv, Failing
    <3>2. \/ (~wanted \/ Trouble) /\ hs'["B"].state = "failed"
          \/ OnTrack'
      BY <1>0, <2>1, <3>1, BOnTrack
    <3>3. CASE (~wanted \/ Trouble) /\ hs'["B"].state = "failed"
      <4>1. Trouble'
        <5>1. CASE ~wanted
          BY <1>5, <5>1 DEF Trouble
        <5>2. CASE Trouble
          BY <1>9, <5>2
        <5> QED
          BY <3>3, <5>1, <5>2
      <4>2. Failing("B")'
        BY <3>3 DEF Failing
      <4> QED
        BY <1>0, <1>7, <2>3, <4>1, <4>2, HsInvNext
    <3>4. CASE OnTrack'
      <4>1. ~Failing("A")' /\ ~Failing("B")'
        BY <3>4, NotFailing DEF Failing
      <4> QED
        BY <1>0, <1>7, <2>3, <3>4, <4>1, HsInvNext
    <3> QED
      BY <3>2, <3>3, <3>4
  <2> QED
    BY <2>4, <2>5
<1> QED
  BY <1>11, <1>12, EndsAre

LEMMA FlushIs ==
    ASSUME HsTypes, NEW e \in Ends, HsFlush(e)
    PROVE  /\ HsTypes' /\ hs' = hs /\ foreign' = foreign /\ hsAccidents' = hsAccidents /\ hsOut[e] # <<>>
           /\ hsOut'[e] = Tail(hsOut[e]) /\ hsOut'[Peer(e)] = hsOut[Peer(e)]
           /\ wire'[Peer(e)] = Append(wire[Peer(e)], Head(hsOut[e])) /\ wire'[e] = wire[e]
<1>1. hsOut[e] # <<>> /\ Peer(e) \in Ends /\ Peer(e) # e
  BY DEF HsFlush, Ends, Peer
<1>2. /\ hsOut[e] \in Seq(Token) /\ wire[Peer(e)] \in Seq(Token)
  BY <1>1, TypesAre
<1>3. Head(hsOut[e]) \in Token /\ Tail(hsOut[e]) \in Seq(Token)
  BY <1>1, <1>2, SeqHas
<1>4. Append(wire[Peer(e)], Head(hsOut[e])) \in Seq(Token)
  BY <1>2, <1>3, TokenAdded
<1>5. /\ hsOut' \in [Ends -> Seq(Token)] /\ hsOut'[e] = Tail(hsOut[e]) /\ hsOut'[Peer(e)] = hsOut[Peer(e)]
  BY <1>1, <1>3 DEF HsFlush, HsTypes
<1>6. /\ wire' \in [Ends -> Seq(Token)] /\ wire'[e] = wire[e]
      /\ wire'[Peer(e)] = Append(wire[Peer(e)], Head(hsOut[e]))
  BY <1>1, <1>4 DEF HsFlush, HsTypes
<1>7. hs' = hs /\ foreign' = foreign /\ hsAccidents' = hsAccidents
  BY DEF HsFlush
<1> QED
  BY <1>1, <1>5, <1>6, <1>7 DEF HsTypes

LEMMA AFlushOnTrack ==
    ASSUME HsTypes, OnTrack, HsFlush("A")
    PROVE  OnTrack'
<1>1. /\ hs' = hs /\ hsAccidents' = hsAccidents /\ hsOut["A"] # <<>>
      /\ hsOut'["A"] = Tail(hsOut["A"]) /\ hsOut'["B"] = hsOut["B"]
      /\ wire'["B"] = Append(wire["B"], Head(hsOut["A"])) /\ wire'["A"] = wire["A"]
  BY EndsAre, FlushIs
<1>2. hsOut["A"] \in Seq(Token) /\ wire["B"] \in Seq(Token)
  BY EndsAre, TypesAre
<1>3. \A r \in Nat, n \in Nat : \A u : Carries(wire["B"], hsOut["A"], u, r, n) => Carries(wire'["B"], hsOut'["A"], u, r, n)
  <2> SUFFICES ASSUME NEW r \in Nat, NEW n \in Nat, NEW u, Carries(wire["B"], hsOut["A"], u, r, n)
               PROVE  Carries(wire'["B"], hsOut'["A"], u, r, n)
    OBVIOUS
  <2>2. Carries(Append(wire["B"], Head(hsOut["A"])), Tail(hsOut["A"]), u, r, n)
    BY <1>1, <1>2, FlushCarries
  <2> QED
    BY <1>1, <2>2
<1>4. \A r \in Nat, n \in Nat : \A u : Carries(wire["A"], hsOut["B"], u, r, n) => Carries(wire'["A"], hsOut'["B"], u, r, n)
  BY <1>1
<1>5. CASE Encrypted
  <2>1. PICK r \in 0..6, m \in {1, 7}, q \in {0, 1, 5, 7}, n \in {0, 2, 6} :
          /\ EncryptedA(hs["A"], r, m) /\ EncryptedB(hs["B"], q, n)
          /\ Carries(wire["A"], hsOut["B"], BScript, r, n) /\ Carries(wire["B"], hsOut["A"], AScript, q, m)
    BY <1>5 DEF Encrypted, ToA, ToB
  <2>2. Carries(wire'["A"], hsOut'["B"], BScript, r, n) /\ Carries(wire'["B"], hsOut'["A"], AScript, q, m)
    <3>1. r \in Nat /\ m \in Nat /\ q \in Nat /\ n \in Nat
      OBVIOUS
    <3> QED
      BY <1>3, <1>4, <2>1, <3>1
  <2>3. EncryptedA(hs'["A"], r, m) /\ EncryptedB(hs'["B"], q, n)
    BY <1>1, <2>1
  <2>4. Encrypted'
    BY <2>2, <2>3 DEF Encrypted, ToA, ToB
  <2> QED
    BY <2>4 DEF OnTrack
<1>6. CASE Plaintext
  <2>1. PICK r \in 0..3, q \in 0..2, n \in {1, 3} :
          /\ hs["A"].mode # "REQUIRED" /\ (hs["A"].mode = "CLEAR" \/ hsAccidents > 0)
          /\ r = 0 => hsAccidents > 0
          /\ PlainA(hs["A"], r) /\ PlainB(hs["B"], q, n)
          /\ Carries(wire["A"], hsOut["B"], Leftover, r, n) /\ Carries(wire["B"], hsOut["A"], Hello, q, 2)
    BY <1>6 DEF Plaintext, ToA, ToB
  <2>2. Carries(wire'["A"], hsOut'["B"], Leftover, r, n) /\ Carries(wire'["B"], hsOut'["A"], Hello, q, 2)
    <3>1. r \in Nat /\ 2 \in Nat /\ q \in Nat /\ n \in Nat
      OBVIOUS
    <3> QED
      BY <1>3, <1>4, <2>1, <3>1
  <2>3. /\ hs'["A"].mode # "REQUIRED" /\ (hs'["A"].mode = "CLEAR" \/ hsAccidents' > 0)
        /\ r = 0 => hsAccidents' > 0
        /\ PlainA(hs'["A"], r) /\ PlainB(hs'["B"], q, n)
    BY <1>1, <2>1
  <2>4. Plaintext'
    BY <2>2, <2>3 DEF Plaintext, ToA, ToB
  <2> QED
    BY <2>4 DEF OnTrack
<1>7. CASE Refused
  <2>1. hsOut["A"] \in Seq(NoStart) /\ wire["B"] \in Seq(NoStart)
    BY <1>7 DEF Refused
  <2>2. Append(wire["B"], Head(hsOut["A"])) \in Seq(NoStart) /\ Tail(hsOut["A"]) \in Seq(NoStart)
    BY <1>1, <2>1, SeqFlushed
  <2>3. Refused'
    BY <1>1, <1>7, <2>2 DEF Refused
  <2> QED
    BY <2>3 DEF OnTrack
<1>8. CASE Astray
  <2>1. /\ hs["A"].state = "HANDSHAKE" /\ hsAccidents > 0
        /\ wire["A"] \in Seq(NoHello) /\ hsOut["B"] \in Seq(NoHello)
        /\ \/ hs["B"].state \in {"HANDSHAKE", "YA"} /\ Carries(wire["B"], hsOut["A"], KeyAhead, 0, 3)
           \/ hs["B"].state = "PAD_A" /\ \E q \in 1..3 : Carries(wire["B"], hsOut["A"], KeyAhead, q, 3)
    BY <1>8 DEF Astray, ToB
  <2>2. \/ hs["B"].state \in {"HANDSHAKE", "YA"} /\ Carries(wire'["B"], hsOut'["A"], KeyAhead, 0, 3)
        \/ hs["B"].state = "PAD_A" /\ \E q \in 1..3 : Carries(wire'["B"], hsOut'["A"], KeyAhead, q, 3)
    <3>1. 0 \in Nat /\ 3 \in Nat /\ \A q \in 1..3 : q \in Nat
      OBVIOUS
    <3> QED
      BY <1>3, <2>1, <3>1
  <2>3. Astray'
    BY <1>1, <2>1, <2>2 DEF Astray, ToB
  <2> QED
    BY <2>3 DEF OnTrack
<1> QED
  BY <1>5, <1>6, <1>7, <1>8 DEF OnTrack

LEMMA BFlushOnTrack ==
    ASSUME HsTypes, OnTrack, HsFlush("B")
    PROVE  OnTrack'
<1>1. /\ hs' = hs /\ hsAccidents' = hsAccidents /\ hsOut["B"] # <<>>
      /\ hsOut'["B"] = Tail(hsOut["B"]) /\ hsOut'["A"] = hsOut["A"]
      /\ wire'["A"] = Append(wire["A"], Head(hsOut["B"])) /\ wire'["B"] = wire["B"]
  BY EndsAre, FlushIs
<1>2. hsOut["B"] \in Seq(Token) /\ wire["A"] \in Seq(Token)
  BY EndsAre, TypesAre
<1>3. \A r \in Nat, n \in Nat : \A u : Carries(wire["A"], hsOut["B"], u, r, n) => Carries(wire'["A"], hsOut'["B"], u, r, n)
  <2> SUFFICES ASSUME NEW r \in Nat, NEW n \in Nat, NEW u, Carries(wire["A"], hsOut["B"], u, r, n)
               PROVE  Carries(wire'["A"], hsOut'["B"], u, r, n)
    OBVIOUS
  <2>2. Carries(Append(wire["A"], Head(hsOut["B"])), Tail(hsOut["B"]), u, r, n)
    BY <1>1, <1>2, FlushCarries
  <2> QED
    BY <1>1, <2>2
<1>4. \A r \in Nat, n \in Nat : \A u : Carries(wire["B"], hsOut["A"], u, r, n) => Carries(wire'["B"], hsOut'["A"], u, r, n)
  BY <1>1
<1>5. CASE Encrypted
  <2>1. PICK r \in 0..6, m \in {1, 7}, q \in {0, 1, 5, 7}, n \in {0, 2, 6} :
          /\ EncryptedA(hs["A"], r, m) /\ EncryptedB(hs["B"], q, n)
          /\ Carries(wire["A"], hsOut["B"], BScript, r, n) /\ Carries(wire["B"], hsOut["A"], AScript, q, m)
    BY <1>5 DEF Encrypted, ToA, ToB
  <2>2. Carries(wire'["A"], hsOut'["B"], BScript, r, n) /\ Carries(wire'["B"], hsOut'["A"], AScript, q, m)
    <3>1. r \in Nat /\ m \in Nat /\ q \in Nat /\ n \in Nat
      OBVIOUS
    <3> QED
      BY <1>3, <1>4, <2>1, <3>1
  <2>3. EncryptedA(hs'["A"], r, m) /\ EncryptedB(hs'["B"], q, n)
    BY <1>1, <2>1
  <2>4. Encrypted'
    BY <2>2, <2>3 DEF Encrypted, ToA, ToB
  <2> QED
    BY <2>4 DEF OnTrack
<1>6. CASE Plaintext
  <2>1. PICK r \in 0..3, q \in 0..2, n \in {1, 3} :
          /\ hs["A"].mode # "REQUIRED" /\ (hs["A"].mode = "CLEAR" \/ hsAccidents > 0)
          /\ r = 0 => hsAccidents > 0
          /\ PlainA(hs["A"], r) /\ PlainB(hs["B"], q, n)
          /\ Carries(wire["A"], hsOut["B"], Leftover, r, n) /\ Carries(wire["B"], hsOut["A"], Hello, q, 2)
    BY <1>6 DEF Plaintext, ToA, ToB
  <2>2. Carries(wire'["A"], hsOut'["B"], Leftover, r, n) /\ Carries(wire'["B"], hsOut'["A"], Hello, q, 2)
    <3>1. r \in Nat /\ 2 \in Nat /\ q \in Nat /\ n \in Nat
      OBVIOUS
    <3> QED
      BY <1>3, <1>4, <2>1, <3>1
  <2>3. /\ hs'["A"].mode # "REQUIRED" /\ (hs'["A"].mode = "CLEAR" \/ hsAccidents' > 0)
        /\ r = 0 => hsAccidents' > 0
        /\ PlainA(hs'["A"], r) /\ PlainB(hs'["B"], q, n)
    BY <1>1, <2>1
  <2>4. Plaintext'
    BY <2>2, <2>3 DEF Plaintext, ToA, ToB
  <2> QED
    BY <2>4 DEF OnTrack
<1>7. CASE Refused
  BY <1>1, <1>7 DEF Refused
<1>8. CASE Astray
  <2>1. wire["A"] \in Seq(NoHello) /\ hsOut["B"] \in Seq(NoHello)
    BY <1>8 DEF Astray, ToB
  <2>2. Append(wire["A"], Head(hsOut["B"])) \in Seq(NoHello) /\ Tail(hsOut["B"]) \in Seq(NoHello)
    BY <1>1, <2>1, SeqFlushed
  <2>3. \/ hs["B"].state \in {"HANDSHAKE", "YA"} /\ Carries(wire'["B"], hsOut'["A"], KeyAhead, 0, 3)
        \/ hs["B"].state = "PAD_A" /\ \E q \in 1..3 : Carries(wire'["B"], hsOut'["A"], KeyAhead, q, 3)
    <3>1. 0 \in Nat /\ 3 \in Nat /\ \A q \in 1..3 : q \in Nat
      OBVIOUS
    <3> QED
      BY <1>4, <1>8, <3>1 DEF Astray, ToB
  <2>4. Astray'
    BY <1>1, <1>8, <2>2, <2>3 DEF Astray, ToB
  <2> QED
    BY <2>4 DEF OnTrack
<1> QED
  BY <1>5, <1>6, <1>7, <1>8 DEF OnTrack

LEMMA FlushMayTry ==
    ASSUME HsTypes, MayTryAgain, NEW e \in Ends, HsFlush(e)
    PROVE  MayTryAgain'
<1>1. CASE e = "A"
  <2>1. /\ hs' = hs /\ hsOut["A"] # <<>> /\ hsOut'["A"] = Tail(hsOut["A"])
    BY <1>1, EndsAre, FlushIs
  <2>2. hsOut["A"] \in Seq(Token)
    BY EndsAre, TypesAre
  <2>3. hs["A"].state = "YB" => hsOut'["A"] = <<>>
    <3> SUFFICES ASSUME hs["A"].state = "YB"
                 PROVE  hsOut'["A"] = <<>>
      OBVIOUS
    <3>1. Len(hsOut["A"]) = 1
      BY <2>1 DEF MayTryAgain
    <3>2. Tail(hsOut["A"]) \in Seq(Token) /\ Len(Tail(hsOut["A"])) = 0
      BY <2>1, <2>2, <3>1, TokenGone
    <3> QED
      BY <2>1, <3>2, EmptySeq
  <2>4. hs["A"].state = "VC" => hsOut'["A"] \in Seq(NoStart)
    BY <2>1, SeqHas DEF MayTryAgain
  <2> QED
    BY <2>1, <2>3, <2>4 DEF MayTryAgain, CipherAt
<1>2. CASE e = "B"
  <2>1. hs' = hs /\ hsOut["B"] # <<>> /\ hsOut'["A"] = hsOut["A"]
    BY <1>2, EndsAre, FlushIs
  <2> QED
    BY <2>1 DEF MayTryAgain, CipherAt
<1> QED
  BY <1>1, <1>2, EndsAre

LEMMA FlushStep ==
    ASSUME HsInv, NEW e \in Ends, HsFlush(e)
    PROVE  HsInv'
<1>0. HsTypes /\ ~foreign
  BY DEF HsInv
<1>1. HsTypes' /\ hs' = hs /\ foreign' = foreign /\ hsAccidents' = hsAccidents
  BY <1>0, FlushIs
<1>2. (Failing("A")' <=> Failing("A")) /\ (Failing("B")' <=> Failing("B")) /\ (Trouble' <=> Trouble)
  BY <1>1 DEF Failing, Trouble
<1>3. Failing("A")' \/ Failing("B")' => Trouble'
  BY <1>2 DEF HsInv
<1>4. ~Failing("A")' => MayTryAgain'
  BY <1>0, <1>2, FlushMayTry DEF HsInv
<1>5. ~Failing("A")' /\ ~Failing("B")' => OnTrack'
  <2> SUFFICES ASSUME ~Failing("A"), ~Failing("B")
               PROVE  OnTrack'
    BY <1>2
  <2>1. OnTrack
    BY DEF HsInv
  <2>2. CASE e = "A"
    BY <1>0, <2>1, <2>2, AFlushOnTrack
  <2>3. CASE e = "B"
    BY <1>0, <2>1, <2>3, BFlushOnTrack
  <2> QED
    BY <2>2, <2>3, EndsAre
<1> QED
  BY <1>0, <1>1, <1>3, <1>4, <1>5, HsInvNext

LEMMA FailStep ==
    ASSUME HsInv, NEW e \in Ends, hs' = [hs EXCEPT ![e] = To(hs[e], "failed")],
           hsOut' = hsOut, wire' = wire, foreign' = foreign,
           hsAccidents' \in Nat, hsAccidents' >= hsAccidents, hsAccidents' > 0 \/ Trouble
    PROVE  HsInv'
<1>0. HsTypes /\ ~foreign
  BY DEF HsInv
<1>1. hs[e] \in EndRecord /\ "failed" \in NotYet \cup Ended
  BY <1>0, TypesAre DEF Ended
<1>3. /\ To(hs[e], "failed") \in EndRecord /\ To(hs[e], "failed").state = "failed"
      /\ To(hs[e], "failed").mode = hs[e].mode
  BY <1>1, ToIs
<1>4. /\ hs' \in [Ends -> EndRecord] /\ hs'[e].state = "failed" /\ hs'[e].mode = hs[e].mode
      /\ \A d \in Ends \ {e} : hs'[d] = hs[d]
  <2> DEFINE x == To(hs[e], "failed")
  <2>1. x \in EndRecord /\ x.state = "failed" /\ x.mode = hs[e].mode /\ hs' = [hs EXCEPT ![e] = x]
    BY <1>3
  <2> HIDE DEF x
  <2> QED
    BY <1>0, <2>1 DEF HsTypes
<1>5. HsTypes'
  BY <1>0, <1>4 DEF HsTypes
<1>6. \A d \in Ends : hs'[d].mode = hs[d].mode
  BY <1>4
<1>7. Trouble'
  <2>1. CASE hsAccidents' > 0
    BY <2>1 DEF Trouble
  <2>2. CASE Trouble
    BY <1>0, <1>6, <2>2, EndsAre, TroubleKept
  <2> QED
    BY <2>1, <2>2
<1>8. Failing(e)'
  BY <1>4 DEF Failing
<1>9. ~(~Failing("A")' /\ ~Failing("B")')
  BY <1>8, EndsAre
<1>10. ~Failing("A")' => MayTryAgain'
  <2> SUFFICES ASSUME ~Failing("A")'
               PROVE  MayTryAgain'
    OBVIOUS
  <2>1. hs'["A"] = hs["A"]
    BY <1>4, <1>8, EndsAre DEF Failing
  <2>2. MayTryAgain
    BY <2>1 DEF HsInv, Failing
  <2> QED
    BY <2>1, <2>2 DEF MayTryAgain, CipherAt
<1> QED
  BY <1>0, <1>5, <1>7, <1>9, <1>10, HsInvNext

LEMMA FreshIs ==
    ASSUME NEW e, NEW m \in Modes
    PROVE  LET f == Fresh(e, m) IN
           /\ f \in EndRecord /\ f.state = "HANDSHAKE" /\ f.mode = m /\ f.enc = "plaintext"
           /\ f.encPos = 0 /\ f.decPos = 0 /\ f.sentHello = FALSE /\ f.retried = FALSE
BY DEF Fresh, EndRecord, NotYet, CryptoOptions

LEMMA RetriedIs ==
    ASSUME NEW h \in EndRecord
    PROVE  LET g == [h EXCEPT !.sentHello = TRUE, !.retried = TRUE] IN
           /\ g \in EndRecord /\ g.state = h.state /\ g.mode = h.mode /\ g.enc = h.enc
           /\ g.encPos = h.encPos /\ g.decPos = h.decPos /\ g.sentHello = TRUE /\ g.retried = TRUE
BY DEF EndRecord

LEMMA ReconnectedIs ==
    ASSUME HsTypes, NEW end \in {"failed", "HANDSHAKE"}, NEW left \in BOOLEAN, Reconnected(end, left),
           hsAccidents' \in Nat
    PROVE  /\ HsTypes' /\ wire'["B"] = <<>> /\ wire'["A"] = (IF left THEN <<Plain("Junk")>> ELSE <<>>)
           /\ hsOut'["B"] = <<>> /\ hsOut'["A"] = hsOut["A"] \o Encrypt(hs["A"], Hello)
           /\ hs'["B"] = Fresh("B", hs["B"].mode)
           /\ hs'["A"].state = end /\ hs'["A"].mode = hs["A"].mode /\ hs'["A"].enc = hs["A"].enc
           /\ hs'["A"].sentHello = TRUE /\ hs'["A"].decPos = hs["A"].decPos
           /\ ~Keyed(hs["A"]) => hs'["A"].encPos = hs["A"].encPos
<1>1. /\ hs["A"] \in EndRecord /\ hs["B"] \in EndRecord /\ hsOut["A"] \in Seq(Token)
      /\ hs["B"].mode \in Modes /\ end \in NotYet \cup Ended
  BY EndsAre, TypesAre, EndIs DEF NotYet, Ended
<1> DEFINE w == Wrote(hs["A"], Hello)
           t == To(w, end)
           x == [t EXCEPT !.sentHello = TRUE, !.retried = TRUE]
           f == Fresh("B", hs["B"].mode)
           enc == Encrypt(hs["A"], Hello)
           junk == <<Plain("Junk")>>
<1>2. /\ w \in EndRecord /\ w.mode = hs["A"].mode /\ w.enc = hs["A"].enc /\ w.decPos = hs["A"].decPos
      /\ w.encPos = (IF Keyed(hs["A"]) THEN hs["A"].encPos + Len(Hello) ELSE hs["A"].encPos)
  BY <1>1, HelloIs, WroteIs
<1>3. /\ f \in EndRecord
  BY <1>1, FreshIs
<1>4. enc \in Seq(Token)
  BY <1>1, HelloIs, EncryptIs
<1>5. junk \in Seq(Token)
  BY PlainIs DEF Whats
<1>6. /\ hs' = [hs EXCEPT !["A"] = x, !["B"] = f]
      /\ wire' = [e \in Ends |-> IF e = "A" /\ left THEN junk ELSE <<>>]
      /\ hsOut' = [e \in Ends |-> IF e = "A" THEN hsOut["A"] \o enc ELSE <<>>]
  BY DEF Reconnected
<1>7. t \in EndRecord /\ t.state = end /\ t.mode = w.mode /\ t.enc = w.enc /\ t.encPos = w.encPos /\ t.decPos = w.decPos
  <2> HIDE DEF w
  <2> QED
    BY <1>1, <1>2, ToIs
<1>8. x \in EndRecord /\ x.state = end /\ x.mode = t.mode /\ x.enc = t.enc /\ x.encPos = t.encPos
      /\ x.decPos = t.decPos /\ x.sentHello = TRUE
  <2> HIDE DEF t
  <2> QED
    BY <1>7, RetriedIs
<1>9. hsOut["A"] \o enc \in Seq(Token)
  BY <1>1, <1>4, TokensJoined
<1> HIDE DEF w, t, x, f, enc, junk
<1>10. hs' \in [Ends -> EndRecord] /\ hs'["A"] = x /\ hs'["B"] = f
  BY <1>3, <1>6, <1>8, EndsAre DEF HsTypes
<1>11. wire' \in [Ends -> Seq(Token)] /\ wire'["B"] = <<>> /\ wire'["A"] = (IF left THEN junk ELSE <<>>)
  BY <1>5, <1>6, EndsAre
<1>12. hsOut' \in [Ends -> Seq(Token)] /\ hsOut'["B"] = <<>> /\ hsOut'["A"] = hsOut["A"] \o enc
  BY <1>6, <1>9, EndsAre
<1>13. HsTypes'
  BY <1>10, <1>11, <1>12 DEF HsTypes
<1>14. /\ hs'["A"].state = end /\ hs'["A"].mode = hs["A"].mode /\ hs'["A"].enc = hs["A"].enc
       /\ hs'["A"].sentHello = TRUE /\ hs'["A"].decPos = hs["A"].decPos
       /\ ~Keyed(hs["A"]) => hs'["A"].encPos = hs["A"].encPos
  BY <1>2, <1>7, <1>8, <1>10
<1> QED
  BY <1>10, <1>11, <1>12, <1>13, <1>14 DEF f, enc, junk

LEMMA AccidentIs ==
    ASSUME HsTypes, Accident
    PROVE  hsAccidents' \in Nat /\ hsAccidents' >= hsAccidents /\ hsAccidents' > 0
BY DEF HsTypes, Accident

LEMMA TimeoutStep ==
    ASSUME HsInv, NEW e \in Ends, HsTimeout(e)
    PROVE  HsInv'
<1>1. hsAccidents' \in Nat /\ hsAccidents' >= hsAccidents /\ hsAccidents' > 0
  BY AccidentIs DEF HsInv, HsTimeout
<1>2. hs' = [hs EXCEPT ![e] = To(hs[e], "failed")] /\ hsOut' = hsOut /\ wire' = wire /\ foreign' = foreign
  BY DEF HsTimeout, To
<1> QED
  BY <1>1, <1>2, FailStep

LEMMA UnluckyStep ==
    ASSUME HsInv, UnluckyKey
    PROVE  HsInv'
<1>1. hsAccidents' \in Nat /\ hsAccidents' >= hsAccidents /\ hsAccidents' > 0
  BY AccidentIs DEF HsInv, UnluckyKey
<1>2. hs' = [hs EXCEPT !["B"] = To(hs["B"], "failed")] /\ hsOut' = hsOut /\ wire' = wire /\ foreign' = foreign
  BY DEF UnluckyKey, To
<1>3. "B" \in Ends
  BY EndsAre
<1> QED
  BY <1>1, <1>2, <1>3, FailStep

\* A gives the connection up: no longer over uTP, and not at all.
LEMMA GivenUpStep ==
    ASSUME HsInv, Reconnected("failed", FALSE), foreign' = foreign,
           hsAccidents' \in Nat, hsAccidents' >= hsAccidents, hsAccidents' > 0 \/ Trouble
    PROVE  HsInv'
<1>0. HsTypes /\ ~foreign
  BY DEF HsInv
<1>1. HsTypes' /\ hs'["A"].state = "failed" /\ hs'["A"].mode = hs["A"].mode /\ hs'["B"] = Fresh("B", hs["B"].mode)
  BY <1>0, ReconnectedIs
<1>2. hs'["B"].mode = hs["B"].mode
  BY <1>1 DEF Fresh
<1>3. Trouble'
  <2>1. CASE hsAccidents' > 0
    BY <2>1 DEF Trouble
  <2>2. CASE Trouble
    BY <1>0, <1>1, <1>2, <2>2, TroubleKept
  <2> QED
    BY <2>1, <2>2
<1>4. Failing("A")'
  BY <1>1 DEF Failing
<1> QED
  BY <1>0, <1>1, <1>3, <1>4, HsInvNext

\* The retry with a plaintext handshake.
LEMMA RetryStep ==
    ASSUME HsInv, NEW left \in BOOLEAN, left => wire["A"] # <<>>, MayRetry(hs["A"]),
           Reconnected("HANDSHAKE", left), foreign' = foreign,
           hsAccidents' \in Nat, hsAccidents' >= hsAccidents, hsAccidents' > 0 \/ Trouble
    PROVE  HsInv'
<1>0. HsTypes /\ ~foreign
  BY DEF HsInv
<1> DEFINE h == hs["A"]
           o == hsOut["A"]
<1>1. /\ h \in EndRecord /\ o \in Seq(Token) /\ hs["B"].mode \in Modes
  BY <1>0, EndsAre, TypesAre, EndIs
<1>2. h.state \in {"YB", "VC"} /\ h.mode # "REQUIRED"
  BY DEF MayRetry
<1>3. MayTryAgain
  BY <1>2 DEF HsInv, Failing
<1>4. h.mode # "CLEAR"
  BY <1>2, <1>3 DEF MayTryAgain
<1>5. hsAccidents' > 0
  <2>1. CASE Trouble
    <3>1. hsAccidents > 0 /\ hsAccidents \in Nat
      BY <1>0, <1>4, <2>1 DEF Trouble, HsTypes
    <3> QED
      BY <3>1
  <2> QED
    BY <2>1
<1>6. /\ HsTypes' /\ wire'["B"] = <<>> /\ wire'["A"] = (IF left THEN <<Plain("Junk")>> ELSE <<>>)
      /\ hsOut'["B"] = <<>> /\ hsOut'["A"] = o \o Encrypt(h, Hello)
      /\ hs'["B"] = Fresh("B", hs["B"].mode)
      /\ hs'["A"].state = "HANDSHAKE" /\ hs'["A"].mode = h.mode /\ hs'["A"].enc = h.enc
      /\ hs'["A"].sentHello = TRUE /\ hs'["A"].decPos = h.decPos
      /\ ~Keyed(h) => hs'["A"].encPos = h.encPos
  BY <1>0, ReconnectedIs
<1>7. /\ hs'["B"].state = "HANDSHAKE" /\ hs'["B"].enc = "plaintext"
      /\ hs'["B"].encPos = 0 /\ hs'["B"].decPos = 0 /\ ~hs'["B"].sentHello
  <2> DEFINE m == hs["B"].mode
  <2>1. m \in Modes
    BY <1>1
  <2> HIDE DEF m
  <2>2. LET f == Fresh("B", m) IN
        /\ f.state = "HANDSHAKE" /\ f.enc = "plaintext" /\ f.encPos = 0 /\ f.decPos = 0 /\ ~f.sentHello
    BY <2>1, FreshIs
  <2>3. hs'["B"] = Fresh("B", m)
    BY <1>6 DEF m
  <2> QED
    BY <2>2, <2>3
<1>8. Trouble'
  BY <1>5 DEF Trouble
<1>9. ~Failing("A")' => MayTryAgain'
  BY <1>6 DEF MayTryAgain
<1>10. OnTrack'
  <2>0. Plain("Junk") \in NoHello /\ <<>> \in Seq(NoHello) /\ <<>> \in Seq(NoStart)
    BY PlainIs DEF NoHello, Whats
  <2>1. CASE h.state = "YB" /\ o = <<>>
    <3>1. h.enc = "plaintext" /\ h.encPos = 0 /\ h.decPos = 0 /\ ~Keyed(h)
      BY <1>3, <2>1 DEF MayTryAgain, CipherAt, Keyed
    <3>2. hsOut'["A"] = Hello
      <4>1. Encrypt(h, Hello) = Hello
        BY <1>1, <3>1, HelloIs, EncryptIs
      <4> QED
        BY <1>6, <2>1, <4>1, HelloIs
    <3>3. Carries(wire'["B"], hsOut'["A"], Hello, 0, 2)
      BY <1>6, <3>2, HelloIs DEF Carries
    <3> DEFINE r == IF left THEN 0 ELSE 1
    <3>4. Carries(wire'["A"], hsOut'["B"], Leftover, r, 1)
      <4>1. CASE left
        BY <1>6, <4>1 DEF Carries, Leftover
      <4>2. CASE ~left
        BY <1>6, <4>2 DEF Carries
      <4> QED
        BY <4>1, <4>2
    <3>5. r \in 0..3 /\ r \in {0, 1} /\ 0 \in 0..2 /\ 1 \in {1, 3}
      OBVIOUS
    <3> HIDE DEF r
    <3>6. PlainA(hs'["A"], r)
      BY <1>6, <3>1, <3>5 DEF PlainA, CipherAt
    <3>7. PlainB(hs'["B"], 0, 1)
      BY <1>7 DEF PlainB, CipherAt
    <3>8. hs'["A"].mode # "REQUIRED" /\ hsAccidents' > 0
      BY <1>2, <1>5, <1>6
    <3>9. Plaintext'
      BY <3>3, <3>4, <3>5, <3>6, <3>7, <3>8 DEF Plaintext, ToA, ToB
    <3> QED
      BY <3>9 DEF OnTrack
  <2>2. CASE h.state = "YB" /\ o # <<>>
    <3>1. /\ h.enc = "plaintext" /\ ~Keyed(h) /\ Len(o) = 1 /\ o[1] = Plain("Ya") /\ wire["A"] = <<>>
      BY <1>3, <2>2 DEF MayTryAgain, CipherAt, Keyed
    <3>2. hsOut'["A"] = o \o Hello
      BY <1>1, <1>6, <3>1, HelloIs, EncryptIs
    <3> DEFINE x == o \o Hello
    <3>3. x \in Seq(Token) /\ Len(x) = Len(o) + Len(Hello)
          /\ (\A i \in 1..Len(o) : x[i] = o[i]) /\ (\A i \in 1..Len(Hello) : x[Len(o) + i] = Hello[i])
      BY <1>1, HelloIs, TokensJoined
    <3> HIDE DEF x
    <3>4. Len(x) = 3 /\ x[1] = Plain("Ya")
      BY <3>1, <3>3, HelloIs
    <3>5. x[1 + 1] = Hello[1] /\ x[1 + 2] = Hello[2]
      BY <3>1, <3>3, HelloIs
    <3>6. x[2] = Plain("HS") /\ x[3] = Plain("ID")
      BY <3>5, HelloIs
    <3>7. Carries(wire'["B"], x, KeyAhead, 0, 3)
      <4>1. Len(wire'["B"]) = 0
        BY <1>6
      <4>2. \A i \in 1..Len(x) : x[i] = KeyAhead[i]
        <5> TAKE i \in 1..Len(x)
        <5>1. i = 1 \/ i = 2 \/ i = 3
          BY <3>4
        <5> QED
          BY <5>1, <3>4, <3>6, KeyAheadIs
      <4>3. \A i \in 1..Len(x) : 0 + Len(wire'["B"]) + i = i
        BY <3>4, <4>1
      <4> QED
        BY <3>4, <4>1, <4>2, <4>3 DEF Carries
    <3>8. hsOut'["A"] = x
      BY <3>2 DEF x
    <3>9. ~left
      BY <3>1
    <3>10. wire'["A"] \in Seq(NoHello) /\ hsOut'["B"] \in Seq(NoHello)
      BY <1>6, <2>0, <3>9
    <3>11. Astray'
      BY <1>5, <1>6, <1>7, <3>7, <3>8, <3>10 DEF Astray, ToB
    <3> QED
      BY <3>11 DEF OnTrack
  <2>3. CASE h.state = "VC"
    <3>1. h.enc = "crypto" /\ h.encPos > 0 /\ o \in Seq(NoStart) /\ Keyed(h)
      BY <1>3, <2>3 DEF MayTryAgain, Keyed
    <3> DEFINE x == Encrypt(h, Hello)
    <3>2. /\ x \in Seq(Token) /\ Len(x) = 2
          /\ \A i \in 1..2 : x[i].what = Hello[i].what
          /\ \A i \in 1..2 : x[i] = [Hello[i] EXCEPT !.pos = h.encPos + i - 1]
      <4>1. Hello \in Seq(Token) /\ Len(Hello) = 2
        BY HelloIs
      <4>2. /\ x \in Seq(Token) /\ Len(x) = Len(Hello)
            /\ \A i \in 1..Len(Hello) : x[i].what = Hello[i].what
            /\ Keyed(h) => \A i \in 1..Len(Hello) : x[i] = [Hello[i] EXCEPT !.pos = h.encPos + i - 1]
        BY <1>1, <4>1, EncryptIs, ZenonT(20)
      <4> QED
        BY <3>1, <4>1, <4>2
    <3> HIDE DEF x
    <3>3. Hello[1] = Plain("HS") /\ Hello[2] = Plain("ID") /\ h.encPos \in Nat
      BY <1>1, HelloIs, EndIs
    <3>4. x[1].what = "HS" /\ x[2].what = "ID" /\ x[1] \in Token /\ x[2] \in Token
      <4>1. x[1].what = Hello[1].what /\ x[2].what = Hello[2].what
        BY <3>2
      <4>2. Hello[1].what = "HS" /\ Hello[2].what = "ID"
        BY <3>3, KeyAheadIs
      <4>3. x[1] \in Token /\ x[2] \in Token
        <5>1. \A i \in 1..Len(x) : x[i] \in Token
          BY <3>2, TokenSeq
        <5> QED
          BY <3>2, <5>1
      <4> QED
        BY <4>1, <4>2, <4>3
    <3>5. x[1].pos > 0 /\ x[2].pos > 0
      <4>1. x[1] = [Hello[1] EXCEPT !.pos = h.encPos + 1 - 1] /\ x[2] = [Hello[2] EXCEPT !.pos = h.encPos + 2 - 1]
        BY <3>2
      <4>2. x[1].pos = h.encPos + 1 - 1 /\ x[2].pos = h.encPos + 2 - 1
        BY <3>3, <4>1 DEF Plain
      <4> QED
        BY <3>1, <3>3, <4>2
    <3>6. x[1] \in NoStart /\ x[2] \in NoStart
      BY <3>4, <3>5, NotAStart
    <3>7. \A i \in 1..Len(x) : x[i] \in NoStart
      <4> TAKE i \in 1..Len(x)
      <4>1. i = 1 \/ i = 2
        BY <3>2
      <4> QED
        BY <4>1, <3>6
    <3>8. x \in Seq(NoStart)
      BY <3>2, <3>7, NoStartSeq
    <3>9. o \o x \in Seq(NoStart)
      BY <3>1, <3>8, SeqWritten
    <3>10. hsOut'["A"] = o \o x
      BY <1>6 DEF x
    <3>11. wire'["A"] \in Seq(NoHello)
      <4>1. <<Plain("Junk")>> \in Seq(NoHello)
        BY <2>0
      <4> QED
        BY <1>6, <2>0, <4>1
    <3>12. Refused'
      BY <1>5, <1>6, <1>7, <2>0, <3>9, <3>10, <3>11 DEF Refused
    <3> QED
      BY <3>12 DEF OnTrack
  <2> QED
    BY <1>2, <2>1, <2>2, <2>3
<1> QED
  BY <1>0, <1>6, <1>8, <1>9, <1>10, HsInvNext

LEMMA ErrorStep ==
    ASSUME HsInv, NEW e \in Ends, HsGotError(e)
    PROVE  HsInv'
<1>0. HsTypes /\ hsAccidents \in Nat
  BY DEF HsInv, HsTypes
<1>1. /\ IF hs[Peer(e)].state = "failed" THEN UNCHANGED hsAccidents ELSE Accident
      /\ foreign' = foreign
  BY DEF HsGotError
<1>2. hsAccidents' \in Nat /\ hsAccidents' >= hsAccidents /\ (hsAccidents' > 0 \/ Trouble)
  <2>1. CASE hs[Peer(e)].state = "failed"
    <3>1. Trouble
      BY <2>1, EndsAre DEF HsInv, Failing
    <3> QED
      BY <1>0, <1>1, <2>1, <3>1
  <2>2. CASE hs[Peer(e)].state # "failed"
    BY <1>0, <1>1, <2>2, AccidentIs
  <2> QED
    BY <2>1, <2>2
<1>3. \/ Reconnected("failed", FALSE)
      \/ /\ e = "A" /\ MayRetry(hs[e])
         /\ \E left \in BOOLEAN : /\ left => wire["A"] # <<>>
                                  /\ Reconnected("HANDSHAKE", left)
      \/ hs' = [hs EXCEPT ![e] = To(hs[e], "failed")] /\ hsOut' = hsOut /\ wire' = wire
  BY DEF HsGotError, To
<1>4. CASE Reconnected("failed", FALSE)
  BY <1>1, <1>2, <1>4, GivenUpStep
<1>5. CASE /\ e = "A" /\ MayRetry(hs[e])
           /\ \E left \in BOOLEAN : /\ left => wire["A"] # <<>>
                                    /\ Reconnected("HANDSHAKE", left)
  <2>1. PICK left \in BOOLEAN : (left => wire["A"] # <<>>) /\ Reconnected("HANDSHAKE", left)
    BY <1>5
  <2>2. MayRetry(hs["A"])
    BY <1>5
  <2> QED
    BY <1>1, <1>2, <2>1, <2>2, RetryStep
<1>6. CASE hs' = [hs EXCEPT ![e] = To(hs[e], "failed")] /\ hsOut' = hsOut /\ wire' = wire
  BY <1>1, <1>2, <1>6, FailStep
<1> QED
  BY <1>3, <1>4, <1>5, <1>6

LEMMA HsStep ==
    ASSUME HsInv, HsNext
    PROVE  HsInv'
BY ReadStep, FlushStep, TimeoutStep, ErrorStep, UnluckyStep DEF HsNext

LEMMA HsStutter ==
    ASSUME HsInv, UNCHANGED hsVars
    PROVE  HsInv'
<1>1. hs' = hs /\ hsOut' = hsOut /\ wire' = wire /\ foreign' = foreign /\ hsAccidents' = hsAccidents
  BY DEF hsVars
<1>2. HsTypes' /\ ~foreign'
  BY <1>1 DEF HsInv, HsTypes
<1>3. (Failing("A")' <=> Failing("A")) /\ (Failing("B")' <=> Failing("B")) /\ (Trouble' <=> Trouble)
  BY <1>1 DEF Failing, Trouble
<1>4. MayTryAgain => MayTryAgain'
  BY <1>1 DEF MayTryAgain, CipherAt
<1>5. OnTrack => OnTrack'
  <2>1. (Encrypted => Encrypted') /\ (Plaintext => Plaintext')
    BY <1>1 DEF Encrypted, Plaintext, ToA, ToB
  <2>2. (Refused => Refused') /\ (Astray => Astray')
    BY <1>1 DEF Refused, Astray, ToB
  <2> QED
    BY <2>1, <2>2 DEF OnTrack
<1> QED
  BY <1>2, <1>3, <1>4, <1>5 DEF HsInv

-----------------------------------------------------------------------------
(* The first state, and what the invariant says.                           *)

LEMMA HsStart ==
    ASSUME HsInit, ForeignClients \subseteq {FALSE}
    PROVE  HsInv
<1>1. PICK a \in Modes, b \in Modes :
         /\ hs = [e \in Ends |->
              IF e = "B" THEN Fresh(e, b)
              ELSE [Fresh(e, a) EXCEPT !.state = IF SpeaksClear(a) THEN "HANDSHAKE" ELSE "YB",
                                       !.sentHello = SpeaksClear(a)]]
         /\ hsOut = [e \in Ends |-> IF e = "B" THEN <<>>
                                    ELSE IF SpeaksClear(a) THEN Hello ELSE <<Plain("Ya")>>]
  BY DEF HsInit
<1>2. ~foreign /\ hsAccidents = 0 /\ wire = [e \in Ends |-> <<>>]
  BY DEF HsInit
<1> DEFINE f == Fresh("A", a)
           s == IF SpeaksClear(a) THEN "HANDSHAKE" ELSE "YB"
           y == <<Plain("Ya")>>
<1>3. f \in EndRecord /\ f.mode = a /\ f.enc = "plaintext" /\ f.encPos = 0 /\ f.decPos = 0 /\ ~f.retried
  BY FreshIs
<1>4. s \in NotYet \cup Ended /\ SpeaksClear(a) \in BOOLEAN
  BY DEF NotYet, SpeaksClear
<1> DEFINE x == [f EXCEPT !.state = s, !.sentHello = SpeaksClear(a)]
<1>5. /\ x \in EndRecord /\ x.state = s /\ x.mode = a /\ CipherAt(x, "plaintext", 0, 0)
      /\ (a = "CLEAR" => x.sentHello) /\ ~x.retried
  <2> HIDE DEF f, s
  <2> QED
    BY <1>3, <1>4 DEF EndRecord, CipherAt, SpeaksClear
<1>6. hs["A"] = x /\ hs["B"] = Fresh("B", b)
  BY <1>1, EndsAre
<1>7. /\ hs["B"] \in EndRecord /\ hs["B"].state = "HANDSHAKE" /\ CipherAt(hs["B"], "plaintext", 0, 0)
      /\ ~hs["B"].sentHello
  <2>1. LET g == Fresh("B", b) IN
        /\ g \in EndRecord /\ g.state = "HANDSHAKE" /\ g.enc = "plaintext" /\ g.encPos = 0 /\ g.decPos = 0
        /\ ~g.sentHello
    BY FreshIs
  <2> QED
    BY <1>6, <2>1 DEF CipherAt
<1>8. y \in Seq(Token) /\ Len(y) = 1 /\ y[1] = Plain("Ya") /\ y # <<>>
  BY PlainIs DEF Whats
<1>9. hsOut["B"] = <<>> /\ hsOut["A"] = IF a = "CLEAR" THEN Hello ELSE y
  BY <1>1, EndsAre DEF SpeaksClear
<1>10. wire["A"] = <<>> /\ wire["B"] = <<>>
  BY <1>2, EndsAre
<1>11. s = IF a = "CLEAR" THEN "HANDSHAKE" ELSE "YB"
  BY DEF SpeaksClear
<1> HIDE DEF x, y, s, f
<1>12. HsTypes
  <2>1. hs \in [Ends -> EndRecord]
    <3>1. DOMAIN hs = Ends /\ hs = [e \in DOMAIN hs |-> hs[e]]
      BY <1>1
    <3>2. \A e \in Ends : hs[e] \in EndRecord
      BY <1>5, <1>6, <1>7, EndsAre
    <3> QED
      BY <3>1, <3>2
  <2>2. hsOut \in [Ends -> Seq(Token)]
    <3>1. DOMAIN hsOut = Ends /\ hsOut = [e \in DOMAIN hsOut |-> hsOut[e]]
      BY <1>1
    <3>2. \A e \in Ends : hsOut[e] \in Seq(Token)
      <4>1. hsOut["B"] \in Seq(Token)
        BY <1>9
      <4>2. hsOut["A"] \in Seq(Token)
        BY <1>8, <1>9, HelloIs
      <4> QED
        BY <4>1, <4>2, EndsAre
    <3> QED
      BY <3>1, <3>2
  <2>3. wire \in [Ends -> Seq(Token)] /\ hsAccidents \in Nat
    BY <1>2
  <2> QED
    BY <2>1, <2>2, <2>3 DEF HsTypes
<1>13. ~Failing("A") /\ ~Failing("B")
  BY <1>5, <1>6, <1>7, <1>11 DEF Failing
<1>14. MayTryAgain
  <2>1. CASE a = "CLEAR"
    BY <1>5, <1>6, <1>11, <2>1 DEF MayTryAgain
  <2>2. CASE a # "CLEAR"
    <3>1. hs["A"].state = "YB" /\ hs["A"].mode # "CLEAR" /\ CipherAt(hs["A"], "plaintext", 0, 0)
      BY <1>5, <1>6, <1>11, <2>2
    <3>2. Len(hsOut["A"]) = 1 /\ hsOut["A"][1] = Plain("Ya")
      BY <1>8, <1>9, <2>2
    <3> QED
      BY <1>9, <1>10, <3>1, <3>2 DEF MayTryAgain
  <2> QED
    BY <2>1, <2>2
<1>15. OnTrack
  <2>1. CASE a = "CLEAR"
    <3>1. hsOut["A"] = Hello /\ hs["A"].state = "HANDSHAKE" /\ hs["A"].mode = "CLEAR" /\ hs["A"].sentHello
      BY <1>5, <1>6, <1>9, <1>11, <2>1
    <3>2. PlainA(hs["A"], 1)
      BY <1>5, <1>6, <3>1 DEF PlainA
    <3>3. PlainB(hs["B"], 0, 1)
      BY <1>7 DEF PlainB
    <3>4. Carries(wire["A"], hsOut["B"], Leftover, 1, 1)
      BY <1>9, <1>10 DEF Carries
    <3>5. Carries(wire["B"], hsOut["A"], Hello, 0, 2)
      BY <1>10, <3>1, HelloIs DEF Carries
    <3>6. 1 \in 0..3 /\ 0 \in 0..2 /\ 1 \in {1, 3} /\ 1 # 0
      OBVIOUS
    <3>7. Plaintext
      BY <3>1, <3>2, <3>3, <3>4, <3>5, <3>6 DEF Plaintext, ToA, ToB
    <3> QED
      BY <3>7 DEF OnTrack
  <2>2. CASE a # "CLEAR"
    <3>1. hsOut["A"] = y /\ hs["A"].state = "YB" /\ hs["A"].mode # "CLEAR"
      BY <1>5, <1>6, <1>9, <1>11, <2>2
    <3>2. EncryptedA(hs["A"], 0, 1)
      BY <1>5, <1>6, <3>1 DEF EncryptedA
    <3>3. EncryptedB(hs["B"], 0, 0)
      BY <1>7 DEF EncryptedB
    <3>4. Carries(wire["A"], hsOut["B"], BScript, 0, 0)
      BY <1>9, <1>10 DEF Carries
    <3>5. Carries(wire["B"], hsOut["A"], AScript, 0, 1)
      <4>1. AScript[1] = Plain("Ya")
        BY AScriptIs
      <4> QED
        BY <1>8, <1>10, <3>1, <4>1 DEF Carries
    <3>6. 0 \in 0..6 /\ 1 \in {1, 7} /\ 0 \in {0, 1, 5, 7} /\ 0 \in {0, 2, 6}
      OBVIOUS
    <3>7. Encrypted
      BY <3>2, <3>3, <3>4, <3>5, <3>6 DEF Encrypted, ToA, ToB
    <3> QED
      BY <3>7 DEF OnTrack
  <2> QED
    BY <2>1, <2>2
<1> QED
  BY <1>2, <1>12, <1>13, <1>14, <1>15 DEF HsInv

LEMMA HsAgreed ==
    ASSUME HsInv
    PROVE  HsTypeOK /\ HandshakeAgrees /\ NoNeedlessFailure
<1>0. HsTypes
  BY DEF HsInv
<1>1. HsTypeOK
  BY <1>0 DEF HsTypes, HsTypeOK
<1>2. HandshakeAgrees
  <2> SUFFICES ASSUME hs["A"].state = "connected", hs["B"].state = "connected"
               PROVE  /\ hs["A"].enc = hs["B"].enc
                      /\ hs["A"].mode = "REQUIRED" => hs["A"].enc = "crypto"
                      /\ hs["B"].mode = "REQUIRED" => hs["B"].enc = "crypto"
                      /\ hs["A"].enc = "crypto" => hs["A"].encPos = hs["B"].decPos
                      /\ hs["B"].enc = "crypto" => hs["B"].encPos = hs["A"].decPos
    BY EndsAre DEF HandshakeAgrees
  <2>1. OnTrack
    BY DEF HsInv, Failing
  <2>2. CASE Encrypted
    <3>1. PICK r \in 0..6, m \in {1, 7}, q \in {0, 1, 5, 7}, n \in {0, 2, 6} :
            EncryptedA(hs["A"], r, m) /\ EncryptedB(hs["B"], q, n)
      BY <2>2 DEF Encrypted
    <3>2. CipherAt(hs["A"], "crypto", 5, 5)
      BY <3>1 DEF EncryptedA
    <3>3. CipherAt(hs["B"], "crypto", 5, 5)
      BY <3>1 DEF EncryptedB
    <3> QED
      BY <3>2, <3>3 DEF CipherAt
  <2>3. CASE Plaintext
    <3>1. PICK r \in 0..3, q \in 0..2, n \in {1, 3} :
            hs["A"].mode # "REQUIRED" /\ PlainA(hs["A"], r) /\ PlainB(hs["B"], q, n)
      BY <2>3 DEF Plaintext
    <3>2. CipherAt(hs["A"], "plaintext", 0, 0) /\ CipherAt(hs["B"], "plaintext", 0, 0)
      BY <3>1 DEF PlainA, PlainB
    <3>3. hs["B"].mode # "REQUIRED"
      BY <3>1 DEF PlainB
    <3> QED
      BY <3>1, <3>2, <3>3 DEF CipherAt
  <2>4. CASE Refused \/ Astray
    BY <2>4 DEF Refused, Astray
  <2> QED
    BY <2>1, <2>2, <2>3, <2>4 DEF OnTrack
<1>3. NoNeedlessFailure
  BY EndsAre DEF HsInv, Failing, Trouble, NoNeedlessFailure
<1> QED
  BY <1>1, <1>2, <1>3
=============================================================================
