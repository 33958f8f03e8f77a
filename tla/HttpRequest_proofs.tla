-------------------------- MODULE HttpRequest_proofs --------------------------
(***************************************************************************)
(* The requests of a connection reach service() as they were sent, or are  *)
(* refused for what they are, and none is left waiting, for any requests,  *)
(* any limits and any way in which the bytes arrive.                       *)
(*                                                                         *)
(* Progress(r, q, rest) says how much of the request q the parser r has    *)
(* read when rest is still to come of it.  OneCall is the core: a call of  *)
(* readFromSocket() keeps it.  StreamInv is the invariant of a connection. *)
(***************************************************************************)
EXTENDS HttpExchange, QCache_proofs, FiniteSetTheorems

-----------------------------------------------------------------------------
(* Cutting sequences. *)

\* The front of a sequence.
LEMMA FrontPart ==
  ASSUME NEW S, NEW s \in Seq(S), NEW n \in Nat, n <= Len(s)
  PROVE  /\ SubSeq(s, 1, n) \in Seq(S) /\ Len(SubSeq(s, 1, n)) = n
         /\ \A i \in 1..n : SubSeq(s, 1, n)[i] = s[i]
  <1>0. Len(s) \in Nat
    BY LenProperties
  <1>1. \A i \in 1..n : s[i] \in S
    <2>1. \A i \in 1..n : i \in 1..Len(s)
      BY <1>0
    <2> QED
      BY <2>1, ElementOfSeq
  <1>2. /\ SubSeq(s, 1, n) \in Seq(S)
        /\ Len(SubSeq(s, 1, n)) = IF 1 <= n THEN n - 1 + 1 ELSE 0
        /\ \A i \in 1..n - 1 + 1 : SubSeq(s, 1, n)[i] = s[1 + i - 1]
    <2>1. 1 \in Int /\ n \in Int
      OBVIOUS
    <2> QED
      BY <1>1, <2>1, SubSeqProperties
  <1>3. n - 1 + 1 = n /\ \A i \in 1..n : 1 + i - 1 = i
    OBVIOUS
  <1>4. (IF 1 <= n THEN n - 1 + 1 ELSE 0) = n
    OBVIOUS
  <1> QED
    BY <1>2, <1>3, <1>4

\* The rest of a sequence.
LEMMA BackPart ==
  ASSUME NEW S, NEW s \in Seq(S), NEW n \in Nat, n <= Len(s)
  PROVE  /\ SubSeq(s, n + 1, Len(s)) \in Seq(S) /\ Len(SubSeq(s, n + 1, Len(s))) = Len(s) - n
         /\ \A i \in 1..Len(s) - n : SubSeq(s, n + 1, Len(s))[i] = s[n + i]
  <1>0. Len(s) \in Nat
    BY LenProperties
  <1>1. \A i \in n + 1..Len(s) : s[i] \in S
    <2>1. \A i \in n + 1..Len(s) : i \in 1..Len(s)
      BY <1>0
    <2> QED
      BY <2>1, ElementOfSeq
  <1>2. PICK m \in Int, k \in Int : m = n + 1 /\ k = Len(s)
    BY <1>0
  <1>3. /\ SubSeq(s, m, k) \in Seq(S)
        /\ Len(SubSeq(s, m, k)) = IF m <= k THEN k - m + 1 ELSE 0
        /\ \A i \in 1..k - m + 1 : SubSeq(s, m, k)[i] = s[m + i - 1]
    <2>1. \A i \in m..k : s[i] \in S
      BY <1>1, <1>2
    <2> QED
      BY <2>1, SubSeqProperties
  <1>4. k - m + 1 = Len(s) - n /\ \A i \in 1..k - m + 1 : m + i - 1 = n + i
    BY <1>0, <1>2
  <1>5. (IF m <= k THEN k - m + 1 ELSE 0) = Len(s) - n
    BY <1>0, <1>2
  <1> QED
    BY <1>2, <1>3, <1>4, <1>5

\* Two halves make a whole.
LEMMA Halves ==
  ASSUME NEW S, NEW s \in Seq(S), NEW n \in Nat, n <= Len(s)
  PROVE  /\ SubSeq(s, 1, n) \in Seq(S) /\ SubSeq(s, n + 1, Len(s)) \in Seq(S)
         /\ Len(SubSeq(s, 1, n)) = n /\ Len(SubSeq(s, n + 1, Len(s))) = Len(s) - n
         /\ SubSeq(s, 1, n) \o SubSeq(s, n + 1, Len(s)) = s
  <1>1. Len(s) \in Nat
    BY LenProperties
  <1>2. /\ SubSeq(s, 1, n) \in Seq(S) /\ Len(SubSeq(s, 1, n)) = n
        /\ \A i \in 1..n : SubSeq(s, 1, n)[i] = s[i]
    BY FrontPart
  <1>3. /\ SubSeq(s, n + 1, Len(s)) \in Seq(S) /\ Len(SubSeq(s, n + 1, Len(s))) = Len(s) - n
        /\ \A i \in 1..Len(s) - n : SubSeq(s, n + 1, Len(s))[i] = s[n + i]
    BY BackPart
  <1>4. PICK a \in Seq(S), b \in Seq(S) : a = SubSeq(s, 1, n) /\ b = SubSeq(s, n + 1, Len(s))
    BY <1>2, <1>3
  <1>p. Len(a) = n /\ \A i \in 1..n : a[i] = s[i]
    BY <1>2, <1>4, Zenon
  <1>q. Len(b) = Len(s) - n /\ \A i \in 1..Len(s) - n : b[i] = s[n + i]
    BY <1>3, <1>4, Zenon
  <1>5. /\ a \o b \in Seq(S) /\ Len(a \o b) = Len(a) + Len(b)
        /\ \A i \in 1..Len(a) + Len(b) : (a \o b)[i] = IF i <= Len(a) THEN a[i] ELSE b[i - Len(a)]
    BY ConcatProperties
  <1>6. Len(a) = n /\ Len(b) = Len(s) - n /\ Len(a) + Len(b) = Len(s)
    BY <1>1, <1>p, <1>q
  <1>7. ASSUME NEW i \in 1..Len(s) PROVE (a \o b)[i] = s[i]
    <2>1. CASE i <= n
      <3>1. i \in 1..Len(a) + Len(b) /\ i \in 1..n
        BY <1>1, <1>6, <2>1
      <3> QED
        BY <1>p, <1>5, <1>6, <2>1, <3>1
    <2>2. CASE ~(i <= n)
      <3>1. i - n \in 1..Len(s) - n /\ n + (i - n) = i
        BY <1>1, <2>2
      <3>2. b[i - n] = s[i]
        BY <1>q, <3>1
      <3>3. i \in 1..Len(a) + Len(b) /\ ~(i <= Len(a)) /\ i - Len(a) = i - n
        BY <1>1, <1>6, <2>2
      <3> QED
        BY <1>5, <3>2, <3>3
    <2> QED
      BY <2>1, <2>2
  <1>8. a \o b = s
    BY <1>5, <1>6, <1>7, SeqEqual
  <1> QED
    BY <1>2, <1>3, <1>4, <1>8

\* Three pieces, however they are joined, and a sequence in two pieces.
Cut(b, c, t, u) == b \o c = t \o u
Pieces(S, x, y, z) == x \in Seq(S) /\ y \in Seq(S) /\ z \in Seq(S)
Parts(S, s, n) == s \in Seq(S) /\ n \in Nat /\ n <= Len(s)

LEMMA Regroup == \A S, x, y, z : Pieces(S, x, y, z) => Cut(x \o y, z, x, y \o z)
  BY ConcatAssociative DEF Pieces, Cut

LEMMA PartsJoined ==
  \A S, s, n : Parts(S, s, n) => /\ SubSeq(s, n + 1, Len(s)) \in Seq(S)
                                /\ SubSeq(s, 1, n) \o SubSeq(s, n + 1, Len(s)) = s
  BY Halves DEF Parts

\* The same piece may be dropped from the front of equal sequences.
LEMMA CancelLeft ==
  ASSUME NEW S, NEW s \in Seq(S), NEW t \in Seq(S), NEW u \in Seq(S), s \o t = s \o u
  PROVE  t = u
  <1>1. Len(s) \in Nat /\ Len(t) \in Nat /\ Len(u) \in Nat
    BY LenProperties
  <1>2. Len(s \o t) = Len(s) + Len(t) /\ Len(s \o u) = Len(s) + Len(u)
    BY ConcatProperties
  <1>3. Len(t) = Len(u)
    BY <1>1, <1>2
  <1>4. ASSUME NEW i \in 1..Len(t) PROVE t[i] = u[i]
    <2>1. Len(s) + i \in 1..Len(s) + Len(t) /\ ~(Len(s) + i <= Len(s)) /\ (Len(s) + i) - Len(s) = i
      BY <1>1
    <2>2. (s \o t)[Len(s) + i] = t[i] /\ (s \o u)[Len(s) + i] = u[i]
      BY <1>3, <2>1, ConcatProperties
    <2> QED
      BY <2>2
  <1> QED
    BY <1>3, <1>4, SeqEqual

\* What was put in front, and the rest.
LEMMA FrontAndRest ==
  ASSUME NEW S, NEW s \in Seq(S), NEW t \in Seq(S)
  PROVE  SubSeq(s \o t, 1, Len(s)) = s /\ SubSeq(s \o t, Len(s) + 1, Len(s \o t)) = t
  <1>1. Len(s) \in Nat /\ Len(t) \in Nat
    BY LenProperties
  <1>2. /\ s \o t \in Seq(S) /\ Len(s \o t) = Len(s) + Len(t)
        /\ \A i \in 1..Len(s) + Len(t) : (s \o t)[i] = IF i <= Len(s) THEN s[i] ELSE t[i - Len(s)]
    BY ConcatProperties
  <1>3. PICK u \in Seq(S), n \in Nat : u = s \o t /\ n = Len(s) /\ n <= Len(u)
    <2>1. Len(s) \in Nat /\ s \o t \in Seq(S) /\ Len(s) <= Len(s \o t)
      <3>1. Len(s) <= Len(s) + Len(t)
        BY <1>1
      <3> QED
        BY <1>1, <1>2, <3>1
    <2> QED
      BY <2>1, Zenon
  <1>4. /\ SubSeq(u, 1, n) \in Seq(S) /\ Len(SubSeq(u, 1, n)) = n
        /\ \A i \in 1..n : SubSeq(u, 1, n)[i] = u[i]
    BY <1>3, FrontPart
  <1>5. ASSUME NEW i \in 1..n PROVE u[i] = s[i]
    <2>1. i \in 1..Len(s) + Len(t) /\ i <= Len(s)
      BY <1>1, <1>3
    <2> QED
      BY <1>2, <1>3, <2>1
  <1>6. SubSeq(u, 1, n) = s
    <2>1. \A i \in 1..n : SubSeq(u, 1, n)[i] = s[i]
      BY <1>4, <1>5
    <2> QED
      BY <1>3, <1>4, <2>1, SeqEqual
  <1>7. SubSeq(u, n + 1, Len(u)) \in Seq(S) /\ SubSeq(u, 1, n) \o SubSeq(u, n + 1, Len(u)) = u
    <2>1. Parts(S, u, n)
      BY <1>3, Zenon DEF Parts
    <2> QED
      BY <2>1, PartsJoined, Zenon
  <1>8. SubSeq(u, n + 1, Len(u)) = t
    BY <1>3, <1>6, <1>7, CancelLeft
  <1> QED
    BY <1>3, <1>6, <1>8

\* The front, the rest, and what follows.
LEMMA Refitted ==
  ASSUME NEW S, NEW s \in Seq(S), NEW c \in Seq(S), NEW n \in Nat, n <= Len(s)
  PROVE  SubSeq(s, 1, n) \o (SubSeq(s, n + 1, Len(s)) \o c) = s \o c
  <1>1. PICK s1 \in Seq(S), s2 \in Seq(S) : s1 = SubSeq(s, 1, n) /\ s2 = SubSeq(s, n + 1, Len(s))
    BY Halves
  <1>2. s1 \o s2 = s
    BY <1>1, Halves
  <1>3. (s1 \o s2) \o c = s1 \o (s2 \o c)
    <2>1. Pieces(S, s1, s2, c)
      BY DEF Pieces
    <2> QED
      <3>1. Cut(s1 \o s2, c, s1, s2 \o c)
        BY <2>1, Regroup, Zenon
      <3> QED
        BY <3>1, Zenon DEF Cut
  <1> QED
    BY <1>1, <1>2, <1>3

\* What is taken from the front of one of two ways of cutting the same sequence
\* is taken from the front of the other.
Bytes(x, y, z) == x \in Seq(ByteSet) /\ y \in Seq(ByteSet) /\ z \in Seq(ByteSet)
Meets(b, c, t, u, n) ==
    /\ Bytes(b, c, t) /\ u \in Seq(ByteSet) /\ n \in Nat
    /\ Cut(b, c, t, u) /\ n <= Len(b) /\ n <= Len(t)

\* Three pieces of a stream, however they are joined.
LEMMA BytesRegrouped == \A x, y, z : Bytes(x, y, z) => Cut(x \o y, z, x, y \o z)
  BY ConcatAssociative DEF Bytes, Cut

\* Taking n bytes from both sides leaves the same stream on both sides.
LEMMA TakenFromBoth ==
  \A b, c, t, u, n :
    Meets(b, c, t, u, n) =>
      /\ SubSeq(b, 1, n) = SubSeq(t, 1, n)
      /\ Cut(SubSeq(b, n + 1, Len(b)), c, SubSeq(t, n + 1, Len(t)), u)
  <1> SUFFICES ASSUME NEW b, NEW c, NEW t, NEW u, NEW n, Meets(b, c, t, u, n)
               PROVE  /\ SubSeq(b, 1, n) = SubSeq(t, 1, n)
                      /\ Cut(SubSeq(b, n + 1, Len(b)), c, SubSeq(t, n + 1, Len(t)), u)
    BY Zenon
  <1>0. /\ b \in Seq(ByteSet) /\ c \in Seq(ByteSet) /\ t \in Seq(ByteSet) /\ u \in Seq(ByteSet)
        /\ b \o c = t \o u /\ n \in Nat /\ n <= Len(b) /\ n <= Len(t)
    BY Zenon DEF Meets, Bytes, Cut
  <1>1. PICK b1 \in Seq(ByteSet), b2 \in Seq(ByteSet) : b1 = SubSeq(b, 1, n) /\ b2 = SubSeq(b, n + 1, Len(b))
    BY <1>0, Halves
  <1>2. Len(b1) = n /\ b1 \o b2 = b
    BY <1>0, <1>1, Halves
  <1>3. PICK t1 \in Seq(ByteSet), t2 \in Seq(ByteSet) : t1 = SubSeq(t, 1, n) /\ t2 = SubSeq(t, n + 1, Len(t))
    BY <1>0, Halves
  <1>4. Len(t1) = n /\ t1 \o t2 = t
    BY <1>0, <1>3, Halves
  <1>5. PICK v \in Seq(ByteSet), w \in Seq(ByteSet) : v = b2 \o c /\ w = t2 \o u
    BY <1>0, <1>1, <1>3, ConcatProperties
  <1>6. b1 \o v = b \o c
    BY <1>0, <1>1, <1>5, Refitted
  <1>7. t1 \o w = t \o u
    BY <1>0, <1>3, <1>5, Refitted
  <1>8. SubSeq(b1 \o v, 1, Len(b1)) = b1 /\ SubSeq(t1 \o w, 1, Len(t1)) = t1
    BY FrontAndRest
  <1>9. b1 = t1
    <2>1. SubSeq(b1 \o v, 1, n) = b1 /\ SubSeq(t1 \o w, 1, n) = t1
      BY <1>2, <1>4, <1>8, Zenon
    <2>2. b1 \o v = t1 \o w
      BY <1>0, <1>6, <1>7, Zenon
    <2> QED
      BY <2>1, <2>2, Zenon
  <1>10. b1 \o v = b1 \o w
    BY <1>0, <1>6, <1>7, <1>9
  <1>11. v = w
    BY <1>10, CancelLeft
  <1> QED
    BY <1>1, <1>3, <1>5, <1>9, <1>11 DEF Cut

\* Two pieces of a stream, joined.
LEMMA BytesJoined ==
  \A x, y \in Seq(ByteSet) : /\ x \o y \in Seq(ByteSet) /\ Len(x \o y) = Len(x) + Len(y)
                             /\ Len(x) \in Nat /\ Len(y) \in Nat
  BY ConcatProperties, LenProperties

\* A piece of a stream, cut in two.
LEMMA BytesParted ==
  \A s \in Seq(ByteSet), n \in Nat :
    n <= Len(s) =>
      /\ SubSeq(s, 1, n) \in Seq(ByteSet) /\ SubSeq(s, n + 1, Len(s)) \in Seq(ByteSet)
      /\ Len(SubSeq(s, 1, n)) = n /\ Len(SubSeq(s, n + 1, Len(s))) = Len(s) - n
      /\ SubSeq(s, 1, n) \o SubSeq(s, n + 1, Len(s)) = s
  BY Halves

\* Taking a piece from the rest of a sequence.
LEMMA TakenFromRest ==
  ASSUME NEW S, NEW s \in Seq(S), NEW n \in Nat, NEW m \in Nat, n + m <= Len(s),
         NEW t \in Seq(S), t = SubSeq(s, n + 1, Len(s))
  PROVE  /\ Len(t) = Len(s) - n
         /\ SubSeq(s, 1, n) \o SubSeq(t, 1, m) = SubSeq(s, 1, n + m)
         /\ SubSeq(t, m + 1, Len(t)) = SubSeq(s, n + m + 1, Len(s))
  <1>1. Len(s) \in Nat /\ n <= Len(s) /\ m <= Len(s) - n /\ n + m \in Nat
    BY LenProperties
  <1>2. PICK a \in Seq(S) : a = SubSeq(s, 1, n)
    BY <1>1, Halves
  <1>3. Len(a) = n /\ Len(t) = Len(s) - n /\ a \o t = s
    BY <1>1, <1>2, Halves
  <1>4. m <= Len(t)
    BY <1>1, <1>3
  <1>5. PICK t1 \in Seq(S), t2 \in Seq(S) : t1 = SubSeq(t, 1, m) /\ t2 = SubSeq(t, m + 1, Len(t))
    BY <1>4, Halves
  <1>6. Len(t1) = m /\ t1 \o t2 = t
    BY <1>4, <1>5, Halves
  <1>7. PICK c \in Seq(S) : c = a \o t1
    BY ConcatProperties
  <1>8. Len(c) = n + m
    <2>1. Len(a \o t1) = Len(a) + Len(t1)
      BY ConcatProperties
    <2> QED
      BY <1>3, <1>6, <1>7, <2>1
  <1>9. c \o t2 = s
    <2>1. (a \o t1) \o t2 = a \o (t1 \o t2)
      <3>1. Pieces(S, a, t1, t2)
        BY DEF Pieces
      <3> QED
        <4>1. Cut(a \o t1, t2, a, t1 \o t2)
          BY <3>1, Regroup, Zenon
        <4> QED
          BY <4>1, Zenon DEF Cut
    <2> QED
      BY <1>3, <1>6, <1>7, <2>1
  <1>10. SubSeq(s, 1, n + m) = c /\ SubSeq(s, n + m + 1, Len(s)) = t2
    <2>1. SubSeq(c \o t2, 1, Len(c)) = c /\ SubSeq(c \o t2, Len(c) + 1, Len(c \o t2)) = t2
      BY FrontAndRest
    <2> QED
      BY <1>8, <1>9, <2>1
  <1> QED
    BY <1>2, <1>3, <1>5, <1>7, <1>10

-----------------------------------------------------------------------------
(* Functions defined from their last value down. *)

Continues(s, t, n, m) ==
    s \in Seq(ByteSet) /\ n \in Nat /\ m \in Nat /\ n + m <= Len(s) /\ t = SubSeq(s, n + 1, Len(s))

Extends(s, t, n, m) ==
    /\ SubSeq(s, 1, n) \o SubSeq(t, 1, m) = SubSeq(s, 1, n + m)
    /\ SubSeq(t, m + 1, Len(t)) = SubSeq(s, n + m + 1, Len(s))

\* Taking m bytes from what is left of a piece after n.
LEMMA BytesOfRest == \A s, t, n, m : Continues(s, t, n, m) => Extends(s, t, n, m)
  <1> SUFFICES ASSUME NEW s, NEW t, NEW n, NEW m, Continues(s, t, n, m)
               PROVE  /\ SubSeq(s, 1, n) \o SubSeq(t, 1, m) = SubSeq(s, 1, n + m)
                      /\ SubSeq(t, m + 1, Len(t)) = SubSeq(s, n + m + 1, Len(s))
    BY Zenon DEF Extends
  <1>1. s \in Seq(ByteSet) /\ n \in Nat /\ m \in Nat /\ n + m <= Len(s) /\ t = SubSeq(s, n + 1, Len(s))
    BY Zenon DEF Continues
  <1>2. t \in Seq(ByteSet)
    <2>1. n <= Len(s)
      BY <1>1, LenProperties
    <2> QED
      BY <1>1, <2>1, BytesParted, Zenon
  <1> QED
    BY <1>1, <1>2, TakenFromRest

Downwards(S, a, N, F, c) ==
    c \in [1..N + 1 -> S] /\ c[N + 1] = a /\ \A i \in 1..N : c[i] = F[i][c[i + 1]]

\* A recursion from N + 1 down to 1 has a solution.
LEMMA DownRecursion ==
  ASSUME NEW S, NEW a \in S, NEW N \in Nat, NEW F \in [1..N -> [S -> S]]
  PROVE  \E c : Downwards(S, a, N, F, c)
  <1> DEFINE G == [i \in 1..N |-> F[N + 1 - i]]
  <1>1. G \in [1..N -> [S -> S]]
    OBVIOUS
  <1>2. PICK d : Defines(S, a, N, G, d)
    <2> HIDE DEF G
    <2> QED
      BY <1>1, Recursion
  <1>3. d \in [0..N -> S] /\ d[0] = a /\ \A i \in 1..N : d[i] = G[i][d[i - 1]]
    BY <1>2 DEF Defines
  <1> DEFINE c == [i \in 1..N + 1 |-> d[N + 1 - i]]
  <1>4. c \in [1..N + 1 -> S] /\ c[N + 1] = a
    BY <1>3
  <1>5. ASSUME NEW i \in 1..N PROVE c[i] = F[i][c[i + 1]]
    <2>1. N + 1 - i \in 1..N /\ N + 1 - (N + 1 - i) = i /\ (N + 1 - i) - 1 = N + 1 - (i + 1)
          /\ i + 1 \in 1..N + 1 /\ i \in 1..N + 1
      OBVIOUS
    <2>2. d[N + 1 - i] = G[N + 1 - i][d[(N + 1 - i) - 1]]
      BY <1>3, <2>1
    <2>3. G[N + 1 - i] = F[i]
      BY <2>1
    <2> QED
      BY <2>1, <2>2, <2>3
  <1> HIDE DEF c
  <1> QED
    BY <1>4, <1>5 DEF Downwards

\* Induction from the last number down.
LEMMA DownInduction ==
  ASSUME NEW N \in Nat, NEW U, N + 1 \in U, \A i \in 1..N : i + 1 \in U => i \in U
  PROVE  1..N + 1 \subseteq U
  <1> DEFINE V == {n \in Nat : n <= N => N + 1 - n \in U}
  <1>1. 0 \in V
    OBVIOUS
  <1>2. ASSUME NEW n \in Nat, n \in V PROVE n + 1 \in V
    <2> SUFFICES ASSUME n + 1 <= N PROVE N + 1 - (n + 1) \in U
      OBVIOUS
    <2>1. N + 1 - (n + 1) \in 1..N /\ N + 1 - (n + 1) + 1 = N + 1 - n
      OBVIOUS
    <2> QED
      BY <1>2, <2>1
  <1> HIDE DEF V
  <1>3. Nat \subseteq V
    BY <1>1, <1>2, InductionOverSet
  <1>4. ASSUME NEW i \in 1..N + 1 PROVE i \in U
    <2>1. N + 1 - i \in Nat /\ N + 1 - i <= N /\ N + 1 - (N + 1 - i) = i
      OBVIOUS
    <2> QED
      BY <1>3, <2>1 DEF V
  <1> QED
    BY <1>4

-----------------------------------------------------------------------------
(* Sequences written one after the other. *)

Chain(S, z, N, P, c) ==
    c \in [1..N + 1 -> Seq(S)] /\ c[N + 1] = z /\ \A i \in 1..N : c[i] = P[i] \o c[i + 1]

\* Pieces written one after the other: such a sequence exists.
LEMMA ChainExists ==
  ASSUME NEW S, NEW z \in Seq(S), NEW N \in Nat, NEW P \in [1..N -> Seq(S)]
  PROVE  \E c : Chain(S, z, N, P, c)
  <1> DEFINE F == [i \in 1..N |-> [x \in Seq(S) |-> P[i] \o x]]
  <1>1. \A i \in 1..N : \A x \in Seq(S) : P[i] \o x \in Seq(S)
    BY ConcatProperties
  <1>2. F \in [1..N -> [Seq(S) -> Seq(S)]]
    BY <1>1
  <1>3. PICK c : Downwards(Seq(S), z, N, F, c)
    <2> HIDE DEF F
    <2> QED
      BY <1>2, DownRecursion
  <1>4. c \in [1..N + 1 -> Seq(S)] /\ c[N + 1] = z /\ \A i \in 1..N : c[i] = F[i][c[i + 1]]
    BY <1>3 DEF Downwards
  <1>5. ASSUME NEW i \in 1..N PROVE c[i] = P[i] \o c[i + 1]
    <2>1. c[i + 1] \in Seq(S)
      BY <1>4
    <2> QED
      BY <1>4, <2>1
  <1> QED
    BY <1>4, <1>5 DEF Chain

\* Pieces written one after the other: a function defined by the recursion is it.
LEMMA ChainOf ==
  ASSUME NEW S, NEW z \in Seq(S), NEW N \in Nat, NEW P \in [1..N -> Seq(S)], NEW f,
         f = [i \in 1..N + 1 |-> IF i > N THEN z ELSE P[i] \o f[i + 1]]
  PROVE  Chain(S, z, N, P, f)
  <1>1. f[N + 1] = z
    <2>1. N + 1 \in 1..N + 1 /\ N + 1 > N
      OBVIOUS
    <2> QED
      BY <2>1
  <1>2. ASSUME NEW i \in 1..N PROVE f[i] = P[i] \o f[i + 1]
    <2>1. i \in 1..N + 1 /\ ~(i > N)
      OBVIOUS
    <2> QED
      BY <2>1
  <1> DEFINE U == {i \in 1..N + 1 : f[i] \in Seq(S)}
  <1>3. N + 1 \in U
    BY <1>1
  <1>4. ASSUME NEW i \in 1..N, i + 1 \in U PROVE i \in U
    <2>1. f[i + 1] \in Seq(S) /\ P[i] \in Seq(S)
      BY <1>4
    <2>2. P[i] \o f[i + 1] \in Seq(S)
      BY <2>1, ConcatProperties
    <2>3. i \in 1..N + 1
      OBVIOUS
    <2> QED
      BY <1>2, <2>2, <2>3
  <1>5. 1..N + 1 \subseteq U
    <2> HIDE DEF U
    <2> QED
      BY <1>3, <1>4, DownInduction
  <1>6. f = [i \in 1..N + 1 |-> f[i]]
    <2>1. PICK g : g = [i \in 1..N + 1 |-> IF i > N THEN z ELSE P[i] \o f[i + 1]]
      OBVIOUS
    <2>2. g = [i \in 1..N + 1 |-> g[i]]
      BY <2>1
    <2> QED
      BY <2>1, <2>2
  <1>7. f \in [1..N + 1 -> Seq(S)]
    BY <1>5, <1>6
  <1> QED
    BY <1>1, <1>2, <1>7 DEF Chain

-----------------------------------------------------------------------------
(* What a client writes. *)

\* The bytes that end a line.
LEMMA CRLFIs ==
  CRLF \in Seq(ByteSet) /\ Len(CRLF) = 2 /\ CRLF[1] = CR /\ CRLF[2] = LF
  /\ CR \in ByteSet /\ LF \in ByteSet /\ CR # LF
  <1>1. CR \in ByteSet /\ LF \in ByteSet /\ CR # LF
    <2>1. /\ CR = [kind |-> "cr", name |-> NoName, words |-> {}, num |-> 0]
          /\ LF = [kind |-> "lf", name |-> NoName, words |-> {}, num |-> 0]
      BY DEF CR, LF, Byte
    <2>3. CR \in ByteSet /\ LF \in ByteSet
      BY <2>1 DEF ByteSet, Kind, Name
    <2>4. CR.kind = "cr" /\ LF.kind = "lf" /\ "cr" # "lf"
      BY <2>1
    <2> QED
      BY <2>3, <2>4
  <1> QED
    BY <1>1 DEF CRLF

Whole(q, i) == HeadLine(q, i) \o CRLF

\* A line is nothing or one byte that is not the end of a line.
LEMMA HeadLineIs ==
  ASSUME NEW q \in Request, NEW i \in 1..LineCount(q)
  PROVE  /\ LineCount(q) \in Nat /\ Len(q.headers) \in Nat /\ q.blanks \in Nat
         /\ i <= q.blanks => HeadLine(q, i) = <<>>
         /\ i = q.blanks + 1 => HeadLine(q, i) = <<q.line>> /\ q.line \in ByteSet
         /\ i > q.blanks + 1 /\ i < LineCount(q) =>
              /\ i - q.blanks - 1 \in 1..Len(q.headers) /\ q.headers[i - q.blanks - 1] \in ByteSet
              /\ HeadLine(q, i) = <<q.headers[i - q.blanks - 1]>>
         /\ i = LineCount(q) => HeadLine(q, i) = <<>> /\ i > q.blanks + 1
         /\ HeadLine(q, i) \in Seq(ByteSet)
  <1>1. q.blanks \in Nat /\ q.line \in ByteSet /\ q.headers \in Seq(ByteSet)
    BY DEF Request
  <1>2. PICK b \in Nat, h \in Nat : b = q.blanks /\ h = Len(q.headers)
    BY <1>1, LenProperties
  <1>3. LineCount(q) = b + h + 2
    BY <1>2 DEF LineCount
  <1>4. CASE i <= b
    <2>1. i # b + 1 /\ i \notin b + 2..b + h + 2 - 1 /\ ~(i > b + 1) /\ i # b + h + 2
      BY <1>3, <1>4
    <2>2. HeadLine(q, i) = <<>>
      BY <1>2, <1>3, <2>1 DEF HeadLine
    <2> QED
      BY <1>2, <1>3, <2>1, <2>2
  <1>5. CASE i = b + 1
    <2>1. ~(i <= b) /\ ~(i > b + 1) /\ i # b + h + 2
      BY <1>5
    <2>2. HeadLine(q, i) = <<q.line>>
      BY <1>2, <1>5 DEF HeadLine
    <2>3. <<q.line>> \in Seq(ByteSet)
      BY <1>1
    <2> QED
      BY <1>1, <1>2, <1>3, <2>1, <2>2, <2>3
  <1>6. CASE i > b + 1 /\ i < b + h + 2
    <2>1. /\ ~(i <= b) /\ i # b + 1 /\ i # b + h + 2
          /\ i \in b + 2..b + h + 2 - 1 /\ i - b - 1 \in 1..h
      BY <1>6
    <2>2. q.headers[i - b - 1] \in ByteSet
      BY <1>1, <1>2, <2>1, ElementOfSeq
    <2>3. HeadLine(q, i) = <<q.headers[i - b - 1]>>
      BY <1>2, <1>3, <2>1 DEF HeadLine
    <2>4. <<q.headers[i - b - 1]>> \in Seq(ByteSet)
      BY <2>2
    <2> QED
      <3>0. b + h + 2 \in Nat
        OBVIOUS
      <3>1. /\ LineCount(q) \in Nat /\ Len(q.headers) \in Nat /\ q.blanks \in Nat
            /\ ~(i <= q.blanks) /\ i # q.blanks + 1 /\ i # LineCount(q)
        BY <1>2, <1>3, <2>1, <3>0, Zenon
      <3>2. /\ i - q.blanks - 1 \in 1..Len(q.headers) /\ q.headers[i - q.blanks - 1] \in ByteSet
            /\ HeadLine(q, i) = <<q.headers[i - q.blanks - 1]>> /\ HeadLine(q, i) \in Seq(ByteSet)
        BY <1>2, <2>1, <2>2, <2>3, <2>4, Zenon
      <3> QED
        BY <3>1, <3>2, Zenon
  <1>7. CASE i = b + h + 2
    <2>1. ~(i <= b) /\ i # b + 1 /\ i \notin b + 2..b + h + 2 - 1 /\ i > b + 1 /\ ~(i < b + h + 2)
      BY <1>7
    <2>2. HeadLine(q, i) = <<>>
      BY <1>2, <1>3, <2>1 DEF HeadLine
    <2>3. /\ LineCount(q) \in Nat /\ Len(q.headers) \in Nat /\ q.blanks \in Nat
          /\ i > q.blanks + 1 /\ i # q.blanks + 1 /\ ~(i < LineCount(q))
      BY <1>2, <1>3, <2>1
    <2>4. HeadLine(q, i) \in Seq(ByteSet)
      BY <2>2, EmptySeq
    <2> QED
      BY <2>2, <2>3, <2>4, Zenon
  <1>8. i <= b \/ i = b + 1 \/ (i > b + 1 /\ i < b + h + 2) \/ i = b + h + 2
    BY <1>3
  <1> QED
    BY <1>4, <1>5, <1>6, <1>7, <1>8

\* A request from each of its lines on.
LEMMA Encoded ==
  ASSUME NEW q \in Request
  PROVE  /\ LineCount(q) \in Nat /\ LineCount(q) >= 2 /\ q.body \in Seq(ByteSet)
         /\ \A i \in 1..LineCount(q) + 1 : EncodeFrom(q)[i] \in Seq(ByteSet)
         /\ \A i \in 1..LineCount(q) : /\ Whole(q, i) \in Seq(ByteSet)
                                       /\ EncodeFrom(q)[i] = Whole(q, i) \o EncodeFrom(q)[i + 1]
         /\ EncodeFrom(q)[LineCount(q) + 1] = q.body
  <1>1. q.blanks \in Nat /\ q.headers \in Seq(ByteSet) /\ q.body \in Seq(ByteSet)
    BY DEF Request
  <1>2. PICK N \in Nat : N = LineCount(q) /\ N >= 2
    <2>1. Len(q.headers) \in Nat
      BY <1>1, LenProperties
    <2> QED
      BY <1>1, <2>1 DEF LineCount
  <1> DEFINE P == [i \in 1..N |-> Whole(q, i)]
             Step(c) == [i \in 1..LineCount(q) + 1 |->
                           IF i > LineCount(q) THEN q.body ELSE (HeadLine(q, i) \o CRLF) \o c[i + 1]]
  <1>3. P \in [1..N -> Seq(ByteSet)]
    <2>1. \A i \in 1..N : HeadLine(q, i) \in Seq(ByteSet)
      BY <1>2, HeadLineIs
    <2>2. \A i \in 1..N : Whole(q, i) \in Seq(ByteSet)
      BY <2>1, CRLFIs, ConcatProperties DEF Whole
    <2> QED
      BY <2>2
  <1>4. ASSUME NEW c PROVE [i \in 1..N + 1 |-> IF i > N THEN q.body ELSE P[i] \o c[i + 1]] = Step(c)
    BY <1>2 DEF Whole
  <1>5. PICK c : Chain(ByteSet, q.body, N, P, c)
    <2> HIDE DEF P
    <2> QED
      BY <1>1, <1>3, ChainExists
  <1>6. c = [i \in 1..N + 1 |-> IF i > N THEN q.body ELSE P[i] \o c[i + 1]]
    <2> HIDE DEF P
    <2>1. c \in [1..N + 1 -> Seq(ByteSet)] /\ c[N + 1] = q.body /\ \A i \in 1..N : c[i] = P[i] \o c[i + 1]
      BY <1>5 DEF Chain
    <2>2. ASSUME NEW i \in 1..N + 1 PROVE c[i] = IF i > N THEN q.body ELSE P[i] \o c[i + 1]
      <3>1. CASE i > N
        <4>1. i = N + 1
          BY <3>1
        <4> QED
          BY <2>1, <3>1, <4>1
      <3>2. CASE ~(i > N)
        <4>1. i \in 1..N
          BY <3>2
        <4> QED
          BY <2>1, <3>2, <4>1
      <3> QED
        BY <3>1, <3>2
    <2> QED
      BY <2>1, <2>2
  <1>7. c = Step(c)
    BY <1>4, <1>6
  <1>8. EncodeFrom(q) = Step(EncodeFrom(q))
    BY <1>7 DEF EncodeFrom
  <1>9. PICK f : f = EncodeFrom(q)
    OBVIOUS
  <1>10. f = [i \in 1..N + 1 |-> IF i > N THEN q.body ELSE P[i] \o f[i + 1]]
    <2> HIDE DEF Step, P
    <2>1. f = Step(f)
      BY <1>8, <1>9
    <2>2. [i \in 1..N + 1 |-> IF i > N THEN q.body ELSE P[i] \o f[i + 1]] = Step(f)
      BY <1>4
    <2> QED
      BY <2>1, <2>2
  <1>11. Chain(ByteSet, q.body, N, P, f)
    <2> HIDE DEF P
    <2> QED
      BY <1>1, <1>3, <1>10, ChainOf
  <1> QED
    BY <1>1, <1>2, <1>3, <1>9, <1>11 DEF Chain

-----------------------------------------------------------------------------
(* The lines of a request. *)

\* One element before a sequence.
LEMMA One ==
  ASSUME NEW S, NEW x \in S, NEW t \in Seq(S)
  PROVE  /\ <<x>> \o t \in Seq(S) /\ Len(<<x>> \o t) = Len(t) + 1 /\ (<<x>> \o t)[1] = x
         /\ \A i \in 1..Len(t) : (<<x>> \o t)[i + 1] = t[i]
  <1>1. PICK s \in Seq(S) : s = <<x>> /\ Len(s) = 1 /\ s[1] = x
    <2>1. <<x>> \in Seq(S) /\ Len(<<x>>) = 1 /\ <<x>>[1] = x
      OBVIOUS
    <2> QED
      BY <2>1
  <1>2. Len(t) \in Nat
    BY LenProperties
  <1>3. /\ s \o t \in Seq(S) /\ Len(s \o t) = Len(s) + Len(t)
        /\ \A i \in 1..Len(s) + Len(t) : (s \o t)[i] = IF i <= Len(s) THEN s[i] ELSE t[i - Len(s)]
    BY ConcatProperties
  <1>4. Len(s \o t) = Len(t) + 1
    BY <1>1, <1>2, <1>3
  <1>5. (s \o t)[1] = x
    <2>1. 1 \in 1..Len(s) + Len(t) /\ 1 <= Len(s)
      BY <1>1, <1>2
    <2> QED
      BY <1>1, <1>3, <2>1
  <1>6. ASSUME NEW i \in 1..Len(t) PROVE (s \o t)[i + 1] = t[i]
    <2>1. i + 1 \in 1..Len(s) + Len(t) /\ ~(i + 1 <= Len(s)) /\ i + 1 - Len(s) = i
      BY <1>1, <1>2
    <2> QED
      BY <1>3, <2>1
  <1> QED
    BY <1>1, <1>3, <1>4, <1>5, <1>6

\* The empty sequence before or behind a sequence.
LEMMA NothingFirst ==
  ASSUME NEW S, NEW t \in Seq(S) PROVE <<>> \o t = t /\ t \o <<>> = t
  BY ConcatEmptySeq

\* A complete line: its text, if it has one, and its end.
Ends(w) ==
    /\ w \in Seq(ByteSet) /\ Len(w) \in {2, 3}
    /\ w[Len(w) - 1] = CR /\ w[Len(w)] = LF
    /\ Len(w) = 3 => w[1] \notin {CR, LF}

\* A line as it is sent ends with CR LF and has at most one byte of text.
LEMMA WholeIs ==
  ASSUME NEW q \in Request, WellFormed(q), NEW i \in 1..LineCount(q)
  PROVE  /\ Ends(Whole(q, i))
         /\ Len(Whole(q, i)) = IF HeadLine(q, i) = <<>> THEN 2 ELSE 3
         /\ HeadLine(q, i) # <<>> => HeadLine(q, i) = <<Whole(q, i)[1]>>
  <1>1. CASE HeadLine(q, i) = <<>>
    <2>1. Whole(q, i) = CRLF
      BY <1>1, CRLFIs, NothingFirst DEF Whole
    <2> QED
      BY <1>1, <2>1, CRLFIs DEF Ends
  <1>2. ASSUME NEW x \in ByteSet, HeadLine(q, i) = <<x>>, x \notin {CR, LF}
        PROVE  /\ Ends(Whole(q, i))
               /\ Len(Whole(q, i)) = IF HeadLine(q, i) = <<>> THEN 2 ELSE 3
               /\ HeadLine(q, i) # <<>> => HeadLine(q, i) = <<Whole(q, i)[1]>>
    <2>1. PICK w \in Seq(ByteSet) : w = <<x>> \o CRLF /\ Len(w) = Len(CRLF) + 1 /\ w[1] = x
                                    /\ \A k \in 1..Len(CRLF) : w[k + 1] = CRLF[k]
      <3>1. PICK t \in Seq(ByteSet) : t = CRLF
        BY CRLFIs
      <3>2. /\ <<x>> \o t \in Seq(ByteSet) /\ Len(<<x>> \o t) = Len(t) + 1 /\ (<<x>> \o t)[1] = x
            /\ \A k \in 1..Len(t) : (<<x>> \o t)[k + 1] = t[k]
        BY One
      <3> QED
        BY <3>1, <3>2, Zenon
    <2>2. Len(CRLF) = 2 /\ CRLF[1] = CR /\ CRLF[2] = LF
      BY CRLFIs
    <2>3. Len(w) = 3 /\ w[2] = CR /\ w[3] = LF
      <3>1. 1 \in 1..2 /\ 2 \in 1..2 /\ 1 + 1 = 2 /\ 2 + 1 = 3
        OBVIOUS
      <3> QED
        BY <2>1, <2>2, <3>1
    <2>4. Whole(q, i) = w
      BY <1>2, <2>1 DEF Whole
    <2>5. Ends(w)
      BY <1>2, <2>1, <2>3 DEF Ends
    <2>6. HeadLine(q, i) # <<>>
      BY <1>2
    <2> QED
      BY <1>2, <2>1, <2>3, <2>4, <2>5, <2>6
  <1>3. CR.kind = "cr" /\ LF.kind = "lf"
    BY DEF CR, LF, Byte
  <1>4. CASE i = q.blanks + 1
    <2>1. HeadLine(q, i) = <<q.line>> /\ q.line \in ByteSet
      BY <1>4, HeadLineIs
    <2>2. q.line \notin {CR, LF}
      BY <1>3 DEF WellFormed
    <2> QED
      BY <1>2, <2>1, <2>2
  <1>5. CASE i > q.blanks + 1 /\ i < LineCount(q)
    <2>1. PICK k \in 1..Len(q.headers) : q.headers[k] \in ByteSet /\ HeadLine(q, i) = <<q.headers[k]>>
      BY <1>5, HeadLineIs
    <2>2. k \in DOMAIN q.headers
      BY <2>1 DEF Request
    <2>3. q.headers[k] \notin {CR, LF}
      <3>1. q.headers[k].kind = "text" \/ q.headers[k].kind = "header"
        BY <2>2 DEF WellFormed
      <3> QED
        BY <1>3, <3>1
    <2> QED
      BY <1>2, <2>1, <2>3
  <1>6. CASE i <= q.blanks \/ i = LineCount(q)
    BY <1>1, <1>6, HeadLineIs
  <1>7. i <= q.blanks \/ i = LineCount(q) \/ i = q.blanks + 1 \/ (i > q.blanks + 1 /\ i < LineCount(q))
    <2>1. LineCount(q) \in Nat /\ q.blanks \in Nat
      BY HeadLineIs
    <2> QED
      BY <2>1
  <1> QED
    BY <1>4, <1>5, <1>6, <1>7

\* A line that is not complete has no end.
LEMMA CompleteOrNot ==
  ASSUME NEW w, Ends(w), NEW k \in 0..Len(w), NEW r, r.lineBuffer = SubSeq(w, 1, k)
  PROVE  HasLine(r) <=> k = Len(w)
  <1>1. w \in Seq(ByteSet) /\ Len(w) \in {2, 3} /\ CR # LF
    BY CRLFIs DEF Ends
  <1>2. /\ Len(SubSeq(w, 1, k)) = k
        /\ \A i \in 1..k : SubSeq(w, 1, k)[i] = w[i]
    <2>1. k \in Nat /\ k <= Len(w)
      BY <1>1
    <2> QED
      BY <1>1, <2>1, FrontPart
  <1>3. HasLine(r) <=> \E i \in 1..k - 1 : w[i] = CR /\ w[i + 1] = LF
    <2>1. \A i \in 1..k - 1 : i \in 1..k /\ i + 1 \in 1..k
      BY <1>1
    <2> QED
      BY <1>2, <2>1 DEF HasLine
  <1>4. CASE Len(w) = 2
    <2>1. w[1] = CR /\ w[2] = LF
      BY <1>4 DEF Ends
    <2> QED
      BY <1>1, <1>3, <1>4, <2>1
  <1>5. CASE Len(w) = 3
    <2>1. w[2] = CR /\ w[3] = LF /\ w[1] # CR
      BY <1>5 DEF Ends
    <2> QED
      BY <1>1, <1>3, <1>5, <2>1
  <1> QED
    BY <1>1, <1>4, <1>5

\* The text of a line.
LEMMA TextOf ==
  ASSUME NEW w, Ends(w)
  PROVE  Trimmed(w) = IF Len(w) = 2 THEN <<>> ELSE <<w[1]>>
  <1>1. w \in Seq(ByteSet) /\ Len(w) \in {2, 3} /\ CR # LF /\ DOMAIN w = 1..Len(w)
    BY CRLFIs DEF Ends
  <1> DEFINE text == {i \in DOMAIN w : w[i] \notin {CR, LF}}
  <1>2. CASE Len(w) = 2
    <2>1. w[1] = CR /\ w[2] = LF
      BY <1>2 DEF Ends
    <2>2. text = {}
      BY <1>1, <1>2, <2>1
    <2> QED
      BY <1>2, <2>2 DEF Trimmed
  <1>3. CASE Len(w) = 3
    <2>1. w[2] = CR /\ w[3] = LF /\ w[1] \notin {CR, LF}
      BY <1>3 DEF Ends
    <2>2. text = {1}
      BY <1>1, <1>3, <2>1
    <2>3. Min({1}) = 1 /\ Max({1}) = 1
      BY DEF Min, Max
    <2>4. SubSeq(w, 1, 1) = <<w[1]>>
      <3>1. SubSeq(w, 1, 1) \in Seq(ByteSet) /\ Len(SubSeq(w, 1, 1)) = 1 /\ SubSeq(w, 1, 1)[1] = w[1]
        BY <1>1, <1>3, FrontPart
      <3>2. PICK s \in Seq(ByteSet) : s = SubSeq(w, 1, 1) /\ Len(s) = 1 /\ s[1] = w[1]
        BY <3>1
      <3>3. PICK y \in ByteSet : y = w[1]
        BY <3>2, ElementOfSeq
      <3>4. <<y>> \in Seq(ByteSet) /\ Len(<<y>>) = 1 /\ <<y>>[1] = y
        OBVIOUS
      <3>5. Len(s) = Len(<<y>>) /\ \A i \in 1..Len(s) : s[i] = <<y>>[i]
        BY <3>2, <3>3, <3>4
      <3>6. s = <<y>>
        BY <3>4, <3>5, SeqEqual
      <3> QED
        BY <3>2, <3>3, <3>6, Zenon
    <2>5. Trimmed(w) = IF text = {} THEN <<>> ELSE SubSeq(w, Min(text), Max(text))
      BY DEF Trimmed
    <2>6. text # {} /\ Len(w) # 2
      BY <1>3, <2>2
    <2> HIDE DEF text
    <2> QED
      BY <2>2, <2>3, <2>4, <2>5, <2>6, Zenon
  <1> QED
    BY <1>1, <1>2, <1>3

-----------------------------------------------------------------------------
(* What a call takes from the socket. *)

\* A set of natural numbers has a smallest one.
LEMMA MinOf ==
  ASSUME NEW U \in SUBSET Nat, U # {} PROVE Min(U) \in U /\ \A m \in U : Min(U) <= m
  <1>1. \E n \in U : \A m \in U : n <= m
    BY LeastNumber
  <1> QED
    BY <1>1 DEF Min

\* A line feed at the end only.
LastFeed(t) == Len(t) > 0 /\ t[Len(t)] = LF /\ \A k \in 1..Len(t) - 1 : t[k] # LF

\* Of data that goes on with the rest of a line, not more than that rest.
Reads(b, c, t, u, max) ==
    /\ Bytes(b, c, t) /\ u \in Seq(ByteSet) /\ Cut(b, c, t, u) /\ b # <<>> /\ LastFeed(t)
    /\ max \in Nat /\ max > 0

\* readLine() takes no byte from behind the end of the line (QIODevice::readLine).
LEMMA LineTaken ==
  \A b, c, t, u, max :
    Reads(b, c, t, u, max) =>
      \E m \in 1..Len(t) : m <= Len(b) /\ m <= max /\ ReadLine(b, max) = SubSeq(b, 1, m)
  <1> SUFFICES ASSUME NEW b \in Seq(ByteSet), NEW c \in Seq(ByteSet), NEW t \in Seq(ByteSet), NEW u \in Seq(ByteSet),
                      b \o c = t \o u, b # <<>>, Len(t) > 0, t[Len(t)] = LF,
                      \A k \in 1..Len(t) - 1 : t[k] # LF, NEW max \in Nat, max > 0
               PROVE  \E m \in 1..Len(t) : m <= Len(b) /\ m <= max /\ ReadLine(b, max) = SubSeq(b, 1, m)
    BY DEF Cut, LastFeed, Bytes, Reads
  <1>1. PICK M \in Nat, N \in Nat, P \in Nat, Q \in Nat :
           M = Len(b) /\ N = Len(t) /\ P = Len(c) /\ Q = Len(u)
    BY LenProperties
  <1>2. M > 0 /\ N > 0
    <2>1. Len(b) # 0
      BY EmptySeq
    <2> QED
      BY <1>1, <2>1
  <1>3. ASSUME NEW k \in Nat, k > 0, k <= M, k <= N PROVE b[k] = t[k]
    <2>1. (b \o c)[k] = b[k]
      <3>1. k \in 1..Len(b) + Len(c) /\ k <= Len(b)
        BY <1>1, <1>3
      <3> QED
        BY <3>1, ConcatProperties
    <2>2. (t \o u)[k] = t[k]
      <3>1. k \in 1..Len(t) + Len(u) /\ k <= Len(t)
        BY <1>1, <1>3
      <3> QED
        BY <3>1, ConcatProperties
    <2> QED
      BY <2>1, <2>2
  <1> DEFINE feeds == {i \in DOMAIN b : b[i] = LF}
             end == IF feeds = {} THEN Len(b) ELSE Min(feeds)
  <1>4. DOMAIN b = 1..M
    BY <1>1, LenProperties
  <1>5. feeds \in SUBSET Nat /\ \A i \in feeds : i >= 1 /\ i <= M
    BY <1>1, <1>4
  <1>6. end \in Nat /\ end >= 1 /\ end <= M /\ end <= N
    <2>1. CASE feeds = {}
      <3>1. end = M
        BY <1>1, <2>1
      <3>2. ~(N <= M)
        <4> SUFFICES ASSUME N <= M PROVE FALSE
          OBVIOUS
        <4>1. b[N] = LF /\ N \in DOMAIN b
          BY <1>1, <1>2, <1>3, <1>4
        <4> QED
          BY <2>1, <4>1
      <3> HIDE DEF end
      <3> QED
        BY <1>2, <3>1, <3>2
    <2>2. CASE feeds # {}
      <3>1. end \in feeds /\ \A m \in feeds : end <= m
        <4> HIDE DEF feeds
        <4>1. Min(feeds) \in feeds /\ \A m \in feeds : Min(feeds) <= m
          BY <1>5, <2>2, MinOf
        <4> QED
          BY <2>2, <4>1
      <3>2. end \in Nat /\ end >= 1 /\ end <= M /\ b[end] = LF
        BY <1>5, <3>1
      <3>3. end <= N
        <4> SUFFICES ASSUME ~(end <= N) PROVE FALSE
          OBVIOUS
        <4> HIDE DEF end
        <4>1. N <= M /\ N \in DOMAIN b
          BY <1>2, <1>4, <3>2
        <4>2. b[N] = LF
          BY <1>1, <1>2, <1>3, <4>1
        <4>3. N \in feeds
          BY <4>1, <4>2
        <4> HIDE DEF feeds
        <4>4. end <= N
          BY <3>1, <4>3
        <4> QED
          BY <4>4
      <3> QED
        BY <3>2, <3>3
    <2> QED
      BY <2>1, <2>2
  <1>7. ReadLine(b, max) = SubSeq(b, 1, Smaller(end, max))
    BY DEF ReadLine
  <1> HIDE DEF end
  <1>8. Smaller(end, max) \in 1..N /\ Smaller(end, max) <= M /\ Smaller(end, max) <= max
    BY <1>6 DEF Smaller
  <1> QED
    BY <1>1, <1>7, <1>8, Zenon

\* A piece of a body.
LEMMA PieceTaken ==
  ASSUME NEW b \in Seq(ByteSet), b # <<>>, NEW n \in Nat, n > 0
  PROVE  \E m \in 1..n : m <= Len(b) /\ ReadUpTo(b, n) = SubSeq(b, 1, m)
  <1>1. PICK M \in Nat : M = Len(b) /\ M > 0
    <2>1. Len(b) # 0 /\ Len(b) \in Nat
      BY EmptySeq, LenProperties
    <2> QED
      BY <2>1
  <1>2. Smaller(M, n) \in 1..n /\ Smaller(M, n) <= M
    BY <1>1 DEF Smaller
  <1> QED
    BY <1>1, <1>2 DEF ReadUpTo

\* The rest of a line that has been read in part.
LEMMA RestOfLine ==
  ASSUME NEW w, Ends(w), NEW n \in 0..Len(w) - 1, NEW t, t = SubSeq(w, n + 1, Len(w))
  PROVE  t \in Seq(ByteSet) /\ Len(t) = Len(w) - n /\ LastFeed(t)
  <1>1. w \in Seq(ByteSet) /\ Len(w) \in {2, 3} /\ CR # LF /\ n \in Nat /\ n <= Len(w)
    BY CRLFIs DEF Ends
  <1>2. t \in Seq(ByteSet) /\ Len(t) = Len(w) - n /\ \A i \in 1..Len(w) - n : t[i] = w[n + i]
    BY <1>1, BackPart
  <1>3. w[Len(w)] = LF /\ \A i \in 1..Len(w) - 1 : w[i] # LF
    <2>1. CASE Len(w) = 2
      BY <1>1, <2>1 DEF Ends
    <2>2. CASE Len(w) = 3
      <3>1. w[1] # LF /\ w[2] # LF /\ w[3] = LF
        BY <1>1, <2>2 DEF Ends
      <3>2. \A i \in 1..2 : i = 1 \/ i = 2
        OBVIOUS
      <3> QED
        BY <2>2, <3>1, <3>2
    <2> QED
      BY <1>1, <2>1, <2>2
  <1>4. PICK W \in Nat : W = Len(w) /\ n < W
    BY <1>1
  <1>5. W - n \in 1..W - n /\ n + (W - n) = W
    BY <1>4
  <1>6. t[W - n] = LF
    BY <1>2, <1>3, <1>4, <1>5
  <1>7. ASSUME NEW k \in 1..(W - n) - 1 PROVE t[k] # LF
    <2>1. k \in 1..W - n /\ n + k \in 1..W - 1
      BY <1>4
    <2> QED
      BY <1>2, <1>3, <1>4, <2>1
  <1>8. PICK L \in Nat : L = Len(t) /\ L = W - n /\ L > 0
    <2>1. W - n \in Nat /\ W - n > 0
      BY <1>4
    <2> QED
      BY <1>2, <1>4, <2>1
  <1>9. t[L] = LF /\ \A k \in 1..L - 1 : t[k] # LF
    BY <1>6, <1>7, <1>8, Zenon
  <1> QED
    BY <1>2, <1>8, <1>9, Zenon DEF LastFeed

-----------------------------------------------------------------------------
(* Sizes. *)

\* The numbers of a request.
LEMMA Numbers ==
  ASSUME NEW q \in Request
  PROVE  /\ q.blanks \in Nat /\ Len(q.headers) \in Nat /\ Len(q.body) \in Nat /\ LineCount(q) \in Nat
         /\ LineCount(q) = q.blanks + Len(q.headers) + 2
         /\ q.headers \in Seq(ByteSet) /\ q.body \in Seq(ByteSet)
  <1>1. q.blanks \in Nat /\ q.headers \in Seq(ByteSet) /\ q.body \in Seq(ByteSet)
    BY DEF Request
  <1>2. Len(q.headers) \in Nat /\ Len(q.body) \in Nat
    BY <1>1, LenProperties
  <1> QED
    BY <1>1, <1>2 DEF LineCount

\* The texts in the lines of a request from one of them on.
Texts(q, i) ==
    IF i <= q.blanks + 1 THEN Len(q.headers) + 1 ELSE IF i <= LineCount(q) THEN LineCount(q) - i ELSE 0

\* How much is to come from a line on.
LEMMA RestSize ==
  ASSUME NEW q \in Request, WellFormed(q)
  PROVE  \A i \in 1..LineCount(q) + 1 :
           /\ Len(EncodeFrom(q)[i]) = Len(q.body) + 2 * (LineCount(q) + 1 - i) + Texts(q, i)
           /\ Texts(q, i) \in Nat
  <1>1. PICK N \in Nat, b \in Nat, h \in Nat, B \in Nat :
          N = LineCount(q) /\ b = q.blanks /\ h = Len(q.headers) /\ B = Len(q.body) /\ N = b + h + 2
    BY Numbers, Zenon
  <1>n. N = b + h + 2
    BY <1>1
  <1> DEFINE T(i) == IF i <= b + 1 THEN h + 1 ELSE IF i <= N THEN N - i ELSE 0
             E == EncodeFrom(q)
             U == {i \in 1..N + 1 : Len(E[i]) = B + 2 * (N + 1 - i) + T(i)}
  <1>2. \A i \in 1..N + 1 : T(i) = Texts(q, i) /\ T(i) \in Nat
    BY <1>1 DEF Texts
  <1>3. /\ \A i \in 1..N + 1 : E[i] \in Seq(ByteSet) /\ Len(E[i]) \in Nat
        /\ \A i \in 1..N : Whole(q, i) \in Seq(ByteSet) /\ E[i] = Whole(q, i) \o E[i + 1]
        /\ E[N + 1] = q.body
    BY <1>1, Encoded, LenProperties
  <1>4. N + 1 \in U
    <2>0. ~(N + 1 <= b + 1) /\ ~(N + 1 <= N) /\ 2 * (N + 1 - (N + 1)) = 0
      BY <1>n
    <2>1. T(N + 1) = 0 /\ 2 * (N + 1 - (N + 1)) = 0
      BY <2>0
    <2>2. Len(E[N + 1]) = B
      BY <1>1, <1>3
    <2> HIDE DEF E, T
    <2> QED
      BY <2>1, <2>2
  <1>5. ASSUME NEW i \in 1..N, i + 1 \in U PROVE i \in U
    <2> DEFINE L == Len(HeadLine(q, i))
    <2>0. Len(Whole(q, i)) = IF HeadLine(q, i) = <<>> THEN 2 ELSE 3
      BY <1>1, WholeIs
    <2>1. T(i) = T(i + 1) + Len(Whole(q, i)) - 2
      <3>1. CASE i <= b \/ i = N
        <4>1. HeadLine(q, i) = <<>>
          BY <1>1, <3>1, HeadLineIs
        <4>2. T(i) = T(i + 1)
          BY <1>1, <3>1
        <4>3. T(i + 1) \in Nat
          BY <1>1
        <4> HIDE DEF T
        <4> QED
          BY <2>0, <4>1, <4>2, <4>3
      <3>2. CASE i = b + 1
        <4>1. HeadLine(q, i) = <<q.line>>
          BY <1>1, <3>2, HeadLineIs
        <4>2. HeadLine(q, i) # <<>>
          BY <4>1
        <4>5. i <= b + 1 /\ ~(i + 1 <= b + 1) /\ i + 1 <= N /\ N - (i + 1) = h
          BY <1>n, <3>2
        <4>3. T(i) = T(i + 1) + 1
          BY <4>5
        <4>4. T(i + 1) \in Nat
          BY <4>5
        <4> HIDE DEF T
        <4> QED
          BY <2>0, <4>2, <4>3, <4>4
      <3>3. CASE i > b + 1 /\ i < N
        <4>1. HeadLine(q, i) = <<q.headers[i - q.blanks - 1]>>
          BY <1>1, <3>3, HeadLineIs
        <4>2. HeadLine(q, i) # <<>>
          BY <4>1
        <4>3. T(i) = T(i + 1) + 1
          BY <1>1, <3>3
        <4>4. T(i + 1) \in Nat
          BY <1>1
        <4> HIDE DEF T
        <4> QED
          BY <2>0, <4>2, <4>3, <4>4
      <3>4. (i <= b \/ i = N) \/ i = b + 1 \/ (i > b + 1 /\ i < N)
        BY <1>n
      <3> QED
        BY <3>1, <3>2, <3>3, <3>4, Zenon
    <2>2. Len(E[i]) = Len(Whole(q, i)) + Len(E[i + 1])
      <3>1. i + 1 \in 1..N + 1
        OBVIOUS
      <3>2. PICK x \in Seq(ByteSet), y \in Seq(ByteSet) : x = Whole(q, i) /\ y = E[i + 1] /\ E[i] = x \o y
        BY <1>3, <3>1, Zenon
      <3>3. Len(x \o y) = Len(x) + Len(y)
        BY ConcatProperties
      <3> HIDE DEF E
      <3> QED
        BY <3>2, <3>3, Zenon
    <2>3. Len(E[i + 1]) = B + 2 * (N + 1 - (i + 1)) + T(i + 1)
      BY <1>5
    <2>4. PICK w \in {2, 3} : w = Len(Whole(q, i))
      BY <2>0
    <2>5. T(i + 1) \in Nat
      BY <1>1
    <2> HIDE DEF E, T
    <2>6. Len(E[i]) = B + 2 * (N + 1 - i) + T(i)
      BY <2>1, <2>2, <2>3, <2>4, <2>5
    <2> QED
      BY <2>6
  <1>6. 1..N + 1 \subseteq U
    <2> HIDE DEF U
    <2> QED
      BY <1>4, <1>5, DownInduction
  <1>7. \A i \in 1..N + 1 : Len(E[i]) = B + 2 * (N + 1 - i) + T(i)
    BY <1>6
  <1> HIDE DEF E, T
  <1>8. \A i \in 1..N + 1 : /\ Len(E[i]) = B + 2 * (N + 1 - i) + Texts(q, i)
                            /\ Texts(q, i) \in Nat
    BY <1>2, <1>7
  <1> QED
    BY <1>1, <1>8 DEF E

\* The size of a request, of its head and of its body.
LEMMA SizeIs ==
  ASSUME NEW q \in Request, WellFormed(q)
  PROVE  /\ Len(EncodeFrom(q)[1]) = Size(q) /\ Size(q) = HeadSize(q) + Len(q.body)
         /\ HeadSize(q) \in Nat /\ Len(q.body) \in Nat /\ HeadSize(q) > 0
         /\ \A i \in 1..LineCount(q) : Len(EncodeFrom(q)[i + 1]) >= Len(q.body)
         /\ \A i \in 1..LineCount(q) : i < LineCount(q) => Len(EncodeFrom(q)[i + 1]) >= Len(q.body) + 2
  <1>1. PICK N \in Nat, b \in Nat, h \in Nat, B \in Nat :
          N = LineCount(q) /\ b = q.blanks /\ h = Len(q.headers) /\ B = Len(q.body) /\ N = b + h + 2
    BY Numbers, Zenon
  <1>2. \A i \in 1..N + 1 : Len(EncodeFrom(q)[i]) = B + 2 * (N + 1 - i) + Texts(q, i) /\ Texts(q, i) \in Nat
    BY <1>1, RestSize
  <1>3. Texts(q, 1) = h + 1
    BY <1>1 DEF Texts
  <1>4. HeadSize(q) = 2 * b + 3 * (1 + h) + 2
    BY <1>1 DEF HeadSize
  <1>5. Len(EncodeFrom(q)[1]) = B + 2 * (N + 1 - 1) + Texts(q, 1)
    <2>1. 1 \in 1..N + 1
      OBVIOUS
    <2> QED
      BY <1>2, <2>1
  <1>n. N = b + h + 2
    BY <1>1
  <1>6. Len(EncodeFrom(q)[1]) = HeadSize(q) + B
    <2>1. B + 2 * (N + 1 - 1) + (h + 1) = 2 * b + 3 * (1 + h) + 2 + B
      BY <1>n
    <2> QED
      BY <1>3, <1>4, <1>5, <2>1
  <1>7. ASSUME NEW i \in 1..N PROVE /\ Len(EncodeFrom(q)[i + 1]) >= B
                                    /\ i < N => Len(EncodeFrom(q)[i + 1]) >= B + 2
    <2>1. PICK t \in Nat : t = Texts(q, i + 1) /\ Len(EncodeFrom(q)[i + 1]) = B + 2 * (N + 1 - (i + 1)) + t
      BY <1>2
    <2> QED
      BY <2>1
  <1>8. PICK H \in Nat : H = HeadSize(q) /\ H > 0
    BY <1>4
  <1>9. Size(q) = H + B
    BY <1>1, <1>8 DEF Size
  <1>10. Len(EncodeFrom(q)[1]) = H + B
    BY <1>6, <1>8
  <1> QED
    BY <1>1, <1>7, <1>8, <1>9, <1>10, Zenon

-----------------------------------------------------------------------------
(* All requests of a client. *)

\* The stream is the requests, one behind the other.
LEMMA Streamed ==
  ASSUME NEW qs \in Seq(Request), \A j \in DOMAIN qs : WellFormed(qs[j])
  PROVE  /\ \A j \in 1..Len(qs) + 1 : StreamFrom(qs)[j] \in Seq(ByteSet)
         /\ \A j \in 1..Len(qs) : /\ qs[j] \in Request /\ Encode(qs[j]) \in Seq(ByteSet)
                                  /\ WellFormed(qs[j]) /\ Len(Encode(qs[j])) > 0
                                  /\ StreamFrom(qs)[j] = Encode(qs[j]) \o StreamFrom(qs)[j + 1]
         /\ StreamFrom(qs)[Len(qs) + 1] = <<>>
  <1>1. PICK N \in Nat : N = Len(qs) /\ DOMAIN qs = 1..N
    BY LenProperties
  <1>2. \A j \in 1..N : qs[j] \in Request /\ WellFormed(qs[j])
    BY <1>1, ElementOfSeq
  <1>3. ASSUME NEW j \in 1..N PROVE Encode(qs[j]) \in Seq(ByteSet) /\ Len(Encode(qs[j])) > 0
    <2>1. PICK q \in Request : q = qs[j] /\ WellFormed(q)
      BY <1>2
    <2>2. PICK L \in Nat : L = LineCount(q) /\ L >= 2
      BY Encoded
    <2>3. 1 \in 1..L + 1
      OBVIOUS
    <2>4. EncodeFrom(q)[1] \in Seq(ByteSet)
      BY <2>2, <2>3, Encoded
    <2>5. Len(EncodeFrom(q)[1]) > 0
      <3>1. PICK x \in Nat, y \in Nat : x = HeadSize(q) /\ y = Len(q.body) /\ x > 0 /\ Len(EncodeFrom(q)[1]) = x + y
        BY <2>1, SizeIs
      <3> QED
        BY <3>1
    <2> QED
      BY <2>1, <2>4, <2>5 DEF Encode
  <1> DEFINE P == [j \in 1..N |-> Encode(qs[j])]
             Step(c) == [j \in 1..Len(qs) + 1 |->
                           IF j > Len(qs) THEN <<>> ELSE Encode(qs[j]) \o c[j + 1]]
  <1>4. P \in [1..N -> Seq(ByteSet)]
    BY <1>3
  <1>z. <<>> \in Seq(ByteSet)
    BY EmptySeq
  <1>5. ASSUME NEW c PROVE [j \in 1..N + 1 |-> IF j > N THEN <<>> ELSE P[j] \o c[j + 1]] = Step(c)
    BY <1>1
  <1>6. PICK c : Chain(ByteSet, <<>>, N, P, c)
    <2> HIDE DEF P
    <2> QED
      BY <1>4, <1>z, ChainExists
  <1>7. c = [j \in 1..N + 1 |-> IF j > N THEN <<>> ELSE P[j] \o c[j + 1]]
    <2> HIDE DEF P
    <2>1. c \in [1..N + 1 -> Seq(ByteSet)] /\ c[N + 1] = <<>> /\ \A j \in 1..N : c[j] = P[j] \o c[j + 1]
      BY <1>6 DEF Chain
    <2>2. ASSUME NEW j \in 1..N + 1 PROVE c[j] = IF j > N THEN <<>> ELSE P[j] \o c[j + 1]
      <3>1. CASE j > N
        <4>1. j = N + 1
          BY <3>1
        <4> QED
          BY <2>1, <3>1, <4>1
      <3>2. CASE ~(j > N)
        <4>1. j \in 1..N
          BY <3>2
        <4> QED
          BY <2>1, <3>2, <4>1
      <3> QED
        BY <3>1, <3>2
    <2> QED
      BY <2>1, <2>2
  <1>8. c = Step(c)
    BY <1>5, <1>7
  <1>9. StreamFrom(qs) = Step(StreamFrom(qs))
    BY <1>8 DEF StreamFrom
  <1>10. PICK f : f = StreamFrom(qs)
    OBVIOUS
  <1>11. f = [j \in 1..N + 1 |-> IF j > N THEN <<>> ELSE P[j] \o f[j + 1]]
    <2> HIDE DEF Step, P
    <2>1. f = Step(f)
      BY <1>9, <1>10
    <2>2. [j \in 1..N + 1 |-> IF j > N THEN <<>> ELSE P[j] \o f[j + 1]] = Step(f)
      BY <1>5
    <2> QED
      BY <2>1, <2>2
  <1>12. Chain(ByteSet, <<>>, N, P, f)
    <2> HIDE DEF P
    <2> QED
      BY <1>4, <1>11, <1>z, ChainOf
  <1>13. f \in [1..N + 1 -> Seq(ByteSet)] /\ f[N + 1] = <<>> /\ \A j \in 1..N : f[j] = P[j] \o f[j + 1]
    BY <1>12 DEF Chain
  <1>14. \A j \in 1..N : f[j] = Encode(qs[j]) \o f[j + 1]
    BY <1>13
  <1> HIDE DEF P
  <1> QED
    BY <1>1, <1>2, <1>3, <1>10, <1>13, <1>14

\* The later the request, the less is to come.
LEMMA StreamShrinks ==
  ASSUME NEW qs \in Seq(Request), \A j \in DOMAIN qs : WellFormed(qs[j]),
         NEW i \in 1..Len(qs) + 1, NEW j \in i..Len(qs) + 1
  PROVE  Len(StreamFrom(qs)[j]) <= Len(StreamFrom(qs)[i])
  <1>1. PICK N \in Nat : N = Len(qs)
    BY LenProperties
  <1> DEFINE s == StreamFrom(qs)
             U == {k \in 1..N + 1 : \A m \in k..N + 1 : Len(s[m]) <= Len(s[k])}
  <1>2. \A k \in 1..N + 1 : Len(s[k]) \in Nat
    BY <1>1, Streamed, LenProperties
  <1>3. \A k \in 1..N : Len(s[k + 1]) <= Len(s[k])
    <2>1. ASSUME NEW k \in 1..N PROVE Len(s[k + 1]) <= Len(s[k])
      <3>1. PICK x \in Seq(ByteSet), y \in Seq(ByteSet) : y = s[k + 1] /\ s[k] = x \o y
        <4>1. k + 1 \in 1..N + 1
          OBVIOUS
        <4> QED
          BY <1>1, <4>1, Streamed
      <3>2. Len(x \o y) = Len(x) + Len(y) /\ Len(x) \in Nat /\ Len(y) \in Nat
        BY ConcatProperties, LenProperties
      <3> HIDE DEF s
      <3> QED
        BY <3>1, <3>2
    <2> QED
      BY <2>1
  <1> HIDE DEF s
  <1>4. N + 1 \in U
    <2>1. \A m \in N + 1..N + 1 : m = N + 1
      OBVIOUS
    <2>2. N + 1 \in 1..N + 1
      OBVIOUS
    <2> QED
      BY <1>2, <2>1, <2>2
  <1>5. ASSUME NEW k \in 1..N, k + 1 \in U PROVE k \in U
    <2>1. ASSUME NEW m \in k..N + 1 PROVE Len(s[m]) <= Len(s[k])
      <3>1. CASE m = k
        BY <1>2, <3>1
      <3>2. CASE m # k
        <4>1. m \in k + 1..N + 1 /\ k \in 1..N + 1 /\ k + 1 \in 1..N + 1 /\ m \in 1..N + 1
          BY <3>2
        <4>2. Len(s[m]) <= Len(s[k + 1])
          BY <1>5, <4>1
        <4>3. Len(s[k + 1]) <= Len(s[k])
          BY <1>3
        <4> QED
          BY <1>2, <4>1, <4>2, <4>3
      <3> QED
        BY <3>1, <3>2
    <2>2. k \in 1..N + 1
      OBVIOUS
    <2> QED
      BY <2>1, <2>2
  <1>6. 1..N + 1 \subseteq U
    <2> HIDE DEF U
    <2> QED
      BY <1>4, <1>5, DownInduction
  <1>7. i \in U /\ j \in i..N + 1
    BY <1>1, <1>6
  <1> QED
    BY <1>7 DEF s

-----------------------------------------------------------------------------
(* What parseMultiPartFile() makes of a form. *)

\* The lines of s lead from one state to another.
Steps(m, s, h) ==
    /\ h = [n \in 0..Len(s) |-> h[n]] /\ h[0] = m
    /\ \A i \in 1..Len(s) : h[i] = ParseLine(h[i - 1], s[i])
Parses(m, s, w) == \E h : Steps(m, s, h) /\ h[Len(s)] = w

\* The parser's state after a sequence of lines.
LEMMA ParsesIs ==
  ASSUME NEW s \in Seq(ByteSet), NEW m, NEW w, Parses(m, s, w)
  PROVE  Parsed(m, s)[Len(s)] = w
  <1>1. PICK N \in Nat : N = Len(s)
    BY LenProperties
  <1>2. PICK h : Steps(m, s, h) /\ h[Len(s)] = w
    BY DEF Parses
  <1>3. /\ h = [n \in 0..N |-> h[n]] /\ h[0] = m /\ h[N] = w
        /\ \A i \in 1..N : h[i] = ParseLine(h[i - 1], s[i])
    BY <1>1, <1>2 DEF Steps
  <1> DEFINE Step(f) == [n \in 0..Len(s) |-> IF n = 0 THEN m ELSE ParseLine(f[n - 1], s[n])]
  <1>4. h = Step(h)
    <2>1. ASSUME NEW n \in 0..N PROVE h[n] = IF n = 0 THEN m ELSE ParseLine(h[n - 1], s[n])
      <3>1. CASE n = 0
        BY <1>3, <3>1
      <3>2. CASE n # 0
        <4>1. n \in 1..N
          BY <3>2
        <4> QED
          BY <1>3, <3>2, <4>1
      <3> QED
        BY <3>1, <3>2
    <2> QED
      BY <1>1, <1>3, <2>1
  <1>5. Parsed(m, s) = Step(Parsed(m, s))
    BY <1>4 DEF Parsed
  <1>6. PICK g : g = Parsed(m, s)
    OBVIOUS
  <1>7. g[0] = m /\ \A i \in 1..N : g[i] = ParseLine(g[i - 1], s[i])
    <2>1. g = Step(g)
      BY <1>5, <1>6
    <2>2. g[0] = m
      BY <1>1, <2>1
    <2>3. ASSUME NEW i \in 1..N PROVE g[i] = ParseLine(g[i - 1], s[i])
      <3>1. i \in 0..Len(s) /\ i # 0
        BY <1>1
      <3> QED
        BY <2>1, <3>1
    <2> QED
      BY <2>2, <2>3
  <1> DEFINE U == {n \in Nat : n <= N => g[n] = h[n]}
  <1>8. 0 \in U
    BY <1>3, <1>7
  <1>9. ASSUME NEW n \in Nat, n \in U PROVE n + 1 \in U
    <2> SUFFICES ASSUME n + 1 <= N PROVE g[n + 1] = h[n + 1]
      OBVIOUS
    <2>1. n + 1 \in 1..N /\ n + 1 - 1 = n /\ n <= N
      OBVIOUS
    <2>2. g[n] = h[n]
      BY <1>9, <2>1
    <2>3. PICK k \in 1..N : k = n + 1 /\ k - 1 = n
      BY <2>1
    <2>4. g[k] = ParseLine(g[k - 1], s[k]) /\ h[k] = ParseLine(h[k - 1], s[k])
      BY <1>3, <1>7, Zenon
    <2>5. g[k - 1] = h[k - 1]
      BY <2>2, <2>3, Zenon
    <2> QED
      BY <2>3, <2>4, <2>5, Zenon
  <1>10. Nat \subseteq U
    <2> HIDE DEF U
    <2> QED
      BY <1>8, <1>9, InductionOverSet
  <1> QED
    BY <1>1, <1>3, <1>6, <1>10

\* Parsing two sequences of lines, one after the other.
LEMMA ParsesBoth ==
  ASSUME NEW s \in Seq(ByteSet), NEW t \in Seq(ByteSet), NEW m, NEW w, NEW z,
         Parses(m, s, w), Parses(w, t, z)
  PROVE  Parses(m, s \o t, z)
  <1>1. PICK M \in Nat, N \in Nat : M = Len(s) /\ N = Len(t)
    BY LenProperties
  <1>2. PICK f : Steps(m, s, f) /\ f[Len(s)] = w
    BY DEF Parses
  <1>3. PICK g : Steps(w, t, g) /\ g[Len(t)] = z
    BY DEF Parses
  <1>4. /\ f[0] = m /\ f[M] = w /\ g[0] = w /\ g[N] = z
        /\ \A i \in 1..M : f[i] = ParseLine(f[i - 1], s[i])
        /\ \A i \in 1..N : g[i] = ParseLine(g[i - 1], t[i])
    BY <1>1, <1>2, <1>3 DEF Steps
  <1>5. PICK r : r = s \o t /\ Len(r) = M + N /\ \A i \in 1..M + N : r[i] = IF i <= M THEN s[i] ELSE t[i - M]
    <2>1. Len(s \o t) = Len(s) + Len(t)
          /\ \A i \in 1..Len(s) + Len(t) : (s \o t)[i] = IF i <= Len(s) THEN s[i] ELSE t[i - Len(s)]
      BY ConcatProperties
    <2> QED
      BY <1>1, <2>1, Zenon
  <1> DEFINE h == [n \in 0..M + N |-> IF n <= M THEN f[n] ELSE g[n - M]]
  <1>6. ASSUME NEW i \in 1..M + N PROVE h[i] = ParseLine(h[i - 1], r[i])
    <2>1. i - 1 \in 0..M + N /\ i \in 0..M + N
      OBVIOUS
    <2>2. CASE i <= M
      <3>1. i \in 1..M /\ i - 1 <= M
        BY <2>2
      <3> QED
        BY <1>4, <1>5, <2>1, <2>2, <3>1
    <2>3. CASE i = M + 1
      <3>1. 1 \in 1..N /\ i - M = 1 /\ i - 1 = M /\ ~(i <= M) /\ 1 - 1 = 0
        BY <2>3
      <3>2. h[i] = g[1] /\ h[i - 1] = f[M] /\ r[i] = t[1]
        BY <1>5, <2>1, <2>3, <3>1
      <3>3. g[1] = ParseLine(g[1 - 1], t[1])
        BY <1>4, <3>1
      <3> HIDE DEF h
      <3> QED
        BY <1>4, <3>1, <3>2, <3>3
    <2>4. CASE i > M + 1
      <3>1. i - M \in 1..N /\ (i - M) - 1 = (i - 1) - M /\ ~(i <= M) /\ ~(i - 1 <= M)
        BY <2>4
      <3>2. h[i] = g[i - M] /\ h[i - 1] = g[(i - 1) - M] /\ r[i] = t[i - M]
        BY <1>5, <2>1, <3>1
      <3> HIDE DEF h
      <3> QED
        BY <1>4, <3>1, <3>2
    <2>5. i <= M \/ i = M + 1 \/ i > M + 1
      OBVIOUS
    <2> HIDE DEF h
    <2> QED
      BY <2>2, <2>3, <2>4, <2>5
  <1>7. h[0] = m /\ h[M + N] = z
    <2>1. h[0] = f[0]
      OBVIOUS
    <2>2. h[M + N] = z
      <3>1. CASE N = 0
        <4>1. M + N = M
          BY <3>1
        <4> QED
          BY <1>4, <3>1, <4>1
      <3>2. CASE N # 0
        <4>1. ~(M + N <= M) /\ M + N - M = N /\ M + N \in 0..M + N
          BY <3>2
        <4> QED
          BY <1>4, <4>1
      <3> QED
        BY <3>1, <3>2
    <2> HIDE DEF h
    <2> QED
      BY <1>4, <2>1, <2>2
  <1>8. h = [n \in 0..M + N |-> h[n]]
    OBVIOUS
  <1> HIDE DEF h
  <1>9. Steps(m, r, h) /\ h[Len(r)] = z
    BY <1>5, <1>6, <1>7, <1>8 DEF Steps
  <1> QED
    BY <1>5, <1>9 DEF Parses

\* Parsing one line.
LEMMA ParsesOne ==
  ASSUME NEW m, NEW e \in ByteSet
  PROVE  Parses(m, <<e>>, ParseLine(m, e))
  <1> DEFINE h == [n \in 0..1 |-> IF n = 0 THEN m ELSE ParseLine(m, e)]
  <1>1. Len(<<e>>) = 1 /\ <<e>>[1] = e
    OBVIOUS
  <1>2. h[0] = m /\ h[1] = ParseLine(m, e) /\ h = [n \in 0..1 |-> h[n]]
    OBVIOUS
  <1> HIDE DEF h
  <1>3. \A i \in 1..1 : i = 1 /\ i - 1 = 0
    OBVIOUS
  <1>4. \A i \in 1..Len(<<e>>) : h[i] = ParseLine(h[i - 1], <<e>>[i])
    BY <1>1, <1>2, <1>3
  <1>5. Steps(m, <<e>>, h)
    BY <1>1, <1>2, <1>4 DEF Steps
  <1> QED
    BY <1>1, <1>2, <1>5 DEF Parses

-----------------------------------------------------------------------------
(* The state of the parser, from its parts. *)

Part(inData, field, file, value, uploaded) ==
    [inData |-> inData, field |-> field, file |-> file, value |-> value, uploaded |-> uploaded]
Form(part, finished, parameters, files, fieldBytes, opened) ==
    [part |-> part, finished |-> finished, parameters |-> parameters, files |-> files,
     fieldBytes |-> fieldBytes, opened |-> opened]

-----------------------------------------------------------------------------
(* The value of a field, the lines of a file. *)

\* The beginnings of a sequence.
LEMMA Growing ==
  ASSUME NEW S, NEW s \in Seq(S)
  PROVE  /\ SubSeq(s, 1, 0) = <<>> /\ SubSeq(s, 1, Len(s)) = s
         /\ \A n \in 1..Len(s) : Append(SubSeq(s, 1, n - 1), s[n]) = SubSeq(s, 1, n)
  <1>1. SubSeq(s, 1, 0) = <<>>
    BY SubSeqEmpty
  <1>2. SubSeq(s, 1, Len(s)) = s
    BY SubSeqFull
  <1>3. ASSUME NEW n \in 1..Len(s) PROVE Append(SubSeq(s, 1, n - 1), s[n]) = SubSeq(s, 1, n)
    <2>1. Len(s) \in Nat
      BY LenProperties
    <2>2. 1 \in 1..Len(s) /\ n \in 1..Len(s)
      BY <2>1
    <2>3. SubSeq(s, 1, n) = SubSeq(s, 1, n - 1) \o <<s[n]>>
      BY <2>2, SubSeqRecursiveSecond
    <2>4. PICK x \in S : x = s[n]
      BY ElementOfSeq
    <2>5. PICK t \in Seq(S) : t = SubSeq(s, 1, n - 1)
      <3>1. n - 1 \in Nat /\ n - 1 <= Len(s)
        BY <2>1
      <3>2. SubSeq(s, 1, n - 1) \in Seq(S)
        BY <3>1, FrontPart
      <3> QED
        BY <3>2
    <2>6. Append(t, x) = t \o <<x>>
      BY AppendIsConcat
    <2> QED
      BY <2>3, <2>4, <2>5, <2>6, Zenon
  <1> QED
    BY <1>1, <1>2, <1>3

DataLines(v) == \A j \in DOMAIN v : v[j].kind \notin {"delimiter", "end"}

\* The lines of a field are its value, and each of them is counted.
LEMMA FieldValue ==
  ASSUME NEW v \in Seq(ByteSet), DataLines(v), NEW P, NEW F, NEW L \in Int, NEW O, NEW field, field # NoName
  PROVE  Parses(Form(Part(TRUE, field, NoName, <<>>, FALSE), FALSE, P, F, L, O), v,
                Form(Part(TRUE, field, NoName, v, FALSE), FALSE, P, F, L + Len(v), O))
  <1>1. PICK N \in Nat : N = Len(v) /\ DOMAIN v = 1..N
    BY LenProperties
  <1> DEFINE At(n) == Form(Part(TRUE, field, NoName, SubSeq(v, 1, n), FALSE), FALSE, P, F, L + n, O)
             h == [n \in 0..N |-> At(n)]
  <1>2. ASSUME NEW i \in 1..N PROVE h[i] = ParseLine(h[i - 1], v[i])
    <2>0. i \in 0..N /\ i - 1 \in 0..N
      OBVIOUS
    <2>1. h[i] = At(i) /\ h[i - 1] = At(i - 1)
      <3> HIDE DEF At
      <3> QED
        BY <2>0
    <2>2. PICK e \in ByteSet : e = v[i] /\ e.kind \notin {"delimiter", "end"}
      BY <1>1, ElementOfSeq DEF DataLines
    <2>3. ParseLine(At(i - 1), e) =
            Form(Part(TRUE, field, NoName, Append(SubSeq(v, 1, i - 1), e), FALSE), FALSE, P, F, L + (i - 1) + 1, O)
      BY <2>2 DEF ParseLine, Form, Part, PartData
    <2>4. Append(SubSeq(v, 1, i - 1), e) = SubSeq(v, 1, i)
      BY <1>1, <2>2, Growing
    <2>5. L + (i - 1) + 1 = L + i
      OBVIOUS
    <2> HIDE DEF h
    <2> QED
      BY <2>1, <2>2, <2>3, <2>4, <2>5, Zenon
  <1>3. h[0] = Form(Part(TRUE, field, NoName, <<>>, FALSE), FALSE, P, F, L, O)
    <2>1. h[0] = At(0) /\ L + 0 = L
      OBVIOUS
    <2>2. SubSeq(v, 1, 0) = <<>>
      BY Growing
    <2> HIDE DEF h
    <2> QED
      BY <2>1, <2>2, Zenon
  <1>4. h[N] = Form(Part(TRUE, field, NoName, v, FALSE), FALSE, P, F, L + Len(v), O)
    <2>1. h[N] = At(N)
      OBVIOUS
    <2>2. SubSeq(v, 1, N) = v
      BY <1>1, Growing
    <2> HIDE DEF h
    <2> QED
      BY <1>1, <2>1, <2>2, Zenon
  <1>5. h = [n \in 0..N |-> h[n]]
    OBVIOUS
  <1> HIDE DEF h
  <1> QED
    BY <1>1, <1>2, <1>3, <1>4, <1>5 DEF Steps, Parses

\* The lines of a file are its content, and one temporary file is opened for it.
LEMMA FileLines ==
  ASSUME NEW v \in Seq(ByteSet), DataLines(v), v # <<>>, NEW P, NEW F, NEW L, NEW O \in Nat,
         NEW field, field # NoName, NEW file, file # NoName
  PROVE  Parses(Form(Part(TRUE, field, file, <<>>, FALSE), FALSE, P, F, L, O), v,
                Form(Part(TRUE, field, file, v, TRUE), FALSE, P, F, L, O + 1))
  <1>1. PICK N \in Nat : N = Len(v) /\ DOMAIN v = 1..N /\ N > 0
    <2>1. Len(v) \in Nat \ {0}
      BY EmptySeq
    <2>2. Len(v) \in Nat /\ Len(v) > 0
      BY <2>1
    <2> QED
      BY <2>2, LenProperties
  <1> DEFINE At(n) == IF n = 0 THEN Form(Part(TRUE, field, file, <<>>, FALSE), FALSE, P, F, L, O)
                      ELSE Form(Part(TRUE, field, file, SubSeq(v, 1, n), TRUE), FALSE, P, F, L, O + 1)
             h == [n \in 0..N |-> At(n)]
  <1>2. ASSUME NEW i \in 1..N PROVE h[i] = ParseLine(h[i - 1], v[i])
    <2>0. i \in 0..N /\ i - 1 \in 0..N
      OBVIOUS
    <2>1. h[i] = At(i) /\ h[i - 1] = At(i - 1)
      <3> HIDE DEF At
      <3> QED
        BY <2>0
    <2>2. PICK e \in ByteSet : e = v[i] /\ e.kind \notin {"delimiter", "end"}
      BY <1>1, ElementOfSeq DEF DataLines
    <2>3. Append(SubSeq(v, 1, i - 1), e) = SubSeq(v, 1, i)
      BY <1>1, <2>2, Growing
    <2>4. At(i) = Form(Part(TRUE, field, file, SubSeq(v, 1, i), TRUE), FALSE, P, F, L, O + 1)
      <3>1. i # 0
        OBVIOUS
      <3> QED
        BY <3>1, Zenon
    <2>5. CASE i = 1
      <3>1. SubSeq(v, 1, i - 1) = <<>>
        BY <2>5, Growing
      <3>2. ParseLine(Form(Part(TRUE, field, file, <<>>, FALSE), FALSE, P, F, L, O), e) =
              Form(Part(TRUE, field, file, Append(<<>>, e), TRUE), FALSE, P, F, L, O + 1)
        BY <2>2 DEF ParseLine, Form, Part, PartData
      <3>3. At(i - 1) = Form(Part(TRUE, field, file, <<>>, FALSE), FALSE, P, F, L, O)
        BY <2>5
      <3> HIDE DEF h, At
      <3> QED
        BY <2>1, <2>2, <2>3, <2>4, <3>1, <3>2, <3>3, Zenon
    <2>6. CASE i # 1
      <3>1. At(i - 1) = Form(Part(TRUE, field, file, SubSeq(v, 1, i - 1), TRUE), FALSE, P, F, L, O + 1)
        BY <2>6
      <3>2. ParseLine(Form(Part(TRUE, field, file, SubSeq(v, 1, i - 1), TRUE), FALSE, P, F, L, O + 1), e) =
              Form(Part(TRUE, field, file, Append(SubSeq(v, 1, i - 1), e), TRUE), FALSE, P, F, L, O + 1)
        BY <2>2 DEF ParseLine, Form, Part, PartData
      <3> HIDE DEF h, At
      <3> QED
        BY <2>1, <2>2, <2>3, <2>4, <3>1, <3>2, Zenon
    <2> QED
      BY <2>5, <2>6
  <1>3. h[0] = Form(Part(TRUE, field, file, <<>>, FALSE), FALSE, P, F, L, O)
    OBVIOUS
  <1>4. h[N] = Form(Part(TRUE, field, file, v, TRUE), FALSE, P, F, L, O + 1)
    <2>1. h[N] = At(N) /\ N # 0
      BY <1>1
    <2>2. SubSeq(v, 1, N) = v
      BY <1>1, Growing
    <2> HIDE DEF h
    <2> QED
      BY <1>1, <2>1, <2>2, Zenon
  <1>5. h = [n \in 0..N |-> h[n]]
    OBVIOUS
  <1> HIDE DEF h
  <1> QED
    BY <1>1, <1>2, <1>3, <1>4, <1>5 DEF Steps, Parses

-----------------------------------------------------------------------------
(* What has been found after some of the sections. *)

ParametersTo(ss, i) ==
    {<<ss[j].field, IF ss[j].file = NoName THEN ss[j].value ELSE <<ss[j].file>> >> : j \in 1..i}
UploadsTo(ss, i) == {k \in 1..i : ss[k].file # NoName}
FieldsTo(ss, i) == {ss[j].field : j \in UploadsTo(ss, i)}
Of(ss, i, f) == {k \in UploadsTo(ss, i) : ss[k].field = f}
FilesTo(ss, i) == [f \in FieldsTo(ss, i) |-> ss[Max(Of(ss, i, f))].value]

\* One more section: its file is the last of its field.
LEMMA OneMore ==
  ASSUME NEW ss, NEW i \in Nat, i > 0
  PROVE  /\ ss[i].file = NoName => UploadsTo(ss, i) = UploadsTo(ss, i - 1)
         /\ ss[i].file # NoName =>
              /\ UploadsTo(ss, i) = UploadsTo(ss, i - 1) \cup {i} /\ i \notin UploadsTo(ss, i - 1)
              /\ FieldsTo(ss, i) = FieldsTo(ss, i - 1) \cup {ss[i].field}
              /\ Max(Of(ss, i, ss[i].field)) = i
              /\ \A f : f # ss[i].field => Of(ss, i, f) = Of(ss, i - 1, f)
  <1>1. 1..i = (1..i - 1) \cup {i} /\ i \notin 1..i - 1 /\ i \in 1..i
    OBVIOUS
  <1>2. ss[i].file = NoName => UploadsTo(ss, i) = UploadsTo(ss, i - 1)
    BY <1>1 DEF UploadsTo
  <1>3. ASSUME ss[i].file # NoName
        PROVE  /\ UploadsTo(ss, i) = UploadsTo(ss, i - 1) \cup {i} /\ i \notin UploadsTo(ss, i - 1)
               /\ FieldsTo(ss, i) = FieldsTo(ss, i - 1) \cup {ss[i].field}
               /\ Max(Of(ss, i, ss[i].field)) = i
               /\ \A f : f # ss[i].field => Of(ss, i, f) = Of(ss, i - 1, f)
    <2>1. UploadsTo(ss, i) = UploadsTo(ss, i - 1) \cup {i} /\ i \notin UploadsTo(ss, i - 1)
      BY <1>1, <1>3 DEF UploadsTo
    <2>2. FieldsTo(ss, i) = FieldsTo(ss, i - 1) \cup {ss[i].field}
      BY <2>1, Zenon DEF FieldsTo
    <2>3. PICK K : K = Of(ss, i, ss[i].field)
      OBVIOUS
    <2>4. i \in K /\ \A k \in K : k \in Nat /\ i >= k
      BY <2>1, <2>3 DEF Of, UploadsTo
    <2>5. Max(K) = i
      <3>1. \A k \in K : (\A y \in K : k >= y) => k = i
        BY <2>4
      <3> QED
        BY <2>4, <3>1 DEF Max
    <2>6. ASSUME NEW f, f # ss[i].field PROVE Of(ss, i, f) = Of(ss, i - 1, f)
      BY <2>1, <2>6 DEF Of
    <2> QED
      BY <2>1, <2>2, <2>3, <2>5, <2>6
  <1> QED
    BY <1>2, <1>3

\* What the sections of a form amount to, one after the other.
LEMMA FilesKnown ==
  ASSUME NEW ss \in Seq(Section)
  PROVE  /\ ParametersTo(ss, Len(ss)) = Parameters(ss) /\ FilesTo(ss, Len(ss)) = Files(ss)
         /\ UploadsTo(ss, Len(ss)) = Uploads(ss) /\ FieldsTo(ss, Len(ss)) = FileFields(ss)
         /\ ParametersTo(ss, 0) = {} /\ UploadsTo(ss, 0) = {} /\ FilesTo(ss, 0) = [f \in {} |-> <<>>]
         /\ \A i \in 0..Len(ss) : IsFiniteSet(UploadsTo(ss, i))
         /\ \A i \in 1..Len(ss) :
              /\ ParametersTo(ss, i) = ParametersTo(ss, i - 1) \cup
                   {<<ss[i].field, IF ss[i].file = NoName THEN ss[i].value ELSE <<ss[i].file>> >>}
              /\ ss[i].file = NoName => FilesTo(ss, i) = FilesTo(ss, i - 1) /\ UploadsTo(ss, i) = UploadsTo(ss, i - 1)
              /\ ss[i].file # NoName =>
                   /\ FilesTo(ss, i) = Put(FilesTo(ss, i - 1), ss[i].field, ss[i].value)
                   /\ UploadsTo(ss, i) = UploadsTo(ss, i - 1) \cup {i}
                   /\ i \notin UploadsTo(ss, i - 1)
  <1>1. PICK N \in Nat : N = Len(ss) /\ DOMAIN ss = 1..N
    BY LenProperties
  <1>2. Uploads(ss) = UploadsTo(ss, N)
    BY <1>1 DEF Uploads, UploadsTo
  <1>3. ParametersTo(ss, N) = Parameters(ss)
    <2>1. ToSet(ss) = {ss[i] : i \in 1..N}
      BY <1>1 DEF ToSet
    <2> QED
      BY <2>1 DEF ParametersTo, Parameters
  <1>4. FilesTo(ss, N) = Files(ss) /\ FieldsTo(ss, N) = FileFields(ss)
    <2>1. FieldsTo(ss, N) = FileFields(ss)
      BY <1>2 DEF FieldsTo, FileFields
    <2> QED
      BY <1>2, <2>1 DEF FilesTo, Files, Of
  <1>5. ParametersTo(ss, 0) = {} /\ UploadsTo(ss, 0) = {}
    BY DEF ParametersTo, UploadsTo
  <1>6. FilesTo(ss, 0) = [f \in {} |-> <<>>]
    <2>1. FieldsTo(ss, 0) = {}
      BY <1>5 DEF FieldsTo
    <2> QED
      BY <2>1 DEF FilesTo
  <1>7. ASSUME NEW i \in 1..N
        PROVE  ParametersTo(ss, i) = ParametersTo(ss, i - 1) \cup
                 {<<ss[i].field, IF ss[i].file = NoName THEN ss[i].value ELSE <<ss[i].file>> >>}
    <2>1. 1..i = (1..i - 1) \cup {i}
      OBVIOUS
    <2> QED
      BY <2>1, Zenon DEF ParametersTo
  <1>8. ASSUME NEW i \in 1..N, ss[i].file # NoName
        PROVE  FilesTo(ss, i) = Put(FilesTo(ss, i - 1), ss[i].field, ss[i].value)
    <2>1. i \in Nat /\ i > 0
      OBVIOUS
    <2>2. /\ FieldsTo(ss, i) = FieldsTo(ss, i - 1) \cup {ss[i].field}
          /\ Max(Of(ss, i, ss[i].field)) = i
          /\ \A f : f # ss[i].field => Of(ss, i, f) = Of(ss, i - 1, f)
      BY <1>8, <2>1, OneMore
    <2>3. PICK g, h, k, v : /\ g = FilesTo(ss, i - 1) /\ k = ss[i].field /\ v = ss[i].value
                            /\ h = Put(g, k, v)
      OBVIOUS
    <2>4. /\ DOMAIN h = {k} \cup DOMAIN g /\ h[k] = v /\ \A x \in DOMAIN g : x # k => h[x] = g[x]
          /\ h = [x \in {k} \cup DOMAIN g |-> h[x]]
      BY <2>3 DEF Put
    <2>5. DOMAIN g = FieldsTo(ss, i - 1) /\ \A x \in DOMAIN g : g[x] = ss[Max(Of(ss, i - 1, x))].value
      BY <2>3 DEF FilesTo
    <2>6. FieldsTo(ss, i) = {k} \cup DOMAIN g
      BY <2>2, <2>3, <2>5
    <2>7. ASSUME NEW x \in FieldsTo(ss, i) PROVE h[x] = ss[Max(Of(ss, i, x))].value
      <3>1. CASE x = k
        <4>1. ss[Max(Of(ss, i, k))].value = v
          BY <2>2, <2>3, Zenon
        <4> QED
          BY <2>4, <3>1, <4>1, Zenon
      <3>2. CASE x # k
        <4>1. x \in DOMAIN g /\ Of(ss, i, x) = Of(ss, i - 1, x)
          BY <2>2, <2>3, <2>6, <3>2
        <4> QED
          BY <2>4, <2>5, <3>2, <4>1, Zenon
      <3> QED
        BY <3>1, <3>2
    <2>8. h = [x \in FieldsTo(ss, i) |-> ss[Max(Of(ss, i, x))].value]
      <3>1. h = [x \in FieldsTo(ss, i) |-> h[x]]
        BY <2>4, <2>6, Zenon
      <3> QED
        BY <2>7, <3>1
    <2> QED
      BY <2>3, <2>8 DEF FilesTo
  <1>9. ASSUME NEW i \in 1..N, ss[i].file = NoName
        PROVE  FilesTo(ss, i) = FilesTo(ss, i - 1) /\ UploadsTo(ss, i) = UploadsTo(ss, i - 1)
    <2>1. i \in Nat /\ i > 0
      OBVIOUS
    <2>2. UploadsTo(ss, i) = UploadsTo(ss, i - 1)
      BY <1>9, <2>1, OneMore
    <2> QED
      BY <2>2 DEF FilesTo, FieldsTo, Of
  <1>10. ASSUME NEW i \in 1..N, ss[i].file # NoName
         PROVE  UploadsTo(ss, i) = UploadsTo(ss, i - 1) \cup {i} /\ i \notin UploadsTo(ss, i - 1)
    <2>1. i \in Nat /\ i > 0
      OBVIOUS
    <2> QED
      BY <1>10, <2>1, OneMore
  <1>11. ASSUME NEW i \in 0..N PROVE IsFiniteSet(UploadsTo(ss, i))
    <2>1. IsFiniteSet(1..i) /\ UploadsTo(ss, i) \subseteq 1..i
      BY FS_Interval DEF UploadsTo
    <2> QED
      BY <2>1, FS_Subset
  <1> QED
    BY <1>1, <1>2, <1>3, <1>4, <1>5, <1>6, <1>7, <1>8, <1>9, <1>10, <1>11

\* The lines that are counted.
Counted(s) == IF s.file = NoName THEN Len(s.value) ELSE 0

\* The lines of all fields, counted from the last section.
LEMMA LinesCounted ==
  ASSUME NEW ss \in Seq(Section)
  PROVE  /\ FieldLinesFrom(ss)[Len(ss) + 1] = 0
         /\ \A i \in 1..Len(ss) + 1 : FieldLinesFrom(ss)[i] \in Nat
         /\ \A i \in 1..Len(ss) : FieldLinesFrom(ss)[i] = FieldLinesFrom(ss)[i + 1] + Counted(ss[i])
  <1>1. PICK N \in Nat : N = Len(ss)
    BY LenProperties
  <1>2. \A i \in 1..N : Counted(ss[i]) \in Nat
    <2>1. ASSUME NEW i \in 1..N PROVE Counted(ss[i]) \in Nat
      <3>1. ss[i] \in Section
        BY <1>1, ElementOfSeq
      <3>2. ss[i].value \in Seq(ByteSet)
        BY <3>1 DEF Section
      <3>3. Len(ss[i].value) \in Nat
        BY <3>2, LenProperties
      <3> QED
        BY <3>3 DEF Counted
    <2> QED
      BY <2>1
  <1> DEFINE F == [i \in 1..N |-> [x \in Nat |-> x + Counted(ss[i])]]
             Step(c) == [i \in 1..Len(ss) + 1 |->
                           IF i > Len(ss) THEN 0
                           ELSE c[i + 1] + IF ss[i].file = NoName THEN Len(ss[i].value) ELSE 0]
  <1>3. F \in [1..N -> [Nat -> Nat]]
    BY <1>2
  <1>4. PICK c : Downwards(Nat, 0, N, F, c)
    <2> HIDE DEF F
    <2> QED
      BY <1>3, DownRecursion
  <1>5. c \in [1..N + 1 -> Nat] /\ c[N + 1] = 0 /\ \A i \in 1..N : c[i] = c[i + 1] + Counted(ss[i])
    <2>1. c \in [1..N + 1 -> Nat] /\ c[N + 1] = 0 /\ \A i \in 1..N : c[i] = F[i][c[i + 1]]
      BY <1>4 DEF Downwards
    <2>2. ASSUME NEW i \in 1..N PROVE c[i] = c[i + 1] + Counted(ss[i])
      <3>1. c[i + 1] \in Nat
        BY <2>1
      <3> QED
        BY <2>1, <3>1
    <2> QED
      BY <2>1, <2>2
  <1>6. c = Step(c)
    <2>1. ASSUME NEW i \in 1..N + 1
          PROVE  c[i] = IF i > N THEN 0 ELSE c[i + 1] + IF ss[i].file = NoName THEN Len(ss[i].value) ELSE 0
      <3>1. CASE i > N
        <4>1. i = N + 1
          BY <3>1
        <4> QED
          BY <1>5, <3>1, <4>1
      <3>2. CASE ~(i > N)
        <4>1. i \in 1..N
          BY <3>2
        <4> QED
          BY <1>5, <3>2, <4>1 DEF Counted
      <3> QED
        BY <3>1, <3>2
    <2> QED
      BY <1>1, <1>5, <2>1
  <1>7. FieldLinesFrom(ss) = Step(FieldLinesFrom(ss))
    BY <1>6 DEF FieldLinesFrom
  <1>8. PICK f : f = FieldLinesFrom(ss)
    OBVIOUS
  <1>9. f[N + 1] = 0 /\ \A i \in 1..N : f[i] = f[i + 1] + Counted(ss[i])
    <2>1. f = Step(f)
      BY <1>7, <1>8
    <2>2. f[N + 1] = 0
      BY <1>1, <2>1
    <2>3. ASSUME NEW i \in 1..N PROVE f[i] = f[i + 1] + Counted(ss[i])
      <3>1. i \in 1..Len(ss) + 1 /\ ~(i > Len(ss))
        BY <1>1
      <3> QED
        BY <2>1, <3>1 DEF Counted
    <2> QED
      BY <2>2, <2>3
  <1> DEFINE U == {i \in 1..N + 1 : f[i] \in Nat}
  <1>10. N + 1 \in U
    BY <1>9
  <1>11. ASSUME NEW i \in 1..N, i + 1 \in U PROVE i \in U
    BY <1>2, <1>9, <1>11
  <1>12. 1..N + 1 \subseteq U
    <2> HIDE DEF U
    <2> QED
      BY <1>10, <1>11, DownInduction
  <1> QED
    BY <1>1, <1>8, <1>9, <1>12

-----------------------------------------------------------------------------
(* The lines of a form. *)

\* Parsing three lines.
LEMMA ParsesThree ==
  ASSUME NEW m, NEW d \in ByteSet, NEW p \in ByteSet, NEW b \in ByteSet
  PROVE  Parses(m, <<d, p, b>>, ParseLine(ParseLine(ParseLine(m, d), p), b))
  <1> DEFINE h == [n \in 0..3 |-> IF n = 0 THEN m ELSE IF n = 1 THEN ParseLine(m, d)
                                  ELSE IF n = 2 THEN ParseLine(ParseLine(m, d), p)
                                  ELSE ParseLine(ParseLine(ParseLine(m, d), p), b)]
  <1>1. PICK s \in Seq(ByteSet) : s = <<d, p, b>> /\ Len(s) = 3 /\ s[1] = d /\ s[2] = p /\ s[3] = b
    <2>1. <<d, p, b>> \in Seq(ByteSet)
      OBVIOUS
    <2>2. Len(<<d, p, b>>) = 3 /\ <<d, p, b>>[1] = d /\ <<d, p, b>>[2] = p /\ <<d, p, b>>[3] = b
      OBVIOUS
    <2> QED
      BY <2>1, <2>2
  <1>2. /\ h[0] = m /\ h[1] = ParseLine(m, d) /\ h[2] = ParseLine(ParseLine(m, d), p)
        /\ h[3] = ParseLine(ParseLine(ParseLine(m, d), p), b)
        /\ h = [n \in 0..3 |-> h[n]]
    OBVIOUS
  <1> HIDE DEF h
  <1>3. \A i \in 1..3 : (i = 1 /\ i - 1 = 0) \/ (i = 2 /\ i - 1 = 1) \/ (i = 3 /\ i - 1 = 2)
    OBVIOUS
  <1>4. \A i \in 1..3 : h[i] = ParseLine(h[i - 1], s[i])
    BY <1>1, <1>2, <1>3
  <1>5. Steps(m, s, h)
    BY <1>1, <1>2, <1>4 DEF Steps
  <1> QED
    BY <1>1, <1>2, <1>5 DEF Parses

Delimiter == Byte("delimiter", NoName, {}, 0)
Naming(s) == Byte("disposition", s.field, {s.file} \ {NoName}, 0)
Blank == Byte("blank", NoName, {}, 0)
End == Byte("end", NoName, {}, 0)

\* The lines of a section.
LEMMA LinesOfSection ==
  ASSUME NEW s \in Section
  PROVE  /\ Delimiter \in ByteSet /\ Naming(s) \in ByteSet /\ Blank \in ByteSet /\ End \in ByteSet
         /\ Delimiter.kind = "delimiter" /\ Blank.kind = "blank" /\ End.kind = "end"
         /\ Naming(s).kind = "disposition" /\ Naming(s).name = s.field
         /\ Naming(s).words = {s.file} \ {NoName}
         /\ <<Delimiter, Naming(s), Blank>> \in Seq(ByteSet)
         /\ SectionLines(s) = <<Delimiter, Naming(s), Blank>> \o s.value
         /\ SectionLines(s) \in Seq(ByteSet) /\ s.value \in Seq(ByteSet)
  <1>1. NoName \in Name /\ s.field \in Name /\ s.file \in Name /\ s.value \in Seq(ByteSet)
    BY DEF Section, Name
  <1>2. {s.file} \ {NoName} \in SUBSET Name /\ {} \in SUBSET Name
    BY <1>1
  <1>3. Delimiter \in ByteSet /\ Blank \in ByteSet /\ End \in ByteSet
    BY <1>1, <1>2 DEF Delimiter, Blank, End, Byte, ByteSet, Kind
  <1>4. Naming(s) \in ByteSet
    BY <1>1, <1>2 DEF Naming, Byte, ByteSet, Kind
  <1>5. /\ Delimiter.kind = "delimiter" /\ Blank.kind = "blank" /\ End.kind = "end"
        /\ Naming(s).kind = "disposition" /\ Naming(s).name = s.field
        /\ Naming(s).words = {s.file} \ {NoName}
    BY DEF Delimiter, Naming, Blank, End, Byte
  <1>6. SectionLines(s) = <<Delimiter, Naming(s), Blank>> \o s.value
    BY DEF SectionLines, Delimiter, Naming, Blank
  <1>7. <<Delimiter, Naming(s), Blank>> \in Seq(ByteSet)
    BY <1>3, <1>4
  <1>8. SectionLines(s) \in Seq(ByteSet)
    <2>1. PICK x \in Seq(ByteSet), y \in Seq(ByteSet) : x = <<Delimiter, Naming(s), Blank>> /\ y = s.value
      BY <1>1, <1>7
    <2>2. x \o y \in Seq(ByteSet)
      BY ConcatProperties
    <2> QED
      BY <1>6, <2>1, <2>2, Zenon
  <1> QED
    BY <1>1, <1>3, <1>4, <1>5, <1>6, <1>7, <1>8, Zenon

\* A form is its sections, one behind the other, and the end.
LEMMA FormEncoded ==
  ASSUME NEW ss \in Seq(Section)
  PROVE  /\ \A i \in 1..Len(ss) + 1 : FormFrom(ss)[i] \in Seq(ByteSet)
         /\ \A i \in 1..Len(ss) : /\ ss[i] \in Section /\ SectionLines(ss[i]) \in Seq(ByteSet)
                                  /\ FormFrom(ss)[i] = SectionLines(ss[i]) \o FormFrom(ss)[i + 1]
         /\ FormFrom(ss)[Len(ss) + 1] = <<End>> /\ End \in ByteSet
  <1>1. PICK N \in Nat : N = Len(ss)
    BY LenProperties
  <1>2. \A i \in 1..N : ss[i] \in Section
    BY <1>1, ElementOfSeq
  <1>3. \A i \in 1..N : SectionLines(ss[i]) \in Seq(ByteSet)
    BY <1>2, LinesOfSection
  <1> DEFINE P == [i \in 1..N |-> SectionLines(ss[i])]
             Step(c) == [i \in 1..Len(ss) + 1 |->
                           IF i > Len(ss) THEN <<Byte("end", NoName, {}, 0)>>
                           ELSE SectionLines(ss[i]) \o c[i + 1]]
  <1>4. P \in [1..N -> Seq(ByteSet)]
    BY <1>3
  <1>e. End \in ByteSet
    BY DEF End, Byte, ByteSet, Kind, Name
  <1>z. PICK z \in Seq(ByteSet) : z = <<End>>
    <2>1. <<End>> \in Seq(ByteSet)
      BY <1>e
    <2> QED
      BY <2>1
  <1>5. ASSUME NEW c PROVE [i \in 1..N + 1 |-> IF i > N THEN z ELSE P[i] \o c[i + 1]] = Step(c)
    <2>1. z = <<Byte("end", NoName, {}, 0)>>
      BY <1>z DEF End
    <2> QED
      BY <1>1, <2>1
  <1>6. PICK c : Chain(ByteSet, z, N, P, c)
    <2> HIDE DEF P
    <2> QED
      BY <1>4, ChainExists
  <1>7. c = [i \in 1..N + 1 |-> IF i > N THEN z ELSE P[i] \o c[i + 1]]
    <2> HIDE DEF P
    <2>1. c \in [1..N + 1 -> Seq(ByteSet)] /\ c[N + 1] = z /\ \A i \in 1..N : c[i] = P[i] \o c[i + 1]
      BY <1>6 DEF Chain
    <2>2. ASSUME NEW i \in 1..N + 1 PROVE c[i] = IF i > N THEN z ELSE P[i] \o c[i + 1]
      <3>1. CASE i > N
        <4>1. i = N + 1
          BY <3>1
        <4> QED
          BY <2>1, <3>1, <4>1
      <3>2. CASE ~(i > N)
        <4>1. i \in 1..N
          BY <3>2
        <4> QED
          BY <2>1, <3>2, <4>1
      <3> QED
        BY <3>1, <3>2
    <2> QED
      BY <2>1, <2>2
  <1>8. c = Step(c)
    BY <1>5, <1>7
  <1>9. FormFrom(ss) = Step(FormFrom(ss))
    BY <1>8 DEF FormFrom
  <1>10. PICK f : f = FormFrom(ss)
    OBVIOUS
  <1>11. f = [i \in 1..N + 1 |-> IF i > N THEN z ELSE P[i] \o f[i + 1]]
    <2> HIDE DEF Step, P
    <2>1. f = Step(f)
      BY <1>9, <1>10
    <2>2. [i \in 1..N + 1 |-> IF i > N THEN z ELSE P[i] \o f[i + 1]] = Step(f)
      BY <1>5
    <2> QED
      BY <2>1, <2>2
  <1>12. Chain(ByteSet, z, N, P, f)
    <2> HIDE DEF P
    <2> QED
      BY <1>4, <1>11, ChainOf
  <1>13. f \in [1..N + 1 -> Seq(ByteSet)] /\ f[N + 1] = z /\ \A i \in 1..N : f[i] = P[i] \o f[i + 1]
    BY <1>12 DEF Chain
  <1>14. \A i \in 1..N : f[i] = SectionLines(ss[i]) \o f[i + 1]
    BY <1>13
  <1> HIDE DEF P
  <1> QED
    BY <1>1, <1>2, <1>3, <1>e, <1>z, <1>10, <1>13, <1>14

-----------------------------------------------------------------------------
(* The sections of a form, one after the other. *)

\* After the first i sections: the last one is not closed yet.
LinesTo(ss, i) == FieldLinesFrom(ss)[1] - FieldLinesFrom(ss)[i + 1]
Closed(ss, i, finished) ==
    Form(NoPart, finished, ParametersTo(ss, i), FilesTo(ss, i), LinesTo(ss, i),
         Cardinality(UploadsTo(ss, i)))
Opened(ss, i) ==
    Form(Part(TRUE, ss[i].field, ss[i].file, ss[i].value, IF ss[i].file = NoName THEN FALSE ELSE TRUE), FALSE,
         ParametersTo(ss, i - 1), FilesTo(ss, i - 1), LinesTo(ss, i), Cardinality(UploadsTo(ss, i)))
AfterSection(ss, i) == IF i = 0 THEN NothingParsed ELSE Opened(ss, i)

\* A delimiter enters what came before it into the maps.
LEMMA SectionCloses ==
  ASSUME NEW ss \in Seq(Section), WellFormedForm(ss), NEW i \in 1..Len(ss),
         NEW e \in ByteSet, e.kind \in {"delimiter", "end"}
  PROVE  ParseLine(Opened(ss, i), e) = Closed(ss, i, e.kind = "end")
  <1>1. ss[i] \in Section
    BY ElementOfSeq
  <1>2. ss[i].field # NoName
    BY <1>1 DEF Section
  <1> DEFINE field == ss[i].field
             file == ss[i].file
             value == ss[i].value
             P == ParametersTo(ss, i - 1)
             F == FilesTo(ss, i - 1)
             L == LinesTo(ss, i)
             O == Cardinality(UploadsTo(ss, i))
  <1>3. CASE file = NoName
    <2>1. Opened(ss, i) = Form(Part(TRUE, field, NoName, value, FALSE), FALSE, P, F, L, O)
      BY <1>3 DEF Opened
    <2>2. Closed(ss, i, e.kind = "end") =
            Form(NoPart, e.kind = "end", P \cup {<<field, value>>}, F, L, O)
      <3>1. ParametersTo(ss, i) = P \cup {<<field, value>>} /\ FilesTo(ss, i) = F
        BY <1>3, FilesKnown
      <3> HIDE DEF P, F, L, O, field, value, file
      <3>2. Closed(ss, i, e.kind = "end") = Form(NoPart, e.kind = "end", ParametersTo(ss, i), FilesTo(ss, i), L, O)
        BY DEF Closed, L, O
      <3> QED
        BY <3>1, <3>2
    <2> HIDE DEF P, F, L, O, value, file
    <2>3. ParseLine(Form(Part(TRUE, field, NoName, value, FALSE), FALSE, P, F, L, O), e) =
            Form(NoPart, e.kind = "end", P \cup {<<field, value>>}, F, L, O)
      BY <1>2 DEF ParseLine, Form, Part, PartEnd
    <2> QED
      BY <2>1, <2>2, <2>3
  <1>4. CASE file # NoName
    <2>1. Opened(ss, i) = Form(Part(TRUE, field, file, value, TRUE), FALSE, P, F, L, O)
      BY <1>4 DEF Opened
    <2>2. Closed(ss, i, e.kind = "end") =
            Form(NoPart, e.kind = "end", P \cup {<<field, <<file>> >>}, Put(F, field, value), L, O)
      <3>1. ParametersTo(ss, i) = P \cup {<<field, <<file>> >>} /\ FilesTo(ss, i) = Put(F, field, value)
        BY <1>4, FilesKnown
      <3> HIDE DEF P, F, L, O, field, value, file
      <3>2. Closed(ss, i, e.kind = "end") = Form(NoPart, e.kind = "end", ParametersTo(ss, i), FilesTo(ss, i), L, O)
        BY DEF Closed, L, O
      <3> QED
        BY <3>1, <3>2
    <2> HIDE DEF P, F, L, O, value
    <2>3. ParseLine(Form(Part(TRUE, field, file, value, TRUE), FALSE, P, F, L, O), e) =
            Form(NoPart, e.kind = "end", P \cup {<<field, <<file>> >>}, Put(F, field, value), L, O)
      BY <1>2, <1>4 DEF ParseLine, Form, Part, PartEnd, Uploaded
    <2> QED
      BY <2>1, <2>2, <2>3
  <1> QED
    BY <1>3, <1>4

\* The delimiter of a section closes the one before it, if there is one.
LEMMA SectionBegins ==
  ASSUME NEW ss \in Seq(Section), WellFormedForm(ss), NEW i \in 1..Len(ss)
  PROVE  ParseLine(AfterSection(ss, i - 1), Delimiter) = Closed(ss, i - 1, FALSE)
  <1>1. Delimiter \in ByteSet /\ Delimiter.kind = "delimiter"
    <2>1. ss[i] \in Section
      BY ElementOfSeq
    <2> QED
      BY <2>1, LinesOfSection
  <1>2. CASE i = 1
    <2>1. AfterSection(ss, i - 1) = NothingParsed
      BY <1>2 DEF AfterSection
    <2>2. ParseLine(NothingParsed, Delimiter) = NothingParsed
      BY <1>1 DEF ParseLine, NothingParsed, NoPart, PartHeader
    <2>3. ParametersTo(ss, 0) = {} /\ UploadsTo(ss, 0) = {} /\ FilesTo(ss, 0) = [f \in {} |-> <<>>]
      BY FilesKnown
    <2>4. LinesTo(ss, 0) = 0
      <3>1. FieldLinesFrom(ss)[1] \in Nat /\ 0 + 1 = 1
        <4>1. 1 \in 1..Len(ss) + 1
          BY LenProperties
        <4> QED
          BY <4>1, LinesCounted
      <3> QED
        BY <3>1 DEF LinesTo
    <2>5. Cardinality({}) = 0
      BY FS_EmptySet
    <2>6. Closed(ss, 0, FALSE) = NothingParsed
      BY <2>3, <2>4, <2>5 DEF Closed, Form, NothingParsed
    <2>7. i - 1 = 0
      BY <1>2
    <2>8. ParseLine(AfterSection(ss, i - 1), Delimiter) = Closed(ss, 0, FALSE)
      BY <2>1, <2>2, <2>6, Zenon
    <2> QED
      BY <2>7, <2>8, Zenon
  <1>3. CASE i # 1
    <2>1. i - 1 \in 1..Len(ss) /\ i - 1 # 0
      BY <1>3, LenProperties
    <2>2. AfterSection(ss, i - 1) = Opened(ss, i - 1)
      BY <2>1 DEF AfterSection
    <2>3. ParseLine(Opened(ss, i - 1), Delimiter) = Closed(ss, i - 1, Delimiter.kind = "end")
      BY <1>1, <2>1, SectionCloses
    <2>4. (Delimiter.kind = "end") = FALSE
      BY <1>1
    <2> QED
      BY <2>2, <2>3, <2>4
  <1> QED
    BY <1>2, <1>3

\* A section is parsed to what it says.
LEMMA SectionParsed ==
  ASSUME NEW ss \in Seq(Section), WellFormedForm(ss), NEW i \in 1..Len(ss)
  PROVE  Parses(AfterSection(ss, i - 1), SectionLines(ss[i]), AfterSection(ss, i))
  <1>1. PICK s \in Section : s = ss[i]
    BY ElementOfSeq
  <1>2. PICK d \in ByteSet, p \in ByteSet, b \in ByteSet :
          d = Delimiter /\ p = Naming(s) /\ b = Blank
    BY LinesOfSection
  <1>3. /\ b.kind = "blank" /\ p.kind = "disposition" /\ p.name = s.field /\ p.words = {s.file} \ {NoName}
        /\ <<d, p, b>> \in Seq(ByteSet) /\ SectionLines(s) = <<d, p, b>> \o s.value /\ s.value \in Seq(ByteSet)
    BY <1>2, LinesOfSection
  <1> DEFINE P == ParametersTo(ss, i - 1)
             F == FilesTo(ss, i - 1)
             L == LinesTo(ss, i - 1)
             O == Cardinality(UploadsTo(ss, i - 1))
             m1 == Form(NoPart, FALSE, P, F, L, O)
             m2 == Form(Part(FALSE, s.field, s.file, <<>>, FALSE), FALSE, P, F, L, O)
             m3 == Form(Part(TRUE, s.field, s.file, <<>>, FALSE), FALSE, P, F, L, O)
  <1>4. ParseLine(AfterSection(ss, i - 1), d) = m1
    BY <1>2, SectionBegins DEF Closed
  <1>n. /\ L \in Int /\ O \in Nat /\ IsFiniteSet(UploadsTo(ss, i - 1))
        /\ LinesTo(ss, i) = L + Counted(ss[i])
    <2>1. i \in 1..Len(ss) + 1 /\ i + 1 \in 1..Len(ss) + 1 /\ 1 \in 1..Len(ss) + 1 /\ i - 1 \in 0..Len(ss)
          /\ i - 1 + 1 = i
      BY LenProperties
    <2>2. /\ FieldLinesFrom(ss)[1] \in Nat /\ FieldLinesFrom(ss)[i] \in Nat
          /\ FieldLinesFrom(ss)[i + 1] \in Nat
          /\ FieldLinesFrom(ss)[i] = FieldLinesFrom(ss)[i + 1] + Counted(ss[i])
      BY <2>1, LinesCounted
    <2>3. IsFiniteSet(UploadsTo(ss, i - 1))
      BY <2>1, FilesKnown
    <2>4. O \in Nat
      BY <2>3, FS_CardinalityType
    <2>5. Counted(ss[i]) \in Nat
      <3>1. Len(s.value) \in Nat
        BY <1>3, LenProperties
      <3> QED
        BY <1>1, <3>1 DEF Counted
    <2>6. L = FieldLinesFrom(ss)[1] - FieldLinesFrom(ss)[i]
      BY <2>1 DEF LinesTo
    <2>7. LinesTo(ss, i) = FieldLinesFrom(ss)[1] - FieldLinesFrom(ss)[i + 1]
      BY DEF LinesTo
    <2> HIDE DEF L, O
    <2> QED
      BY <2>2, <2>3, <2>4, <2>5, <2>6, <2>7
  <1> HIDE DEF P, F, L, O
  <1>5. ParseLine(m1, p) = m2
    <2> DEFINE name == IF p.words = {} THEN NoName ELSE CHOOSE w \in p.words : TRUE
    <2>1. ParseLine(m1, p) = Form(Part(FALSE, p.name, name, <<>>, FALSE), FALSE, P, F, L, O)
      BY <1>3 DEF ParseLine, Form, Part, NoPart, PartHeader
    <2>2. name = s.file
      <3>1. CASE s.file = NoName
        BY <1>3, <3>1
      <3>2. CASE s.file # NoName
        <4>1. p.words = {s.file}
          BY <1>3, <3>2
        <4> QED
          BY <4>1
      <3> QED
        BY <3>1, <3>2
    <2> HIDE DEF name
    <2> QED
      BY <1>3, <2>1, <2>2
  <1>6. ParseLine(m2, b) = m3
    BY <1>3 DEF ParseLine, Form, Part, PartHeader
  <1>7. Parses(AfterSection(ss, i - 1), <<d, p, b>>, m3)
    <2>1. Parses(AfterSection(ss, i - 1), <<d, p, b>>,
                 ParseLine(ParseLine(ParseLine(AfterSection(ss, i - 1), d), p), b))
      BY ParsesThree
    <2> HIDE DEF m1, m2, m3
    <2> QED
      BY <1>4, <1>5, <1>6, <2>1
  <1>8. s.field # NoName /\ AfterSection(ss, i) = Opened(ss, i)
    <2>1. i # 0
      BY LenProperties
    <2> QED
      BY <2>1 DEF AfterSection, Section
  <1>9. DataLines(s.value)
    <2>1. i \in DOMAIN ss
      BY LenProperties
    <2> QED
      BY <1>1, <2>1 DEF WellFormedForm, DataLines
  <1>10. Parses(m3, s.value, Opened(ss, i))
    <2>1. CASE s.file = NoName
      <3>1. Parses(m3, s.value, Form(Part(TRUE, s.field, NoName, s.value, FALSE), FALSE, P, F, L + Len(s.value), O))
        <4>1. m3 = Form(Part(TRUE, s.field, NoName, <<>>, FALSE), FALSE, P, F, L, O)
          BY <2>1
        <4> HIDE DEF m3
        <4> QED
          BY <1>3, <1>8, <1>9, <1>n, <4>1, FieldValue
      <3>2. LinesTo(ss, i) = L + Len(s.value) /\ Cardinality(UploadsTo(ss, i)) = O
        <4>1. UploadsTo(ss, i) = UploadsTo(ss, i - 1)
          BY <1>1, <2>1, FilesKnown
        <4> QED
          BY <1>1, <1>n, <2>1, <4>1 DEF Counted, O
      <3>3. Opened(ss, i) = Form(Part(TRUE, s.field, NoName, s.value, FALSE), FALSE, P, F, L + Len(s.value), O)
        BY <1>1, <2>1, <3>2 DEF Opened, P, F
      <3> QED
        BY <3>1, <3>3
    <2>2. CASE s.file # NoName
      <3>0. s.value # <<>>
        <4>1. i \in Uploads(ss)
          BY <1>1, <2>2, LenProperties DEF Uploads
        <4> QED
          BY <1>1, <4>1 DEF WellFormedForm
      <3>1. Parses(m3, s.value, Form(Part(TRUE, s.field, s.file, s.value, TRUE), FALSE, P, F, L, O + 1))
        BY <1>3, <1>8, <1>9, <1>n, <2>2, <3>0, FileLines
      <3>2. LinesTo(ss, i) = L /\ Cardinality(UploadsTo(ss, i)) = O + 1
        <4>1. UploadsTo(ss, i) = UploadsTo(ss, i - 1) \cup {i} /\ i \notin UploadsTo(ss, i - 1)
          BY <1>1, <2>2, FilesKnown
        <4>2. Cardinality(UploadsTo(ss, i)) = O + 1
          BY <1>n, <4>1, FS_AddElement DEF O
        <4>3. LinesTo(ss, i) = L
          BY <1>1, <1>n, <2>2 DEF Counted
        <4> QED
          BY <4>2, <4>3
      <3>3. Opened(ss, i) = Form(Part(TRUE, s.field, s.file, s.value, TRUE), FALSE, P, F, L, O + 1)
        BY <1>1, <2>2, <3>2 DEF Opened, P, F
      <3> QED
        BY <3>1, <3>3
    <2> QED
      BY <2>1, <2>2
  <1>11. PICK x \in Seq(ByteSet), y \in Seq(ByteSet) : x = <<d, p, b>> /\ y = s.value
    BY <1>3
  <1> HIDE DEF m3
  <1>12. Parses(AfterSection(ss, i - 1), x, m3) /\ Parses(m3, y, AfterSection(ss, i))
    BY <1>7, <1>8, <1>10, <1>11
  <1>13. Parses(AfterSection(ss, i - 1), x \o y, AfterSection(ss, i))
    BY <1>12, ParsesBoth
  <1> QED
    BY <1>1, <1>3, <1>11, <1>13, Zenon

\* What the parser makes of a form.
LEMMA FormParsed ==
  ASSUME NEW ss \in Seq(Section), ss # <<>>, WellFormedForm(ss)
  PROVE  LET form == ParseMultiPartFile(FormFrom(ss)[1]) IN
           /\ form.parameters = Parameters(ss) /\ form.files = Files(ss)
           /\ form.fieldBytes = FieldLinesFrom(ss)[1] /\ form.fieldBytes \in Nat
           /\ form.opened - Cardinality(DOMAIN form.files) = FilesReplaced(ss)
           /\ FormFrom(ss)[1] \in Seq(ByteSet) /\ Len(FormFrom(ss)[1]) > 0
  <1>1. PICK N \in Nat : N = Len(ss) /\ N > 0
    <2>1. Len(ss) \in Nat \ {0}
      BY EmptySeq
    <2>2. Len(ss) \in Nat /\ Len(ss) > 0
      BY <2>1
    <2> QED
      BY <2>2
  <1> DEFINE From(k, i) == Parses(AfterSection(ss, k), FormFrom(ss)[i], Closed(ss, N, TRUE))
             U == {i \in 1..N + 1 : \A k \in 0..N : k + 1 = i => From(k, i)}
  <1>2. N + 1 \in U
    <2>1. FormFrom(ss)[N + 1] = <<End>> /\ End \in ByteSet
      BY <1>1, FormEncoded
    <2>2. End.kind = "end"
      BY DEF End, Byte
    <2>3. AfterSection(ss, N) = Opened(ss, N)
      BY <1>1 DEF AfterSection
    <2>4. ParseLine(Opened(ss, N), End) = Closed(ss, N, End.kind = "end")
      <3>1. N \in 1..Len(ss)
        BY <1>1
      <3> QED
        BY <2>1, <2>2, <3>1, SectionCloses
    <2>5. (End.kind = "end") = TRUE
      BY <2>2
    <2>6. Parses(Opened(ss, N), <<End>>, ParseLine(Opened(ss, N), End))
      BY <2>1, ParsesOne
    <2>7. Parses(AfterSection(ss, N), <<End>>, Closed(ss, N, TRUE))
      BY <2>3, <2>4, <2>5, <2>6, Zenon
    <2>8. From(N, N + 1)
      BY <2>1, <2>7
    <2> HIDE DEF From
    <2> QED
      BY <2>8
  <1>3. ASSUME NEW i \in 1..N, i + 1 \in U PROVE i \in U
    <2>1. /\ SectionLines(ss[i]) \in Seq(ByteSet) /\ FormFrom(ss)[i + 1] \in Seq(ByteSet)
          /\ FormFrom(ss)[i] = SectionLines(ss[i]) \o FormFrom(ss)[i + 1]
      <3>1. i + 1 \in 1..N + 1
        OBVIOUS
      <3> QED
        BY <1>1, <3>1, FormEncoded
    <2>2. Parses(AfterSection(ss, i - 1), SectionLines(ss[i]), AfterSection(ss, i))
      BY <1>1, SectionParsed
    <2>3. From(i, i + 1)
      <3> HIDE DEF From
      <3> QED
        BY <1>3
    <2>4. Parses(AfterSection(ss, i - 1), SectionLines(ss[i]) \o FormFrom(ss)[i + 1], Closed(ss, N, TRUE))
      BY <2>1, <2>2, <2>3, ParsesBoth
    <2>5. From(i - 1, i)
      BY <2>1, <2>4
    <2> HIDE DEF From
    <2> QED
      BY <2>5
  <1>4. 1..N + 1 \subseteq U
    <2> HIDE DEF U
    <2> QED
      BY <1>2, <1>3, DownInduction
  <1>5. Parses(NothingParsed, FormFrom(ss)[1], Closed(ss, N, TRUE)) /\ FormFrom(ss)[1] \in Seq(ByteSet)
    <2>1. 1 \in 1..N + 1 /\ 0 + 1 = 1 /\ 0 \in 0..N
      BY <1>1
    <2>2. From(0, 1)
      <3> HIDE DEF From
      <3> QED
        BY <1>4, <2>1
    <2>3. AfterSection(ss, 0) = NothingParsed
      BY DEF AfterSection
    <2> QED
      BY <1>1, <2>1, <2>2, <2>3, FormEncoded
  <1>6. ParseMultiPartFile(FormFrom(ss)[1]) = Closed(ss, N, TRUE)
    BY <1>5, ParsesIs DEF ParseMultiPartFile
  <1>7. /\ ParametersTo(ss, N) = Parameters(ss) /\ FilesTo(ss, N) = Files(ss)
        /\ UploadsTo(ss, N) = Uploads(ss) /\ DOMAIN FilesTo(ss, N) = FileFields(ss)
    BY <1>1, FilesKnown DEF FilesTo
  <1>8. LinesTo(ss, N) = FieldLinesFrom(ss)[1] /\ FieldLinesFrom(ss)[1] \in Nat
    <2>1. FieldLinesFrom(ss)[N + 1] = 0 /\ FieldLinesFrom(ss)[1] \in Nat
      <3>1. 1 \in 1..N + 1
        BY <1>1
      <3> QED
        BY <1>1, <3>1, LinesCounted
    <2> QED
      BY <2>1 DEF LinesTo
  <1>9. Len(FormFrom(ss)[1]) > 0
    <2>1. 1 \in 1..N /\ 1 + 1 \in 1..N + 1
      BY <1>1
    <2>2. PICK x \in Seq(ByteSet), y \in Seq(ByteSet) : x = SectionLines(ss[1]) /\ y = FormFrom(ss)[1 + 1]
      BY <1>1, <2>1, FormEncoded
    <2>3. FormFrom(ss)[1] = x \o y
      BY <1>1, <2>1, <2>2, FormEncoded
    <2>4. Len(x) > 0
      <3>1. PICK s \in Section : s = ss[1]
        BY <1>1, <2>1, ElementOfSeq
      <3>2. PICK h \in Seq(ByteSet), v \in Seq(ByteSet) :
              h = <<Delimiter, Naming(s), Blank>> /\ v = s.value
        BY LinesOfSection
      <3>3. Len(h) = 3
        BY <3>2
      <3>4. x = h \o v
        BY <2>2, <3>1, <3>2, LinesOfSection
      <3>5. Len(x) = Len(h) + Len(v) /\ Len(v) \in Nat
        BY <3>4, ConcatProperties, LenProperties
      <3> QED
        BY <3>3, <3>5
    <2>5. Len(x \o y) = Len(x) + Len(y) /\ Len(y) \in Nat /\ Len(x) \in Nat
      BY ConcatProperties, LenProperties
    <2> QED
      BY <2>3, <2>4, <2>5
  <1>10. PICK form : form = Closed(ss, N, TRUE)
    OBVIOUS
  <1>11. /\ form.parameters = Parameters(ss) /\ form.files = Files(ss)
         /\ form.fieldBytes = FieldLinesFrom(ss)[1] /\ form.opened = Cardinality(Uploads(ss))
    BY <1>7, <1>8, <1>10 DEF Closed, Form
  <1>12. DOMAIN form.files = FileFields(ss)
    BY <1>7, <1>11
  <1>13. form.opened - Cardinality(DOMAIN form.files) = FilesReplaced(ss)
    BY <1>11, <1>12 DEF FilesReplaced
  <1> QED
    BY <1>5, <1>6, <1>8, <1>9, <1>10, <1>11, <1>13

-----------------------------------------------------------------------------
(* The headers that have been read. *)

HeaderMap == UNION {[D -> ByteSet] : D \in SUBSET Name}

\* The words of header i, with those of the lines up to n that continue it.
WordsTo(q, i, n) == UNION {q.headers[j].words : j \in {k \in 1..n : ContinuedBy(q, i, k)}}

\* headers holds the last one of each name, of the first n; current is the name of
\* the one that the next line may continue.
HeadersKnown(headers, current, q, n) ==
    /\ headers \in HeaderMap /\ current \in Name
    /\ DOMAIN headers = {q.headers[i].name : i \in 1..n} \ {NoName}
    /\ \A name \in DOMAIN headers : \E i \in 1..n :
         /\ q.headers[i].name = name
         /\ headers[name].num = q.headers[i].num
         /\ headers[name].words = WordsTo(q, i, n)
         /\ ContinuedBy(q, i, n) <=> current = name

\* The headers that are looked up have names.
LEMMA NamesDiffer == "content-length" # NoName /\ "content-type" # NoName
  BY DEF NoName

\* The words of a header after one more line.
LEMMA WordsAdded ==
  ASSUME NEW q, NEW n \in Nat, n > 0, NEW i \in 1..n - 1
  PROVE  /\ ContinuedBy(q, i, n) <=> ContinuedBy(q, i, n - 1) /\ q.headers[n].kind = "text"
         /\ WordsTo(q, i, n) = WordsTo(q, i, n - 1) \cup
              IF ContinuedBy(q, i, n) THEN q.headers[n].words ELSE {}
  <1>1. ContinuedBy(q, i, n) <=> ContinuedBy(q, i, n - 1) /\ q.headers[n].kind = "text"
    BY DEF ContinuedBy
  <1>2. \A k : k \in 1..n <=> k \in 1..n - 1 \/ k = n
    OBVIOUS
  <1> DEFINE K == {k \in 1..n - 1 : ContinuedBy(q, i, k)}
             K2 == {k \in 1..n : ContinuedBy(q, i, k)}
  <1>3. CASE ContinuedBy(q, i, n)
    <2>1. K2 = K \cup {n}
      <3> HIDE DEF ContinuedBy
      <3> QED
        BY <1>2, <1>3
    <2>2. UNION {q.headers[j].words : j \in K2} =
            (UNION {q.headers[j].words : j \in K}) \cup q.headers[n].words
      <3> HIDE DEF K, K2
      <3> QED
        BY <2>1
    <2> QED
      BY <1>1, <1>3, <2>2 DEF WordsTo
  <1>4. CASE ~ContinuedBy(q, i, n)
    <2>1. K2 = K
      BY <1>2, <1>4
    <2>2. WordsTo(q, i, n) = WordsTo(q, i, n - 1)
      BY <2>1 DEF WordsTo
    <2> QED
      BY <1>1, <1>4, <2>2
  <1> QED
    BY <1>3, <1>4

\* The words of a header after its own line.
LEMMA WordsFirst ==
  ASSUME NEW q, NEW n \in Nat, n > 0
  PROVE  ContinuedBy(q, n, n) /\ WordsTo(q, n, n) = q.headers[n].words
  <1>1. ContinuedBy(q, n, n)
    BY DEF ContinuedBy
  <1>2. {k \in 1..n : ContinuedBy(q, n, k)} = {n}
    <2>1. \A k \in 1..n : ContinuedBy(q, n, k) => k = n
      BY DEF ContinuedBy
    <2> QED
      BY <1>1, <2>1
  <1>3. UNION {q.headers[j].words : j \in {n}} = q.headers[n].words
    OBVIOUS
  <1> QED
    BY <1>1, <1>2, <1>3 DEF WordsTo

\* A line that is a header of its own.
LEMMA HeaderAdded ==
  ASSUME NEW q \in Request, NEW n \in 1..Len(q.headers), q.headers[n].name # NoName,
         q.headers[n].kind = "header",
         NEW headers, NEW current, HeadersKnown(headers, current, q, n - 1)
  PROVE  HeadersKnown(Put(headers, q.headers[n].name, q.headers[n]), q.headers[n].name, q, n)
  <1>1. PICK N \in Nat : N = n /\ N > 0
    BY Numbers
  <1>2. PICK line \in ByteSet : line = q.headers[N]
    BY <1>1, Numbers, ElementOfSeq
  <1> DEFINE known == Put(headers, line.name, line)
  <1>3. line.name \in Name /\ line.words \in SUBSET Name
    BY DEF ByteSet
  <1>4. PICK D \in SUBSET Name : headers \in [D -> ByteSet]
    BY DEF HeadersKnown, HeaderMap
  <1>5. /\ DOMAIN known = D \cup {line.name} /\ known \in [D \cup {line.name} -> ByteSet]
        /\ known[line.name] = line /\ \A k \in D : k # line.name => known[k] = headers[k]
    BY <1>4 DEF Put
  <1>6. known \in HeaderMap
    BY <1>3, <1>4, <1>5 DEF HeaderMap
  <1>7. DOMAIN known = {q.headers[i].name : i \in 1..N} \ {NoName}
    <2>1. D = {q.headers[i].name : i \in 1..N - 1} \ {NoName}
      BY <1>1, <1>4 DEF HeadersKnown
    <2>2. \A k : k \in 1..N <=> k \in 1..N - 1 \/ k = N
      BY <1>1
    <2> HIDE DEF known
    <2> QED
      BY <1>1, <1>2, <1>5, <2>1, <2>2
  <1>8. ASSUME NEW name \in DOMAIN known
        PROVE  \E i \in 1..N : /\ q.headers[i].name = name
                               /\ known[name].num = q.headers[i].num
                               /\ known[name].words = WordsTo(q, i, N)
                               /\ ContinuedBy(q, i, N) <=> line.name = name
    <2> HIDE DEF known
    <2>1. CASE name = line.name
      <3>1. ContinuedBy(q, N, N) /\ WordsTo(q, N, N) = line.words
        BY <1>1, <1>2, WordsFirst
      <3>2. N \in 1..N
        BY <1>1
      <3> QED
        BY <1>2, <1>5, <2>1, <3>1, <3>2
    <2>2. CASE name # line.name
      <3>1. name \in D /\ known[name] = headers[name] /\ D = DOMAIN headers
        BY <1>4, <1>5, <2>2
      <3>2. PICK i \in 1..N - 1 : /\ q.headers[i].name = name
                                  /\ headers[name].num = q.headers[i].num
                                  /\ headers[name].words = WordsTo(q, i, N - 1)
        BY <1>1, <3>1 DEF HeadersKnown
      <3>3. ~ContinuedBy(q, i, N) /\ WordsTo(q, i, N) = WordsTo(q, i, N - 1) \cup {}
        BY <1>1, <1>2, WordsAdded
      <3>4. i \in 1..N
        BY <1>1
      <3> QED
        BY <2>2, <3>1, <3>2, <3>3, <3>4
    <2> QED
      BY <2>1, <2>2
  <1> HIDE DEF known
  <1>9. HeadersKnown(known, line.name, q, N)
    BY <1>3, <1>6, <1>7, <1>8 DEF HeadersKnown
  <1> QED
    BY <1>1, <1>2, <1>9 DEF known

\* A line that continues the header before it, if there is one.
LEMMA HeaderContinued ==
  ASSUME NEW q \in Request, NEW n \in 1..Len(q.headers), q.headers[n].name = NoName,
         q.headers[n].kind = "text",
         NEW headers, NEW current, HeadersKnown(headers, current, q, n - 1)
  PROVE  /\ current \notin DOMAIN headers => HeadersKnown(headers, current, q, n)
         /\ current \in DOMAIN headers =>
              HeadersKnown([headers EXCEPT ![current].words = @ \cup q.headers[n].words], current, q, n)
  <1>1. PICK N \in Nat : N = n /\ N > 0
    BY Numbers
  <1>2. PICK line \in ByteSet : line = q.headers[N]
    BY <1>1, Numbers, ElementOfSeq
  <1>3. current \in Name /\ line.words \in SUBSET Name
    BY DEF ByteSet, HeadersKnown
  <1>4. PICK D \in SUBSET Name : headers \in [D -> ByteSet]
    BY DEF HeadersKnown, HeaderMap
  <1>5. D = {q.headers[i].name : i \in 1..N} \ {NoName}
    <2>1. D = {q.headers[i].name : i \in 1..N - 1} \ {NoName}
      BY <1>1, <1>4 DEF HeadersKnown
    <2>2. \A k : k \in 1..N <=> k \in 1..N - 1 \/ k = N
      BY <1>1
    <2> QED
      BY <1>1, <1>2, <2>1, <2>2
  <1>6. ASSUME NEW name \in D
        PROVE  \E i \in 1..N : /\ q.headers[i].name = name
                               /\ headers[name].num = q.headers[i].num
                               /\ headers[name].words \cup (IF current = name THEN line.words ELSE {}) = WordsTo(q, i, N)
                               /\ ContinuedBy(q, i, N) <=> current = name
    <2>1. PICK i \in 1..N - 1 : /\ q.headers[i].name = name
                                /\ headers[name].num = q.headers[i].num
                                /\ headers[name].words = WordsTo(q, i, N - 1)
                                /\ ContinuedBy(q, i, N - 1) <=> current = name
      BY <1>1, <1>4 DEF HeadersKnown
    <2>2. /\ ContinuedBy(q, i, N) <=> current = name
          /\ WordsTo(q, i, N) = headers[name].words \cup IF ContinuedBy(q, i, N) THEN line.words ELSE {}
      BY <1>1, <1>2, <2>1, WordsAdded
    <2>3. i \in 1..N
      BY <1>1
    <2> QED
      BY <2>1, <2>2, <2>3
  <1>7. CASE current \notin DOMAIN headers
    <2>1. ASSUME NEW name \in D
          PROVE  \E i \in 1..N : /\ q.headers[i].name = name
                                 /\ headers[name].num = q.headers[i].num
                                 /\ headers[name].words = WordsTo(q, i, N)
                                 /\ ContinuedBy(q, i, N) <=> current = name
      <3>1. current # name
        BY <1>4, <1>7
      <3> QED
        BY <1>6, <3>1
    <2>2. DOMAIN headers = D /\ headers \in HeaderMap
      BY <1>4 DEF HeaderMap
    <2>3. HeadersKnown(headers, current, q, N)
      BY <1>3, <1>5, <2>1, <2>2 DEF HeadersKnown
    <2> QED
      BY <1>1, <1>7, <2>3
  <1>8. CASE current \in DOMAIN headers
    <2> DEFINE known == [headers EXCEPT ![current].words = @ \cup line.words]
    <2>1. current \in D /\ headers[current] \in ByteSet
      BY <1>4, <1>8
    <2>2. PICK h \in ByteSet : h = headers[current]
      BY <2>1
    <2> DEFINE g == [h EXCEPT !.words = @ \cup line.words]
    <2>3. g \in ByteSet /\ g.num = h.num /\ g.words = h.words \cup line.words
      BY <1>3 DEF ByteSet
    <2>4. known = [headers EXCEPT ![current] = g]
      BY <2>2
    <2>5. /\ known \in [D -> ByteSet] /\ known[current] = g
          /\ \A k \in D : k # current => known[k] = headers[k]
      <3> HIDE DEF g, known
      <3> QED
        BY <1>4, <2>1, <2>3, <2>4
    <2>6. known \in HeaderMap /\ DOMAIN known = D
      <3> HIDE DEF known
      <3> QED
        BY <2>5 DEF HeaderMap
    <2> HIDE DEF known, g
    <2>7. ASSUME NEW name \in D
          PROVE  \E i \in 1..N : /\ q.headers[i].name = name
                                 /\ known[name].num = q.headers[i].num
                                 /\ known[name].words = WordsTo(q, i, N)
                                 /\ ContinuedBy(q, i, N) <=> current = name
      <3>1. known[name].num = headers[name].num
        BY <2>2, <2>3, <2>5
      <3>2. known[name].words = headers[name].words \cup (IF current = name THEN line.words ELSE {})
        BY <2>2, <2>3, <2>5
      <3> QED
        BY <1>6, <3>1, <3>2
    <2>8. HeadersKnown(known, current, q, N)
      BY <1>3, <1>5, <2>6, <2>7 DEF HeadersKnown
    <2> QED
      BY <1>1, <1>2, <1>8, <2>8 DEF known
  <1> QED
    BY <1>7, <1>8

\* Before the first header, the map is empty.
LEMMA NoHeadersYet ==
  ASSUME NEW q
  PROVE  HeadersKnown([n \in {} |-> NoLine], NoName, q, 0)
  <1> DEFINE known == [n \in {} |-> NoLine]
  <1>1. known \in [{} -> ByteSet] /\ DOMAIN known = {}
    OBVIOUS
  <1>2. known \in HeaderMap
    <2> HIDE DEF known
    <2> QED
      BY <1>1 DEF HeaderMap
  <1>3. {q.headers[i].name : i \in 1..0} \ {NoName} = {}
    <2>1. 1..0 = {}
      OBVIOUS
    <2> QED
      BY <2>1
  <1>4. NoName \in Name
    BY DEF Name
  <1> HIDE DEF known
  <1>5. HeadersKnown(known, NoName, q, 0)
    BY <1>1, <1>2, <1>3, <1>4 DEF HeadersKnown
  <1> QED
    BY <1>5 DEF known

\* What the headers say when all of them have been read.
LEMMA HeadersSay ==
  ASSUME NEW q \in Request, WellFormed(q), NEW r,
         HeadersKnown(r.headers, r.currentHeader, q, Len(q.headers))
  PROVE  /\ ContentLength(r) = Len(q.body)
         /\ {"multipart/form-data", "boundary="} \subseteq Value(r, "content-type") <=> Multipart(q)
         /\ DOMAIN r.headers = {q.headers[i].name : i \in DOMAIN q.headers} \ {NoName}
  <1>1. PICK N \in Nat : N = Len(q.headers) /\ DOMAIN q.headers = 1..N
    BY Numbers, LenProperties
  <1>2. ASSUME NEW name, name \in DOMAIN r.headers
        PROVE  \E i \in Named(q, name) : /\ Header(r, name).num = q.headers[i].num
                                         /\ Value(r, name) = HeaderWords(q, i)
    <2>1. PICK i \in 1..N : /\ q.headers[i].name = name
                            /\ r.headers[name].num = q.headers[i].num
                            /\ r.headers[name].words = WordsTo(q, i, N)
      BY <1>1, <1>2 DEF HeadersKnown
    <2>2. WordsTo(q, i, N) = HeaderWords(q, i)
      BY <1>1 DEF WordsTo, HeaderWords
    <2>3. Header(r, name) = r.headers[name] /\ Value(r, name) = Header(r, name).words
      BY <1>2 DEF Header, Value
    <2> QED
      BY <1>1, <2>1, <2>2, <2>3 DEF Named
  <1>3. ASSUME NEW name, name # NoName, name \notin DOMAIN r.headers
        PROVE  Named(q, name) = {} /\ Header(r, name).num = 0 /\ Value(r, name) = {}
    <2>1. DOMAIN r.headers = {q.headers[i].name : i \in 1..N} \ {NoName}
      BY <1>1 DEF HeadersKnown
    <2>2. Named(q, name) = {}
      BY <1>1, <1>3, <2>1 DEF Named
    <2>3. Header(r, name).num = 0 /\ Value(r, name) = {}
      BY <1>3 DEF Header, Value, Byte
    <2> QED
      BY <2>2, <2>3
  <1>4. ContentLength(r) = Len(q.body)
    <2>1. CASE "content-length" \in DOMAIN r.headers
      <3>1. PICK i \in Named(q, "content-length") :
              /\ Header(r, "content-length").num = q.headers[i].num
              /\ Value(r, "content-length") = HeaderWords(q, i)
        BY <1>2, <2>1
      <3>2. HeaderWords(q, i) = {} /\ q.headers[i].num = Len(q.body)
        BY <3>1 DEF WellFormed
      <3> QED
        BY <3>1, <3>2 DEF ContentLength
    <2>2. CASE "content-length" \notin DOMAIN r.headers
      <3>1. Named(q, "content-length") = {} /\ Header(r, "content-length").num = 0
            /\ Value(r, "content-length") = {}
        BY <1>3, <2>2, NamesDiffer
      <3>2. q.body = <<>>
        BY <3>1 DEF WellFormed
      <3> QED
        BY <3>1, <3>2 DEF ContentLength
    <2> QED
      BY <2>1, <2>2
  <1>5. {"multipart/form-data", "boundary="} \subseteq Value(r, "content-type") <=> Multipart(q)
    <2>1. CASE "content-type" \in DOMAIN r.headers
      <3>1. PICK i \in Named(q, "content-type") : Value(r, "content-type") = HeaderWords(q, i)
        BY <1>2, <2>1
      <3>2. {"multipart/form-data", "boundary="} \subseteq HeaderWords(q, i) <=> q.sections # <<>>
        BY <3>1 DEF WellFormed
      <3> QED
        BY <3>1, <3>2 DEF Multipart
    <2>2. CASE "content-type" \notin DOMAIN r.headers
      <3>1. Named(q, "content-type") = {} /\ Value(r, "content-type") = {}
        BY <1>3, <2>2, NamesDiffer
      <3>2. q.sections = <<>>
        BY <3>1 DEF WellFormed
      <3> QED
        BY <3>1, <3>2 DEF Multipart
    <2> QED
      BY <2>1, <2>2
  <1>6. DOMAIN r.headers = {q.headers[i].name : i \in DOMAIN q.headers} \ {NoName}
    BY <1>1 DEF HeadersKnown
  <1> QED
    BY <1>4, <1>5, <1>6

-----------------------------------------------------------------------------
(* How far a request has been read: r is the HttpRequest, q what the       *)
(* client sends, rest what is still to come of it.                         *)

Status == {"none", "waitForRequest", "waitForHeader", "waitForBody", "complete", "abort"}
Forms == {NothingParsed} \cup {ParseMultiPartFile(file) : file \in Seq(ByteSet)}
Parser == [status : Status, line : ByteSet, lineBuffer : Seq(ByteSet), currentSize : Nat,
           headers : HeaderMap, currentHeader : Name, boundary : BOOLEAN,
           expectedBodySize : Nat, bodyData : Seq(ByteSet), tempFile : Seq(ByteSet), form : Forms]

NoBody(r) == r.boundary = FALSE /\ r.bodyData = <<>> /\ r.tempFile = <<>> /\ r.form = NothingParsed

\* Before line i, and in it.
Expects(r, q, i) ==
    \/ i <= q.blanks + 1 /\ r.status = "waitForRequest" /\ HeadersKnown(r.headers, r.currentHeader, q, 0)
    \/ /\ i > q.blanks + 1 /\ r.status = "waitForHeader"
       /\ HeadersKnown(r.headers, r.currentHeader, q, i - q.blanks - 2)
       /\ r.line = q.line /\ ~Broken(q)

\* The first k bytes of line i are in the buffer.
LineAt(r, q, i, k, rest) ==
    /\ r.lineBuffer = SubSeq(Whole(q, i), 1, k)
    /\ rest = SubSeq(Whole(q, i), k + 1, Len(Whole(q, i))) \o EncodeFrom(q)[i + 1]
    /\ r.currentSize + Len(rest) = Size(q)
    /\ NoBody(r) /\ Expects(r, q, i)

InLine(r, q, i, rest) ==
    r.currentSize <= MaxSize /\ \E k \in 0..Len(Whole(q, i)) - 1 : LineAt(r, q, i, k, rest)

\* Collecting bytes changes the line and the size, and nothing else.
LEMMA Collects ==
  ASSUME NEW r \in Parser, NEW data \in Seq(ByteSet)
  PROVE  LET l == Collect(r, data) IN
           /\ l \in Parser /\ l.status = r.status /\ l.line = r.line
           /\ l.lineBuffer = r.lineBuffer \o data /\ l.currentSize = r.currentSize + Len(data)
           /\ l.headers = r.headers /\ l.currentHeader = r.currentHeader /\ l.boundary = r.boundary
           /\ l.expectedBodySize = r.expectedBodySize /\ l.bodyData = r.bodyData
           /\ l.tempFile = r.tempFile /\ l.form = r.form
  <1>1. PICK size \in Nat, text \in Seq(ByteSet) :
          size = r.currentSize + Len(data) /\ text = r.lineBuffer \o data
    <2>1. r.lineBuffer \in Seq(ByteSet) /\ r.currentSize \in Nat
      BY DEF Parser
    <2>2. Len(data) \in Nat /\ r.lineBuffer \o data \in Seq(ByteSet)
      BY <2>1, LenProperties, ConcatProperties
    <2>3. r.currentSize + Len(data) \in Nat
      BY <2>1, <2>2
    <2> QED
      BY <2>2, <2>3, Zenon
  <1>2. Collect(r, data) = [r EXCEPT !.currentSize = size, !.lineBuffer = text]
    BY <1>1 DEF Collect
  <1> DEFINE l == [r EXCEPT !.currentSize = size, !.lineBuffer = text]
  <1>3. /\ l \in Parser /\ l.status = r.status /\ l.line = r.line
        /\ l.lineBuffer = text /\ l.currentSize = size
        /\ l.headers = r.headers /\ l.currentHeader = r.currentHeader /\ l.boundary = r.boundary
        /\ l.expectedBodySize = r.expectedBodySize /\ l.bodyData = r.bodyData
        /\ l.tempFile = r.tempFile /\ l.form = r.form
    BY DEF Parser
  <1> HIDE DEF l
  <1> QED
    BY <1>1, <1>2, <1>3 DEF l

\* A call takes a piece of the line.
Piece(b, c, w, n, e, u, x, m, more) ==
    /\ n + m <= Len(w) /\ Len(x) = m
    /\ SubSeq(w, 1, n) \o x = SubSeq(w, 1, n + m)
    /\ more = SubSeq(w, n + m + 1, Len(w)) \o e
    /\ Len(more) + m = Len(SubSeq(w, n + 1, Len(w)) \o e)
    /\ Cut(SubSeq(b, m + 1, Len(b)), c, more, u)

\* What readLine() takes from the buffer is a piece of the line.
LEMMA PieceOfLine ==
  ASSUME NEW w \in Seq(ByteSet), Ends(w), NEW n \in 0..Len(w) - 1, NEW e \in Seq(ByteSet),
         NEW b \in Seq(ByteSet), b # <<>>, NEW c \in Seq(ByteSet), NEW u \in Seq(ByteSet),
         NEW max \in Nat, max > 0, Cut(b, c, SubSeq(w, n + 1, Len(w)) \o e, u)
  PROVE  \E m \in Nat, x \in Seq(ByteSet), more \in Seq(ByteSet) :
           m > 0 /\ m <= max /\ x = ReadLine(b, max) /\ Piece(b, c, w, n, e, u, x, m, more)
  <1>1. PICK W \in Nat : W = Len(w) /\ n \in Nat /\ n < W
    <2>1. Len(w) \in Nat
      BY BytesJoined
    <2> QED
      BY <2>1
  <1>2. PICK t \in Seq(ByteSet) :
          t = SubSeq(w, n + 1, Len(w)) /\ Len(t) = W - n /\ LastFeed(t)
    BY <1>1, RestOfLine
  <1>3. PICK v \in Seq(ByteSet) : v = e \o u
    BY BytesJoined, Zenon
  <1>4. Cut(b, c, t, v)
    <2>1. (t \o e) \o u = t \o (e \o u)
      <3>1. Bytes(t, e, u)
        BY DEF Bytes
      <3>2. Cut(t \o e, u, t, e \o u)
        BY <3>1, BytesRegrouped, Zenon
      <3> QED
        BY <3>2, Zenon DEF Cut
    <2>2. b \o c = (t \o e) \o u
      BY <1>2, Zenon DEF Cut
    <2> QED
      BY <1>3, <2>1, <2>2, Zenon DEF Cut
  <1>5. PICK m \in 1..Len(t) : m <= Len(b) /\ m <= max /\ ReadLine(b, max) = SubSeq(b, 1, m)
    <2>1. Reads(b, c, t, v, max)
      BY <1>2, <1>4, Zenon DEF Reads, Bytes
    <2> QED
      BY <2>1, LineTaken
  <1>6. m \in Nat /\ m > 0 /\ m <= Len(t) /\ n + m <= W
    <2>1. Len(t) = W - n /\ m \in 1..Len(t)
      BY <1>2
    <2> QED
      BY <1>1, <2>1
  <1>7. SubSeq(b, 1, m) = SubSeq(t, 1, m) /\ Cut(SubSeq(b, m + 1, Len(b)), c, SubSeq(t, m + 1, Len(t)), v)
    <2>1. Meets(b, c, t, v, m)
      BY <1>4, <1>5, <1>6, Zenon DEF Meets, Bytes
    <2> QED
      BY <2>1, TakenFromBoth, Zenon
  <1>8. PICK x \in Seq(ByteSet) : x = SubSeq(b, 1, m) /\ Len(x) = m
    BY <1>5, <1>6, BytesParted, Zenon
  <1>9. SubSeq(w, 1, n) \o SubSeq(t, 1, m) = SubSeq(w, 1, n + m)
        /\ SubSeq(t, m + 1, Len(t)) = SubSeq(w, n + m + 1, Len(w))
    <2>1. n + m <= Len(w)
      BY <1>1, <1>6, Zenon
    <2> QED
      <3>1. Continues(w, t, n, m)
        BY <1>1, <1>2, <1>6, <2>1, Zenon DEF Continues
      <3>2. Extends(w, t, n, m)
        BY <3>1, BytesOfRest, Zenon
      <3> QED
        BY <3>2, Zenon DEF Extends
  <1>10. PICK k \in Nat : k = n + m
    BY <1>1, <1>6
  <1>11. PICK back \in Seq(ByteSet) : back = SubSeq(w, k + 1, Len(w)) /\ Len(back) = Len(w) - k
    <2>1. k <= Len(w)
      BY <1>1, <1>6, <1>10
    <2> QED
      BY <2>1, BytesParted, Zenon
  <1>12. PICK more \in Seq(ByteSet) : more = back \o e
    BY BytesJoined, Zenon
  <1>13. Len(more) + m = Len(t \o e)
    <2>1. Len(more) = Len(back) + Len(e) /\ Len(t \o e) = Len(t) + Len(e)
      BY <1>12, BytesJoined, Zenon
    <2>2. PICK L \in Nat : L = Len(e)
      BY BytesJoined
    <2>3. Len(back) = W - k /\ Len(t) = W - n
      BY <1>1, <1>2, <1>11
    <2>4. (W - k) + L + m = (W - n) + L
      BY <1>1, <1>6, <1>10
    <2> QED
      BY <2>1, <2>2, <2>3, <2>4
  <1>14. Cut(SubSeq(b, m + 1, Len(b)), c, more, u)
    <2>1. (back \o e) \o u = back \o (e \o u)
      <3>1. Bytes(back, e, u)
        BY DEF Bytes
      <3>2. Cut(back \o e, u, back, e \o u)
        BY <3>1, BytesRegrouped, Zenon
      <3> QED
        BY <3>2, Zenon DEF Cut
    <2>2. SubSeq(b, m + 1, Len(b)) \o c = back \o v
      BY <1>7, <1>9, <1>10, <1>11, Zenon DEF Cut
    <2> QED
      BY <1>3, <1>12, <2>1, <2>2, Zenon DEF Cut
  <1>15. x = ReadLine(b, max) /\ SubSeq(w, 1, n) \o x = SubSeq(w, 1, n + m)
    BY <1>5, <1>7, <1>8, <1>9, Zenon
  <1>16. more = SubSeq(w, n + m + 1, Len(w)) \o e /\ Len(more) + m = Len(SubSeq(w, n + 1, Len(w)) \o e)
    BY <1>2, <1>10, <1>11, <1>12, <1>13, Zenon
  <1>17. Piece(b, c, w, n, e, u, x, m, more)
    BY <1>1, <1>6, <1>8, <1>14, <1>15, <1>16, Zenon DEF Piece
  <1> QED
    BY <1>5, <1>6, <1>15, <1>17, Zenon

\* A call takes a piece of the line, one byte more than allowed at most.
LEMMA LineCollected ==
  ASSUME NEW r \in Parser, NEW q \in Request, WellFormed(q), NEW i \in 1..LineCount(q),
         NEW n \in 0..Len(Whole(q, i)) - 1, NEW rest, LineAt(r, q, i, n, rest),
         r.currentSize <= MaxSize, NEW b \in Seq(ByteSet), b # <<>>, NEW c \in Seq(ByteSet),
         NEW u \in Seq(ByteSet), Cut(b, c, rest, u)
  PROVE  \E m \in Nat, more \in Seq(ByteSet), l \in Parser :
           /\ m > 0 /\ n + m <= Len(Whole(q, i)) /\ Len(BytesRead(r, b)) = m
           /\ l = Collect(r, BytesRead(r, b)) /\ LineAt(l, q, i, n + m, more)
           /\ l.currentSize <= MaxSize + 1 /\ Cut(SubSeq(b, m + 1, Len(b)), c, more, u)
  <1>1. PICK w \in Seq(ByteSet), e \in Seq(ByteSet) :
          w = Whole(q, i) /\ e = EncodeFrom(q)[i + 1] /\ Ends(w)
    <2>1. i + 1 \in 1..LineCount(q) + 1
      BY Encoded
    <2> QED
      BY <2>1, Encoded, WholeIs
  <1>2. rest = SubSeq(w, n + 1, Len(w)) \o e
    BY <1>1 DEF LineAt
  <1>3. r.currentSize \in Nat /\ r.lineBuffer \in Seq(ByteSet) /\ MaxSize \in Nat
    BY SizesAssumption DEF Parser
  <1>4. PICK max \in Nat : max = MaxSize - r.currentSize + 1 /\ max > 0
    BY <1>3
  <1>5. BytesRead(r, b) = ReadLine(b, max)
    BY <1>4 DEF BytesRead, LineAt, Expects
  <1>6. PICK m \in Nat, x \in Seq(ByteSet), more \in Seq(ByteSet) :
          m > 0 /\ m <= max /\ x = ReadLine(b, max) /\ Piece(b, c, w, n, e, u, x, m, more)
    <2>1. n \in 0..Len(w) - 1 /\ Cut(b, c, SubSeq(w, n + 1, Len(w)) \o e, u)
      BY <1>1, <1>2, Zenon
    <2> QED
      BY <1>1, <1>4, <2>1, PieceOfLine
  <1>7. PICK l \in Parser :
          /\ l = Collect(r, x) /\ l.status = r.status /\ l.line = r.line
          /\ l.lineBuffer = r.lineBuffer \o x /\ l.currentSize = r.currentSize + Len(x)
          /\ l.headers = r.headers /\ l.currentHeader = r.currentHeader /\ l.boundary = r.boundary
          /\ l.bodyData = r.bodyData /\ l.tempFile = r.tempFile /\ l.form = r.form
    BY Collects
  <1>8. NoBody(l) /\ Expects(l, q, i)
    BY <1>7 DEF LineAt, NoBody, Expects
  <1>9. l.lineBuffer = SubSeq(w, 1, n + m)
    BY <1>1, <1>6, <1>7, Zenon DEF LineAt, Piece
  <1>10. l.currentSize + Len(more) = Size(q) /\ l.currentSize <= MaxSize + 1
    <2>1. r.currentSize + Len(rest) = Size(q)
      BY DEF LineAt
    <2>2. Len(more) + m = Len(rest) /\ Len(x) = m
      BY <1>2, <1>6, Zenon DEF Piece
    <2>3. l.currentSize = r.currentSize + m
      BY <1>7, <2>2, Zenon
    <2>4. PICK M \in Nat, s \in Nat : M = Len(more) /\ s = r.currentSize
      BY <1>3, BytesJoined
    <2>5. (s + m) + M = s + (M + m)
      OBVIOUS
    <2>6. s + m <= MaxSize + 1
      <3>1. max = MaxSize - s + 1 /\ m <= max /\ MaxSize \in Nat
        BY <1>3, <1>4, <1>6, <2>4, Zenon
      <3> QED
        BY <3>1
    <2> QED
      BY <2>1, <2>2, <2>3, <2>4, <2>5, <2>6, Zenon
  <1>11. LineAt(l, q, i, n + m, more)
    BY <1>1, <1>6, <1>8, <1>9, <1>10, Zenon DEF LineAt, Piece
  <1>12. Cut(SubSeq(b, m + 1, Len(b)), c, more, u) /\ n + m <= Len(w) /\ Len(x) = m
    BY <1>6, Zenon DEF Piece
  <1> QED
    BY <1>1, <1>5, <1>6, <1>7, <1>10, <1>11, <1>12, Zenon

HeadRead(r, q) ==
    /\ HeadersKnown(r.headers, r.currentHeader, q, Len(q.headers)) /\ r.line = q.line /\ ~Broken(q)
    /\ r.expectedBodySize = Len(q.body)
InBody(r, q, rest) ==
    /\ r.status = "waitForBody" /\ r.boundary = FALSE /\ ~Multipart(q) /\ HeadRead(r, q)
    /\ rest # <<>> /\ r.bodyData \o rest = q.body /\ r.tempFile = <<>> /\ r.form = NothingParsed
    /\ r.currentSize + Len(rest) = Size(q) /\ Size(q) <= MaxSize
InFile(r, q, rest) ==
    /\ r.status = "waitForBody" /\ r.boundary = TRUE /\ Multipart(q) /\ HeadRead(r, q)
    /\ rest # <<>> /\ r.tempFile \o rest = q.body /\ r.bodyData = <<>> /\ r.form = NothingParsed
    /\ r.currentSize = HeadSize(q) /\ HeadSize(q) <= MaxSize + 1 /\ HeadSize(q) <= MaxMultiPartSize

\* What the code serves.
WithinLimits(q) ==
    IF Multipart(q)
    THEN /\ HeadSize(q) <= MaxSize + 1
         /\ Len(q.body) < MaxMultiPartSize
         /\ HeadSize(q) + FieldLines(q) <= MaxMultiPartSize
    ELSE Size(q) <= MaxSize

Complete(r, q) == r.status = "complete" /\ SameRequest(r, q) /\ WithinLimits(q) /\ ~Broken(q)
Refusable(q) == Broken(q) \/ ~WithinLimits(q)
Aborted(r, q) == r.status = "abort" /\ Refusable(q)

\* A request has no files but those of its form.
FilesKept(r, q) ==
    FilesLeft(r) = 0 \/ (Decided(r) /\ FilesLeft(r) = FilesReplaced(q.sections))
Progress(r, q, rest) ==
    /\ FilesKept(r, q)
    /\ \/ \E i \in 1..LineCount(q) : InLine(r, q, i, rest)
       \/ InBody(r, q, rest)
       \/ InFile(r, q, rest)
       \/ Complete(r, q) /\ rest = <<>>
       \/ Aborted(r, q)

\* Without an upload there are no files.
LEMMA NothingKept == \A r : r.form = NothingParsed => FilesLeft(r) = 0 /\ \A q : FilesKept(r, q)
  <1>1. NothingParsed.opened = 0 /\ DOMAIN NothingParsed.files = {}
    BY DEF NothingParsed
  <1> QED
    BY <1>1, FS_EmptySet DEF FilesKept, FilesLeft

-----------------------------------------------------------------------------
(* Sizes. *)

\* A request with more than maxSize bytes before its body is too large.
LEMMA TooLarge ==
  ASSUME NEW q \in Request, WellFormed(q), NEW size \in Nat, NEW n \in Nat,
         size + n = Size(q), n > Len(q.body), size > MaxSize
  PROVE  Refusable(q)
  <1>1. PICK B \in Nat, H \in Nat : B = Len(q.body) /\ H = HeadSize(q) /\ Size(q) = H + B
    BY SizeIs
  <1>2. MaxSize \in Nat
    BY SizesAssumption
  <1>3. H + B > MaxSize /\ H > MaxSize + 1
    BY <1>1, <1>2
  <1>4. ~WithinLimits(q)
    BY <1>1, <1>2, <1>3 DEF WithinLimits
  <1> QED
    BY <1>4 DEF Refusable

\* Before the end of the head, all of the body and more is to come.
LEMMA MoreThanBody ==
  ASSUME NEW q \in Request, WellFormed(q), NEW i \in 1..LineCount(q), NEW k \in 0..Len(Whole(q, i)),
         k < Len(Whole(q, i)) \/ i < LineCount(q), NEW rest,
         rest = SubSeq(Whole(q, i), k + 1, Len(Whole(q, i))) \o EncodeFrom(q)[i + 1]
  PROVE  rest \in Seq(ByteSet) /\ Len(rest) \in Nat /\ Len(rest) > Len(q.body)
  <1>1. PICK w \in Seq(ByteSet), e \in Seq(ByteSet) : w = Whole(q, i) /\ e = EncodeFrom(q)[i + 1]
    <2>1. i + 1 \in 1..LineCount(q) + 1
      BY Encoded
    <2> QED
      BY <2>1, Encoded
  <1>2. PICK W \in Nat, L \in Nat, B \in Nat : W = Len(w) /\ L = Len(e) /\ B = Len(q.body)
    BY BytesJoined, Numbers
  <1>3. k \in Nat /\ k <= W
    BY <1>1, <1>2
  <1>4. PICK t \in Seq(ByteSet) : t = SubSeq(w, k + 1, Len(w)) /\ Len(t) = W - k
    BY <1>2, <1>3, BytesParted
  <1>5. rest = t \o e
    BY <1>1, <1>4
  <1>6. rest \in Seq(ByteSet) /\ Len(rest) = (W - k) + L
    BY <1>2, <1>4, <1>5, BytesJoined
  <1>7. L >= B /\ (i < LineCount(q) => L >= B + 2)
    BY <1>1, <1>2, SizeIs
  <1>8. k < W \/ i < LineCount(q)
    BY <1>1, <1>2
  <1>9. PICK M \in Nat : M = (W - k) + L /\ M > B
    <2>1. (W - k) + L \in Nat
      BY <1>3
    <2>2. CASE k < W
      <3>1. (W - k) + L > B
        BY <1>3, <1>7, <2>2
      <3> QED
        BY <2>1, <3>1
    <2>3. CASE i < LineCount(q)
      <3>1. L >= B + 2
        BY <1>7, <2>3
      <3>2. (W - k) + L > B
        BY <1>3, <3>1
      <3> QED
        BY <2>1, <3>2
    <2> QED
      BY <1>8, <2>2, <2>3
  <1> QED
    BY <1>2, <1>6, <1>9, Zenon

-----------------------------------------------------------------------------
(* The last step of a call: is the request too large by now? *)

Judged(n) == IF TooManyBytes(n) THEN [n EXCEPT !.status = "abort"] ELSE n
Outcome(n, q, rest) == n \in Parser /\ Progress(n, q, rest)

\* A request that is too large is aborted.
LEMMA JudgedTooLarge ==
  ASSUME NEW n \in Parser, NEW q, NEW rest, TooManyBytes(n), FilesKept(n, q), Refusable(q)
  PROVE  Outcome(Judged(n), q, rest)
  <1>1. [n EXCEPT !.status = "abort"] \in Parser
    BY DEF Parser, Status
  <1>2. [n EXCEPT !.status = "abort"].status = "abort" /\ [n EXCEPT !.status = "abort"].form = n.form
    BY DEF Parser
  <1>3. FilesKept([n EXCEPT !.status = "abort"], q)
    BY <1>2 DEF FilesKept, FilesLeft, Decided
  <1> QED
    BY <1>1, <1>2, <1>3 DEF Judged, Outcome, Progress, Aborted

\* In a head: goes on, or is too large.
LEMMA JudgedInHead ==
  ASSUME NEW n \in Parser, NEW q \in Request, WellFormed(q), NEW i \in 1..LineCount(q),
         NEW k \in 0..Len(Whole(q, i)) - 1, NEW rest, LineAt(n, q, i, k, rest)
  PROVE  rest \in Seq(ByteSet) /\ Outcome(Judged(n), q, rest)
  <1>1. n.currentSize \in Nat /\ MaxSize \in Nat /\ n.boundary = FALSE /\ FilesKept(n, q)
    BY SizesAssumption, NothingKept DEF Parser, LineAt, NoBody
  <1>2. n.currentSize + Len(rest) = Size(q)
    BY DEF LineAt
  <1>3. k \in 0..Len(Whole(q, i)) /\ k < Len(Whole(q, i))
    <2>1. Len(Whole(q, i)) \in Nat
      BY Encoded, BytesJoined
    <2> QED
      BY <2>1
  <1>4. rest \in Seq(ByteSet) /\ Len(rest) \in Nat /\ Len(rest) > Len(q.body)
    BY <1>3, MoreThanBody DEF LineAt
  <1>5. TooManyBytes(n) <=> n.currentSize > MaxSize
    BY <1>1 DEF TooManyBytes
  <1>6. CASE TooManyBytes(n)
    <2>1. Refusable(q)
      BY <1>1, <1>2, <1>4, <1>5, <1>6, TooLarge
    <2> QED
      BY <1>1, <1>4, <1>6, <2>1, JudgedTooLarge
  <1>7. CASE ~TooManyBytes(n)
    <2>1. n.currentSize <= MaxSize
      BY <1>1, <1>5, <1>7
    <2>2. InLine(n, q, i, rest)
      BY <2>1 DEF InLine
    <2>3. Judged(n) = n
      BY <1>7 DEF Judged
    <2> QED
      BY <1>1, <1>4, <2>2, <2>3 DEF Outcome, Progress
  <1> QED
    BY <1>6, <1>7

\* Between two lines.
LEMMA NextLine ==
  ASSUME NEW q \in Request, WellFormed(q), NEW i \in 1..LineCount(q)
  PROVE  LET w == Whole(q, i)
             rest == SubSeq(w, Len(w) + 1, Len(w)) \o EncodeFrom(q)[i + 1]
         IN  /\ rest = EncodeFrom(q)[i + 1]
             /\ i < LineCount(q) =>
                  LET v == Whole(q, i + 1) IN
                    /\ 0 \in 0..Len(v) - 1 /\ SubSeq(v, 1, 0) = <<>>
                    /\ rest = SubSeq(v, 0 + 1, Len(v)) \o EncodeFrom(q)[(i + 1) + 1]
  <1>1. PICK w \in Seq(ByteSet), e \in Seq(ByteSet) : w = Whole(q, i) /\ e = EncodeFrom(q)[i + 1]
    <2>1. i + 1 \in 1..LineCount(q) + 1
      BY Encoded
    <2> QED
      BY <2>1, Encoded
  <1>2. SubSeq(w, Len(w) + 1, Len(w)) \o e = e
    <2>1. Len(w) \in Nat
      BY BytesJoined
    <2>2. SubSeq(w, Len(w) + 1, Len(w)) = <<>>
      BY <2>1, SubSeqEmpty
    <2>3. <<>> \o e = e
      BY NothingFirst
    <2> QED
      BY <2>2, <2>3
  <1>3. ASSUME i < LineCount(q)
        PROVE  LET v == Whole(q, i + 1) IN
                 /\ 0 \in 0..Len(v) - 1 /\ SubSeq(v, 1, 0) = <<>>
                 /\ e = SubSeq(v, 0 + 1, Len(v)) \o EncodeFrom(q)[(i + 1) + 1]
    <2>1. PICK j \in 1..LineCount(q) : j = i + 1
      BY <1>3, Encoded
    <2>2. PICK v \in Seq(ByteSet) : v = Whole(q, j)
      BY Encoded
    <2>3. Len(v) \in {2, 3}
      BY <2>2, WholeIs DEF Ends
    <2>4. SubSeq(v, 1, 0) = <<>> /\ SubSeq(v, 0 + 1, Len(v)) = v /\ 0 \in 0..Len(v) - 1
      <3>1. SubSeq(v, 1, 0) = <<>> /\ SubSeq(v, 1, Len(v)) = v
        BY Growing
      <3>2. 0 + 1 = 1
        OBVIOUS
      <3> QED
        BY <2>3, <3>1, <3>2
    <2>5. EncodeFrom(q)[j] = v \o EncodeFrom(q)[j + 1]
      BY <2>2, Encoded
    <2> QED
      BY <1>1, <2>1, <2>2, <2>4, <2>5
  <1> QED
    BY <1>1, <1>2, <1>3

-----------------------------------------------------------------------------
(* A line that is complete. *)

\* All of line i is in the buffer.
LineRead(l, q, i, rest) == LineAt(l, q, i, Len(Whole(q, i)), rest)

\* The text of a line that has come completely.
LEMMA LineText ==
  ASSUME NEW q \in Request, WellFormed(q), NEW i \in 1..LineCount(q), NEW l, NEW rest, LineRead(l, q, i, rest)
  PROVE  Trimmed(l.lineBuffer) = HeadLine(q, i) /\ rest = EncodeFrom(q)[i + 1]
  <1>1. PICK w \in Seq(ByteSet) : w = Whole(q, i)
    BY Encoded
  <1>2. l.lineBuffer = w
    <2>1. l.lineBuffer = SubSeq(w, 1, Len(w))
      BY <1>1, Zenon DEF LineRead, LineAt
    <2>2. SubSeq(w, 1, Len(w)) = w
      BY Growing
    <2> QED
      BY <2>1, <2>2, Zenon
  <1>3. Ends(w) /\ Len(w) = (IF HeadLine(q, i) = <<>> THEN 2 ELSE 3)
        /\ (HeadLine(q, i) # <<>> => HeadLine(q, i) = <<w[1]>>)
    BY <1>1, WholeIs
  <1>4. Trimmed(w) = IF Len(w) = 2 THEN <<>> ELSE <<w[1]>>
    BY <1>3, TextOf
  <1>5. Trimmed(w) = HeadLine(q, i)
    BY <1>3, <1>4
  <1>6. rest = EncodeFrom(q)[i + 1]
    BY NextLine DEF LineRead, LineAt
  <1> QED
    BY <1>2, <1>5, <1>6

\* From line to line, n being the request with an empty buffer.
LEMMA LineFollows ==
  ASSUME NEW q \in Request, WellFormed(q), NEW i \in 1..LineCount(q), i < LineCount(q),
         NEW l \in Parser, NEW rest, LineRead(l, q, i, rest),
         NEW n \in Parser, n.lineBuffer = <<>>, n.currentSize = l.currentSize, NoBody(n), Expects(n, q, i + 1)
  PROVE  rest \in Seq(ByteSet) /\ Outcome(Judged(n), q, rest)
  <1>1. PICK j \in 1..LineCount(q) : j = i + 1
    BY Encoded
  <1>2. rest = SubSeq(Whole(q, i), Len(Whole(q, i)) + 1, Len(Whole(q, i))) \o EncodeFrom(q)[i + 1]
    BY DEF LineRead, LineAt
  <1>3. /\ 0 \in 0..Len(Whole(q, j)) - 1 /\ SubSeq(Whole(q, j), 1, 0) = <<>>
        /\ rest = SubSeq(Whole(q, j), 0 + 1, Len(Whole(q, j))) \o EncodeFrom(q)[j + 1]
    BY <1>1, <1>2, NextLine
  <1>4. n.currentSize + Len(rest) = Size(q)
    BY DEF LineRead, LineAt
  <1>5. LineAt(n, q, j, 0, rest)
    BY <1>1, <1>3, <1>4, Zenon DEF LineAt
  <1> QED
    BY <1>3, <1>5, JudgedInHead

\* An empty line before the request.
LEMMA BlankLine ==
  ASSUME NEW q \in Request, WellFormed(q), NEW i \in 1..LineCount(q), i <= q.blanks,
         NEW l \in Parser, NEW rest, LineRead(l, q, i, rest)
  PROVE  rest \in Seq(ByteSet) /\ Outcome(Judged(ParseRequestLine(l)), q, rest)
  <1> DEFINE n == [l EXCEPT !.lineBuffer = <<>>]
  <1>1. Trimmed(l.lineBuffer) = <<>>
    BY LineText, HeadLineIs
  <1>2. ParseRequestLine(l) = n
    BY <1>1 DEF ParseRequestLine
  <1>3. /\ n \in Parser /\ n.lineBuffer = <<>> /\ n.currentSize = l.currentSize /\ n.status = l.status
        /\ n.headers = l.headers /\ n.currentHeader = l.currentHeader /\ n.boundary = l.boundary
        /\ n.bodyData = l.bodyData /\ n.tempFile = l.tempFile /\ n.form = l.form
    BY EmptySeq DEF Parser
  <1> HIDE DEF n
  <1>4. i < LineCount(q) /\ i + 1 <= q.blanks + 1
    BY Numbers
  <1>5. NoBody(n) /\ Expects(n, q, i + 1)
    <2>1. NoBody(l) /\ l.status = "waitForRequest" /\ HeadersKnown(l.headers, l.currentHeader, q, 0)
      <3>1. ~(i > q.blanks + 1)
        BY Numbers
      <3> QED
        BY <3>1 DEF LineRead, LineAt, Expects
    <2> QED
      BY <1>3, <1>4, <2>1 DEF NoBody, Expects
  <1> QED
    BY <1>2, <1>3, <1>4, <1>5, LineFollows

\* The first line of the request.
LEMMA FirstLine ==
  ASSUME NEW q \in Request, WellFormed(q), NEW i \in 1..LineCount(q), i = q.blanks + 1,
         NEW l \in Parser, NEW rest, LineRead(l, q, i, rest)
  PROVE  rest \in Seq(ByteSet) /\ Outcome(Judged(ParseRequestLine(l)), q, rest)
  <1>1. Trimmed(l.lineBuffer) = <<q.line>> /\ q.line \in ByteSet /\ q.line.kind = "line"
    BY LineText, HeadLineIs DEF WellFormed
  <1>2. i < LineCount(q) /\ i + 1 > q.blanks + 1 /\ (i + 1) - q.blanks - 2 = 0
    BY Numbers
  <1>3. NoBody(l) /\ l.status = "waitForRequest" /\ HeadersKnown(l.headers, l.currentHeader, q, 0)
    <2>1. ~(i > q.blanks + 1)
      BY Numbers
    <2> QED
      BY <2>1 DEF LineRead, LineAt, Expects
  <1>4. CASE ~Broken(q)
    <2> DEFINE n == [l EXCEPT !.lineBuffer = <<>>, !.line = q.line, !.status = "waitForHeader"]
    <2>1. ParseRequestLine(l) = n
      BY <1>1, <1>4 DEF ParseRequestLine, Broken
    <2>2. /\ n \in Parser /\ n.lineBuffer = <<>> /\ n.currentSize = l.currentSize
          /\ n.status = "waitForHeader" /\ n.line = q.line
          /\ n.headers = l.headers /\ n.currentHeader = l.currentHeader /\ n.boundary = l.boundary
          /\ n.bodyData = l.bodyData /\ n.tempFile = l.tempFile /\ n.form = l.form
      BY <1>1, EmptySeq DEF Parser, Status
    <2> HIDE DEF n
    <2>3. NoBody(n) /\ Expects(n, q, i + 1)
      BY <1>2, <1>3, <1>4, <2>2 DEF NoBody, Expects
    <2> QED
      BY <1>2, <2>1, <2>2, <2>3, LineFollows
  <1>5. CASE Broken(q)
    <2> DEFINE n == [l EXCEPT !.lineBuffer = <<>>, !.status = "abort"]
    <2>1. ParseRequestLine(l) = n
      BY <1>1, <1>5 DEF ParseRequestLine, Broken
    <2>2. n \in Parser /\ n.status = "abort" /\ n.form = l.form
      BY EmptySeq DEF Parser, Status
    <2> HIDE DEF n
    <2>3. n.form = NothingParsed /\ FilesKept(n, q)
      BY <1>3, <2>2, NothingKept DEF NoBody
    <2>4. Refusable(q)
      BY <1>5 DEF Refusable
    <2>5. Outcome(Judged(n), q, rest)
      <3>1. CASE TooManyBytes(n)
        BY <2>2, <2>3, <2>4, <3>1, JudgedTooLarge
      <3>2. CASE ~TooManyBytes(n)
        BY <2>2, <2>3, <2>4, <3>2 DEF Judged, Outcome, Progress, Aborted
      <3> QED
        BY <3>1, <3>2
    <2>6. rest \in Seq(ByteSet)
      <3>1. rest = EncodeFrom(q)[i + 1]
        BY LineText
      <3>2. i + 1 \in 1..LineCount(q) + 1
        BY Encoded
      <3> QED
        BY <3>1, <3>2, Encoded
    <2> QED
      BY <2>1, <2>5, <2>6
  <1> QED
    BY <1>4, <1>5

\* A header, or a line that continues one.
LEMMA HeaderLine ==
  ASSUME NEW q \in Request, WellFormed(q), NEW i \in 1..LineCount(q), i > q.blanks + 1, i < LineCount(q),
         NEW l \in Parser, NEW rest, LineRead(l, q, i, rest)
  PROVE  rest \in Seq(ByteSet) /\ Outcome(Judged(ParseHeader(l)), q, rest)
  <1>1. PICK j \in 1..Len(q.headers) : j = i - q.blanks - 1
    BY HeadLineIs
  <1>2. PICK line \in ByteSet : line = q.headers[j] /\ Trimmed(l.lineBuffer) = <<line>>
    BY <1>1, LineText, HeadLineIs
  <1>3. i - q.blanks - 2 = j - 1 /\ (i + 1) - q.blanks - 2 = j /\ i + 1 > q.blanks + 1
    BY <1>1, Numbers
  <1>4. /\ NoBody(l) /\ l.status = "waitForHeader" /\ HeadersKnown(l.headers, l.currentHeader, q, j - 1)
        /\ l.line = q.line /\ ~Broken(q)
    <2>1. ~(i <= q.blanks + 1)
      BY Numbers
    <2> QED
      BY <1>3, <2>1 DEF LineRead, LineAt, Expects
  <1>5. line.kind = IF line.name = NoName THEN "text" ELSE "header"
    BY <1>1, <1>2, Numbers, LenProperties DEF WellFormed
  <1>6. PICK n : /\ n = ParseHeader(l)
                 /\ n \in Parser /\ n.lineBuffer = <<>> /\ n.currentSize = l.currentSize
                 /\ n.status = l.status /\ n.line = l.line /\ n.boundary = l.boundary
                 /\ n.bodyData = l.bodyData /\ n.tempFile = l.tempFile /\ n.form = l.form
                 /\ HeadersKnown(n.headers, n.currentHeader, q, j)
    <2>1. CASE line.name # NoName
      <3>1. line.kind = "header"
        BY <1>5, <2>1
      <3>2. PICK known, name : known = Put(l.headers, line.name, line) /\ name = line.name
        OBVIOUS
      <3>3. HeadersKnown(known, name, q, j)
        BY <1>2, <1>4, <2>1, <3>1, <3>2, HeaderAdded
      <3>4. known \in HeaderMap /\ name \in Name
        BY <3>3 DEF HeadersKnown
      <3> DEFINE n == [l EXCEPT !.lineBuffer = <<>>, !.currentHeader = name, !.headers = known]
      <3>5. ParseHeader(l) = n
        BY <1>2, <3>1, <3>2 DEF ParseHeader, Parser
      <3>6. /\ n \in Parser /\ n.lineBuffer = <<>> /\ n.currentSize = l.currentSize
            /\ n.status = l.status /\ n.line = l.line /\ n.boundary = l.boundary
            /\ n.bodyData = l.bodyData /\ n.tempFile = l.tempFile /\ n.form = l.form
            /\ n.headers = known /\ n.currentHeader = name
        BY <3>4, EmptySeq DEF Parser
      <3> HIDE DEF n
      <3> QED
        BY <3>3, <3>5, <3>6
    <2>2. CASE line.name = NoName /\ l.currentHeader \in DOMAIN l.headers
      <3>1. line.kind # "header"
        BY <1>5, <2>2
      <3>2. PICK known : known = [l.headers EXCEPT ![l.currentHeader].words = @ \cup line.words]
        OBVIOUS
      <3>3. HeadersKnown(known, l.currentHeader, q, j)
        BY <1>2, <1>4, <1>5, <2>2, <3>2, HeaderContinued
      <3>4. known \in HeaderMap
        BY <3>3 DEF HeadersKnown
      <3> DEFINE n == [l EXCEPT !.lineBuffer = <<>>, !.headers = known]
      <3>5. ParseHeader(l) = n
        <4>1. ParseHeader(l) = [[l EXCEPT !.lineBuffer = <<>>] EXCEPT !.headers[l.currentHeader].words = @ \cup line.words]
          BY <1>2, <2>2, <3>1 DEF ParseHeader, Parser
        <4> QED
          BY <3>2, <4>1 DEF Parser
      <3>6. /\ n \in Parser /\ n.lineBuffer = <<>> /\ n.currentSize = l.currentSize
            /\ n.status = l.status /\ n.line = l.line /\ n.boundary = l.boundary
            /\ n.bodyData = l.bodyData /\ n.tempFile = l.tempFile /\ n.form = l.form
            /\ n.headers = known /\ n.currentHeader = l.currentHeader
        BY <3>4, EmptySeq DEF Parser
      <3> HIDE DEF n
      <3> QED
        BY <3>3, <3>5, <3>6
    <2>3. CASE line.name = NoName /\ l.currentHeader \notin DOMAIN l.headers
      <3>1. line.kind # "header"
        BY <1>5, <2>3
      <3>3. HeadersKnown(l.headers, l.currentHeader, q, j)
        BY <1>2, <1>4, <1>5, <2>3, HeaderContinued
      <3> DEFINE n == [l EXCEPT !.lineBuffer = <<>>]
      <3>5. ParseHeader(l) = n
        BY <1>2, <2>3, <3>1 DEF ParseHeader, Parser
      <3>6. /\ n \in Parser /\ n.lineBuffer = <<>> /\ n.currentSize = l.currentSize
            /\ n.status = l.status /\ n.line = l.line /\ n.boundary = l.boundary
            /\ n.bodyData = l.bodyData /\ n.tempFile = l.tempFile /\ n.form = l.form
            /\ n.headers = l.headers /\ n.currentHeader = l.currentHeader
        BY EmptySeq DEF Parser
      <3> HIDE DEF n
      <3> QED
        BY <3>3, <3>5, <3>6
    <2> QED
      BY <2>1, <2>2, <2>3
  <1>7. NoBody(n) /\ Expects(n, q, i + 1)
    BY <1>3, <1>4, <1>6 DEF NoBody, Expects
  <1> QED
    BY <1>6, <1>7, LineFollows

-----------------------------------------------------------------------------
(* The empty line that ends the head. *)

\* A body that is a form has a line at least.
LEMMA BodyIsForm ==
  ASSUME NEW q \in Request, WellFormed(q), Multipart(q)
  PROVE  /\ ParseMultiPartFile(q.body).parameters = Parameters(q.sections)
         /\ ParseMultiPartFile(q.body).files = Files(q.sections)
         /\ ParseMultiPartFile(q.body).fieldBytes = FieldLines(q) /\ FieldLines(q) \in Nat
         /\ FilesLeft([form |-> ParseMultiPartFile(q.body)]) = FilesReplaced(q.sections)
         /\ Len(q.body) > 0
  <1>1. q.sections \in Seq(Section) /\ q.sections # <<>> /\ WellFormedForm(q.sections)
        /\ q.body = FormFrom(q.sections)[1]
    BY DEF Request, WellFormed, Multipart
  <1>2. PICK ss, form : /\ ss \in Seq(Section) /\ ss = q.sections
                        /\ form = ParseMultiPartFile(FormFrom(ss)[1])
    BY <1>1
  <1>3. /\ form.parameters = Parameters(ss) /\ form.files = Files(ss)
        /\ form.fieldBytes = FieldLinesFrom(ss)[1] /\ form.fieldBytes \in Nat
        /\ form.opened - Cardinality(DOMAIN form.files) = FilesReplaced(ss)
        /\ Len(FormFrom(ss)[1]) > 0
    BY <1>1, <1>2, FormParsed
  <1> QED
    BY <1>1, <1>2, <1>3 DEF FieldLines, FilesLeft

\* A request without sections.
LEMMA NoForm ==
  ASSUME NEW q \in Request, ~Multipart(q)
  PROVE  NothingParsed.parameters = Parameters(q.sections) /\ NothingParsed.files = Files(q.sections)
  <1>1. q.sections = <<>>
    BY DEF Multipart
  <1>2. Uploads(<<>>) = {}
    BY DEF Uploads
  <1>3. Files(<<>>) = [f \in {} |-> <<>>]
    <2>1. FileFields(<<>>) = {}
      BY <1>2 DEF FileFields
    <2> QED
      BY <2>1 DEF Files
  <1>4. Parameters(<<>>) = {}
    <2>1. ToSet(<<>>) = {}
      BY DEF ToSet
    <2> QED
      BY <2>1 DEF Parameters
  <1> QED
    BY <1>1, <1>3, <1>4 DEF NothingParsed

\* The empty line behind the headers: the body is next, or nothing is, or the request
\* is too large.
LEMMA HeadEnds ==
  ASSUME NEW q \in Request, WellFormed(q), NEW i \in 1..LineCount(q), i = LineCount(q),
         NEW l \in Parser, NEW rest, LineRead(l, q, i, rest), l.currentSize <= MaxSize + 1
  PROVE  rest \in Seq(ByteSet) /\ Outcome(Judged(ParseHeader(l)), q, rest)
  <1>1. Trimmed(l.lineBuffer) = <<>> /\ i > q.blanks + 1 /\ rest = q.body /\ rest \in Seq(ByteSet)
    BY LineText, HeadLineIs, Encoded
  <1>2. /\ NoBody(l) /\ l.status = "waitForHeader" /\ HeadersKnown(l.headers, l.currentHeader, q, Len(q.headers))
        /\ l.line = q.line /\ ~Broken(q)
    <2>1. ~(i <= q.blanks + 1) /\ i - q.blanks - 2 = Len(q.headers)
      BY <1>1, Numbers
    <2> QED
      BY <2>1 DEF LineRead, LineAt, Expects
  <1> DEFINE m == [l EXCEPT !.lineBuffer = <<>>]
  <1>3. ParseHeader(l) = HeadersCompleted(m)
    BY <1>1 DEF ParseHeader
  <1>4. /\ m \in Parser /\ m.currentSize = l.currentSize /\ m.line = l.line /\ m.headers = l.headers
        /\ m.currentHeader = l.currentHeader
        /\ m.bodyData = l.bodyData /\ m.tempFile = l.tempFile /\ m.form = l.form
    BY EmptySeq DEF Parser
  <1> HIDE DEF m
  <1>5. PICK B \in Nat, H \in Nat : B = Len(q.body) /\ H = HeadSize(q) /\ Size(q) = H + B
    BY SizeIs
  <1>6. PICK boundary \in BOOLEAN :
          /\ boundary = ({"multipart/form-data", "boundary="} \subseteq Value(m, "content-type"))
          /\ boundary <=> Multipart(q)
          /\ ContentLength(m) = B
          /\ DOMAIN m.headers = {q.headers[k].name : k \in DOMAIN q.headers} \ {NoName}
    <2>1. HeadersKnown(m.headers, m.currentHeader, q, Len(q.headers))
      BY <1>2, <1>4
    <2> QED
      BY <1>5, <2>1, HeadersSay
  <1>7. m.currentSize = H
    <2>1. l.currentSize + Len(rest) = Size(q)
      BY DEF LineRead, LineAt
    <2>2. l.currentSize \in Nat
      BY DEF Parser
    <2> QED
      BY <1>1, <1>4, <1>5, <2>1, <2>2
  <1> DEFINE status == CASE B = 0 -> "complete"
                         [] B # 0 /\ ~boundary /\ BodyTooLarge(m, B) -> "abort"
                         [] boundary /\ B > MaxMultiPartSize -> "abort"
                         [] OTHER -> "waitForBody"
             n == [m EXCEPT !.boundary = boundary, !.expectedBodySize = B, !.status = status]
  <1>8. HeadersCompleted(m) = n
    BY <1>6, Zenon DEF HeadersCompleted
  <1>9. status \in {"complete", "abort", "waitForBody"}
    OBVIOUS
  <1>10. /\ n \in Parser /\ n.currentSize = H /\ n.status = status /\ n.boundary = boundary
         /\ n.expectedBodySize = B /\ n.line = q.line /\ n.headers = m.headers
         /\ n.currentHeader = m.currentHeader
         /\ n.bodyData = <<>> /\ n.tempFile = <<>> /\ n.form = NothingParsed
    <2> HIDE DEF status
    <2> QED
      BY <1>2, <1>4, <1>7, <1>9 DEF Parser, Status, NoBody
  <1>11. BodyTooLarge(m, B) <=> B + H > MaxSize
    BY <1>7 DEF BodyTooLarge
  <1> HIDE DEF n
  <1> SUFFICES Outcome(Judged(n), q, rest)
    BY <1>1, <1>3, <1>8, Zenon
  <1>12. FilesKept(n, q) /\ HeadRead(n, q)
    BY <1>2, <1>4, <1>5, <1>10, NothingKept DEF HeadRead
  <1>13. MaxSize \in Nat /\ MaxMultiPartSize \in Nat
    BY SizesAssumption
  <1>14. TooManyBytes(n) <=> H > (IF boundary THEN MaxMultiPartSize ELSE MaxSize)
    BY <1>10 DEF TooManyBytes
  <1>15. /\ Multipart(q) => B > 0 /\ FieldLines(q) \in Nat
         /\ WithinLimits(q) <=> IF Multipart(q)
                                THEN /\ H <= MaxSize + 1
                                     /\ B < MaxMultiPartSize
                                     /\ H + FieldLines(q) <= MaxMultiPartSize
                                ELSE H + B <= MaxSize
    BY <1>5, BodyIsForm DEF WithinLimits
  <1>16. ASSUME ~WithinLimits(q), n.status = "abort" \/ TooManyBytes(n)
         PROVE  Outcome(Judged(n), q, rest)
    <2>1. Refusable(q)
      BY <1>16 DEF Refusable
    <2>2. CASE TooManyBytes(n)
      BY <1>10, <1>12, <2>1, <2>2, JudgedTooLarge
    <2>3. CASE ~TooManyBytes(n)
      BY <1>10, <1>12, <1>16, <2>1, <2>3 DEF Judged, Outcome, Progress, Aborted
    <2> QED
      BY <2>2, <2>3
  <1>17. CASE ~Multipart(q)
    <2>0. boundary = FALSE
      BY <1>6, <1>17
    <2>1. CASE B + H > MaxSize
      <3>1. ~WithinLimits(q)
        BY <1>13, <1>15, <1>17, <2>1
      <3>2. n.status = "abort" \/ TooManyBytes(n)
        <4>1. CASE B = 0
          BY <1>13, <1>14, <2>0, <2>1, <4>1
        <4>2. CASE B # 0
          BY <1>10, <1>11, <2>0, <2>1, <4>2
        <4> QED
          BY <4>1, <4>2
      <3> QED
        BY <1>16, <3>1, <3>2
    <2>2. CASE ~(B + H > MaxSize)
      <3>1. WithinLimits(q) /\ Size(q) <= MaxSize /\ ~TooManyBytes(n)
        BY <1>5, <1>13, <1>14, <1>15, <1>17, <2>0, <2>2
      <3>2. Judged(n) = n
        BY <3>1 DEF Judged
      <3>3. CASE B = 0
        <4>1. q.body = <<>>
          BY <1>1, <1>5, <3>3, EmptySeq
        <4>2. n.status = "complete"
          BY <1>10, <2>0, <3>3
        <4>3. SameRequest(n, q)
          <5>1. n.bodyData \o n.tempFile = q.body
            BY <1>10, <4>1
          <5>2. n.form.parameters = Parameters(q.sections) /\ n.form.files = Files(q.sections)
            BY <1>10, <1>17, NoForm
          <5> QED
            BY <1>6, <1>10, <5>1, <5>2 DEF SameRequest
        <4>4. Complete(n, q) /\ rest = <<>>
          BY <1>1, <1>2, <3>1, <4>1, <4>2, <4>3 DEF Complete
        <4> QED
          BY <1>10, <1>12, <3>2, <4>4 DEF Outcome, Progress
      <3>4. CASE B # 0
        <4>1. n.status = "waitForBody"
          BY <1>10, <1>11, <2>0, <2>2, <3>4
        <4>2. rest # <<>>
          BY <1>1, <1>5, <3>4, EmptySeq
        <4>3. n.bodyData \o rest = q.body
          BY <1>1, <1>10, NothingFirst
        <4>4. n.currentSize + Len(rest) = Size(q)
          BY <1>1, <1>5, <1>10
        <4>5. InBody(n, q, rest)
          BY <1>10, <1>12, <1>17, <2>0, <3>1, <4>1, <4>2, <4>3, <4>4 DEF InBody
        <4> QED
          BY <1>10, <1>12, <3>2, <4>5 DEF Outcome, Progress
      <3> QED
        BY <1>1, <3>3, <3>4
    <2> QED
      BY <2>1, <2>2
  <1>18. CASE Multipart(q)
    <2>0. boundary = TRUE /\ B > 0
      BY <1>6, <1>15, <1>18
    <2>1. CASE B > MaxMultiPartSize \/ H > MaxMultiPartSize
      <3>1. ~WithinLimits(q)
        BY <1>13, <1>15, <1>18, <2>1
      <3>2. n.status = "abort" \/ TooManyBytes(n)
        BY <1>10, <1>14, <2>0, <2>1
      <3> QED
        BY <1>16, <3>1, <3>2
    <2>2. CASE ~(B > MaxMultiPartSize) /\ ~(H > MaxMultiPartSize)
      <3>1. ~TooManyBytes(n) /\ Judged(n) = n
        BY <1>14, <2>0, <2>2 DEF Judged
      <3>2. n.status = "waitForBody"
        BY <1>10, <2>0, <2>2
      <3>3. rest # <<>>
        BY <1>1, <1>5, <2>0, EmptySeq
      <3>4. n.tempFile \o rest = q.body
        BY <1>1, <1>10, NothingFirst
      <3>5. H <= MaxSize + 1 /\ H <= MaxMultiPartSize
        BY <1>4, <1>7, <1>13, <2>2
      <3>6. InFile(n, q, rest)
        BY <1>5, <1>10, <1>12, <1>18, <2>0, <3>2, <3>3, <3>4, <3>5 DEF InFile
      <3> QED
        BY <1>10, <1>12, <3>1, <3>6 DEF Outcome, Progress
    <2> QED
      BY <2>1, <2>2
  <1> QED
    BY <1>17, <1>18

-----------------------------------------------------------------------------
(* A piece of the body. *)

Takes(b, c, s, rest, u, body, m) ==
    Meets(b, c, rest, u, m) /\ s \in Seq(ByteSet) /\ s \o rest = body

Took(b, c, s, rest, u, body, m) ==
    \E x, more \in Seq(ByteSet) :
      /\ x = SubSeq(b, 1, m) /\ Len(x) = m /\ s \o x \in Seq(ByteSet)
      /\ (s \o x) \o more = body /\ Len(s \o x) = Len(s) + m
      /\ Len(rest) = m + Len(more) /\ Cut(SubSeq(b, m + 1, Len(b)), c, more, u)

\* A piece of the body.
LEMMA BodyTaken ==
  \A b, c, s, rest, u, body, m : Takes(b, c, s, rest, u, body, m) => Took(b, c, s, rest, u, body, m)
  <1> SUFFICES ASSUME NEW b, NEW c, NEW s, NEW rest, NEW u, NEW body, NEW m,
                      Takes(b, c, s, rest, u, body, m)
               PROVE  Took(b, c, s, rest, u, body, m)
    BY Zenon
  <1>1. /\ Meets(b, c, rest, u, m) /\ m \in Nat /\ m <= Len(b) /\ m <= Len(rest)
        /\ b \in Seq(ByteSet) /\ rest \in Seq(ByteSet) /\ s \in Seq(ByteSet) /\ s \o rest = body
    BY Zenon DEF Takes, Meets, Bytes
  <1>2. SubSeq(b, 1, m) = SubSeq(rest, 1, m)
        /\ Cut(SubSeq(b, m + 1, Len(b)), c, SubSeq(rest, m + 1, Len(rest)), u)
    BY <1>1, TakenFromBoth
  <1>3. PICK x \in Seq(ByteSet) : x = SubSeq(b, 1, m) /\ Len(x) = m
    BY <1>1, BytesParted
  <1>4. PICK more \in Seq(ByteSet) : more = SubSeq(rest, m + 1, Len(rest)) /\ Len(more) = Len(rest) - m
    BY <1>1, BytesParted
  <1>5. x \o more = rest
    <2>1. SubSeq(rest, 1, m) \o SubSeq(rest, m + 1, Len(rest)) = rest
      BY <1>1, BytesParted
    <2> QED
      BY <1>2, <1>3, <1>4, <2>1, Zenon
  <1>6. (s \o x) \o more = body
    <2>1. Cut(s \o x, more, s, x \o more)
      <3>1. Bytes(s, x, more)
        BY <1>1, Zenon DEF Bytes
      <3> QED
        BY <3>1, BytesRegrouped, Zenon
    <2> QED
      BY <1>1, <1>5, <2>1, Zenon DEF Cut
  <1>7. s \o x \in Seq(ByteSet) /\ Len(s \o x) = Len(s) + m
    <2>1. s \o x \in Seq(ByteSet) /\ Len(s \o x) = Len(s) + Len(x)
      BY <1>1, BytesJoined
    <2> QED
      BY <1>3, <2>1, Zenon
  <1>8. Len(rest) = m + Len(more)
    <2>1. PICK R \in Nat : R = Len(rest)
      BY <1>1, BytesJoined
    <2>2. R = m + (R - m)
      BY <1>1
    <2> QED
      BY <1>4, <2>1, <2>2, Zenon
  <1> QED
    BY <1>2, <1>3, <1>4, <1>6, <1>7, <1>8, Zenon DEF Took

\* One call, when b can be read, c is behind it, rest is still to come of the
\* request, and u follows it.
Called(r, q, b, c, u) ==
    \E more \in Seq(ByteSet) :
      /\ Outcome(ReadFromSocket(r, b), q, more) /\ Len(BytesRead(r, b)) \in Nat
      /\ Cut(SubSeq(b, Len(BytesRead(r, b)) + 1, Len(b)), c, more, u)

\* A call reads, parses and then judges the size.
LEMMA Judging ==
  ASSUME NEW r, NEW b
  PROVE  ReadFromSocket(r, b) =
           Judged(CASE r.status = "waitForRequest" ->
                         IF HasLine(Collect(r, BytesRead(r, b))) THEN ParseRequestLine(Collect(r, BytesRead(r, b)))
                         ELSE Collect(r, BytesRead(r, b))
                    [] r.status = "waitForHeader" ->
                         IF HasLine(Collect(r, BytesRead(r, b))) THEN ParseHeader(Collect(r, BytesRead(r, b)))
                         ELSE Collect(r, BytesRead(r, b))
                    [] r.status = "waitForBody" /\ ~r.boundary -> ReadBody(r, BytesRead(r, b))
                    [] OTHER -> ReadMultiPartBody(r, BytesRead(r, b)))
  BY DEF ReadFromSocket, Judged

\* A call that reads a body that is kept in memory.
LEMMA CallInBody ==
  ASSUME NEW r \in Parser, NEW q \in Request, WellFormed(q), NEW b \in Seq(ByteSet), b # <<>>,
         NEW c \in Seq(ByteSet), NEW u \in Seq(ByteSet), NEW rest \in Seq(ByteSet),
         Cut(b, c, rest, u), InBody(r, q, rest)
  PROVE  Called(r, q, b, c, u)
  <1>1. /\ r.status = "waitForBody" /\ r.boundary = FALSE /\ ~Multipart(q) /\ HeadRead(r, q)
        /\ rest # <<>> /\ r.bodyData \o rest = q.body /\ r.tempFile = <<>> /\ r.form = NothingParsed
        /\ r.currentSize + Len(rest) = Size(q) /\ Size(q) <= MaxSize
    BY DEF InBody
  <1>2. r.bodyData \in Seq(ByteSet) /\ r.currentSize \in Nat /\ MaxSize \in Nat
    BY SizesAssumption DEF Parser
  <1>3. PICK s \in Seq(ByteSet) : s = r.bodyData
    BY <1>2
  <1>4. PICK L \in Nat, R \in Nat, B \in Nat, Z \in Nat :
          L = Len(s) /\ R = Len(rest) /\ B = Len(q.body) /\ Z = r.currentSize /\ L + R = B /\ R > 0
    <2>1. Len(s) \in Nat /\ Len(rest) \in Nat /\ Len(q.body) = Len(s) + Len(rest)
      BY <1>1, <1>3, BytesJoined
    <2>2. Len(rest) \in Nat \ {0}
      BY <1>1, EmptySeq
    <2> QED
      BY <1>2, <2>1, <2>2
  <1>5. BytesRead(r, b) = ReadUpTo(b, R)
    <2>1. r.expectedBodySize - Len(r.bodyData) = R
      BY <1>1, <1>3, <1>4 DEF HeadRead
    <2> QED
      BY <1>1, <2>1 DEF BytesRead, BodyBytes
  <1>6. PICK m \in 1..R : m <= Len(b) /\ ReadUpTo(b, R) = SubSeq(b, 1, m)
    BY <1>4, PieceTaken
  <1>7. m \in Nat /\ m > 0 /\ m <= R
    BY <1>4, <1>6
  <1>8. Took(b, c, s, rest, u, q.body, m)
    <2>1. Meets(b, c, rest, u, m)
      BY <1>4, <1>6, <1>7, Zenon DEF Meets, Bytes
    <2>2. Takes(b, c, s, rest, u, q.body, m)
      BY <1>1, <1>3, <2>1, Zenon DEF Takes
    <2> QED
      BY <2>2, BodyTaken, Zenon
  <1>9. PICK x \in Seq(ByteSet), more \in Seq(ByteSet) :
          /\ x = SubSeq(b, 1, m) /\ Len(x) = m /\ s \o x \in Seq(ByteSet)
          /\ (s \o x) \o more = q.body /\ Len(s \o x) = Len(s) + m
          /\ Len(rest) = m + Len(more) /\ Cut(SubSeq(b, m + 1, Len(b)), c, more, u)
    BY <1>8, Zenon DEF Took
  <1>10. PICK M \in Nat, body \in Seq(ByteSet) : M = Len(more) /\ R = m + M /\ body = s \o x
    BY <1>4, <1>9, BytesJoined
  <1>11. BytesRead(r, b) = x
    BY <1>5, <1>6, <1>9, Zenon
  <1> DEFINE n == [r EXCEPT !.currentSize = Z + m, !.bodyData = body]
             done == [r EXCEPT !.currentSize = Z + m, !.bodyData = body, !.status = "complete"]
  <1>12. Z + m \in Nat
    BY <1>7
  <1>13. /\ n \in Parser /\ n.status = "waitForBody" /\ n.currentSize = Z + m /\ n.bodyData = body
         /\ n.line = r.line /\ n.headers = r.headers /\ n.currentHeader = r.currentHeader
         /\ n.boundary = FALSE /\ n.expectedBodySize = r.expectedBodySize
         /\ n.tempFile = <<>> /\ n.form = NothingParsed
    BY <1>1, <1>12 DEF Parser
  <1>14. /\ done \in Parser /\ done.status = "complete" /\ done.currentSize = Z + m /\ done.bodyData = body
         /\ done.line = r.line /\ done.headers = r.headers
         /\ done.boundary = FALSE
         /\ done.tempFile = <<>> /\ done.form = NothingParsed
    BY <1>1, <1>12 DEF Parser, Status
  <1>15. ReadBody(r, x) = IF Len(body) >= B THEN done ELSE n
    <2>1. r.bodyData \o x = body /\ r.currentSize + Len(x) = Z + m /\ r.expectedBodySize = B
      BY <1>1, <1>3, <1>4, <1>9, <1>10, Zenon DEF HeadRead
    <2>2. ReadBody(r, x) = IF Len(n.bodyData) >= r.expectedBodySize THEN [n EXCEPT !.status = "complete"] ELSE n
      BY <2>1 DEF ReadBody
    <2>3. [n EXCEPT !.status = "complete"] = done
      BY DEF Parser
    <2> HIDE DEF n, done
    <2> QED
      BY <1>13, <2>1, <2>2, <2>3, Zenon
  <1> HIDE DEF n, done
  <1>16. Len(body) = L + m
    BY <1>4, <1>9, <1>10, Zenon
  <1>17. Z + m <= MaxSize /\ (Z + m) + M = Size(q)
    <2>1. Z + R = Size(q) /\ Size(q) <= MaxSize
      BY <1>1, <1>4
    <2> QED
      BY <1>2, <1>7, <1>10, <2>1
  <1>18. FilesKept(n, q) /\ FilesKept(done, q)
    BY <1>13, <1>14, NothingKept
  <1>19. Outcome(Judged(ReadBody(r, x)), q, more)
    <2>1. CASE M = 0
      <3>1. more = <<>>
        BY <1>10, <2>1, EmptySeq
      <3>2. Len(body) >= B
        BY <1>4, <1>10, <1>16, <2>1
      <3>3. body = q.body
        BY <1>9, <1>10, <3>1, NothingFirst
      <3>4. ~TooManyBytes(done)
        BY <1>2, <1>12, <1>14, <1>17 DEF TooManyBytes
      <3>5. Judged(ReadBody(r, x)) = done
        BY <1>15, <3>2, <3>4 DEF Judged
      <3>6. SameRequest(done, q)
        <4>1. done.bodyData \o done.tempFile = q.body
          BY <1>14, <3>3, NothingFirst
        <4>2. done.form.parameters = Parameters(q.sections) /\ done.form.files = Files(q.sections)
          BY <1>1, <1>14, NoForm
        <4>3. DOMAIN done.headers = {q.headers[i].name : i \in DOMAIN q.headers} \ {NoName} /\ done.line = q.line
          BY <1>1, <1>14, HeadersSay DEF HeadRead
        <4> QED
          BY <4>1, <4>2, <4>3 DEF SameRequest
      <3>7. WithinLimits(q) /\ ~Broken(q)
        BY <1>1 DEF WithinLimits, HeadRead
      <3> QED
        BY <1>14, <1>18, <3>1, <3>5, <3>6, <3>7 DEF Outcome, Progress, Complete
    <2>2. CASE M # 0
      <3>1. more # <<>>
        BY <1>10, <2>2, EmptySeq
      <3>2. ~(Len(body) >= B)
        BY <1>4, <1>7, <1>10, <1>16, <2>2
      <3>3. ~TooManyBytes(n)
        BY <1>2, <1>12, <1>13, <1>17 DEF TooManyBytes
      <3>4. Judged(ReadBody(r, x)) = n
        BY <1>15, <3>2, <3>3 DEF Judged
      <3>5. HeadRead(n, q)
        BY <1>1, <1>13 DEF HeadRead
      <3>6. n.bodyData \o more = q.body /\ n.currentSize + Len(more) = Size(q)
        BY <1>9, <1>10, <1>13, <1>17
      <3>7. InBody(n, q, more)
        BY <1>1, <1>13, <3>1, <3>5, <3>6 DEF InBody
      <3> QED
        BY <1>13, <1>18, <3>4, <3>7 DEF Outcome, Progress
    <2> QED
      BY <2>1, <2>2
  <1>20. ReadFromSocket(r, b) = Judged(ReadBody(r, x))
    BY <1>1, <1>11, Judging
  <1> QED
    BY <1>7, <1>9, <1>11, <1>19, <1>20, Zenon DEF Called

\* A call that reads a body into the temporary file.
LEMMA CallInFile ==
  ASSUME NEW r \in Parser, NEW q \in Request, WellFormed(q), NEW b \in Seq(ByteSet), b # <<>>,
         NEW c \in Seq(ByteSet), NEW u \in Seq(ByteSet), NEW rest \in Seq(ByteSet),
         Cut(b, c, rest, u), InFile(r, q, rest)
  PROVE  Called(r, q, b, c, u)
  <1>1. /\ r.status = "waitForBody" /\ r.boundary = TRUE /\ Multipart(q) /\ HeadRead(r, q)
        /\ rest # <<>> /\ r.tempFile \o rest = q.body /\ r.bodyData = <<>> /\ r.form = NothingParsed
        /\ r.currentSize = HeadSize(q) /\ HeadSize(q) <= MaxSize + 1 /\ HeadSize(q) <= MaxMultiPartSize
    BY DEF InFile
  <1>2. r.tempFile \in Seq(ByteSet) /\ MaxMultiPartSize \in Nat /\ Block \in Nat /\ Block > 0
    BY SizesAssumption DEF Parser
  <1>3. PICK s \in Seq(ByteSet) : s = r.tempFile
    BY <1>2
  <1>4. PICK L \in Nat, R \in Nat, B \in Nat, H \in Nat :
          L = Len(s) /\ R = Len(rest) /\ B = Len(q.body) /\ H = HeadSize(q) /\ L + R = B /\ R > 0
    <2>1. Len(s) \in Nat /\ Len(rest) \in Nat /\ Len(q.body) = Len(s) + Len(rest)
      BY <1>1, <1>3, BytesJoined
    <2>2. Len(rest) \in Nat \ {0}
      BY <1>1, EmptySeq
    <2>3. HeadSize(q) \in Nat
      BY SizeIs
    <2> QED
      BY <2>1, <2>2, <2>3
  <1>5. PICK max \in Nat : BytesRead(r, b) = ReadUpTo(b, max) /\ max > 0 /\ max <= R
    <2>1. r.expectedBodySize - Len(r.tempFile) = R
      BY <1>1, <1>3, <1>4 DEF HeadRead
    <2>2. BytesRead(r, b) = ReadUpTo(b, Smaller(R, Block))
      BY <1>1, <2>1 DEF BytesRead, FileBytes
    <2>3. Smaller(R, Block) \in Nat /\ Smaller(R, Block) > 0 /\ Smaller(R, Block) <= R
      BY <1>2, <1>4 DEF Smaller
    <2> QED
      BY <2>2, <2>3, Zenon
  <1>6. PICK m \in 1..max : m <= Len(b) /\ ReadUpTo(b, max) = SubSeq(b, 1, m)
    BY <1>5, PieceTaken
  <1>7. m \in Nat /\ m > 0 /\ m <= R
    BY <1>4, <1>5, <1>6
  <1>8. Took(b, c, s, rest, u, q.body, m)
    <2>1. Meets(b, c, rest, u, m)
      BY <1>4, <1>6, <1>7, Zenon DEF Meets, Bytes
    <2>2. Takes(b, c, s, rest, u, q.body, m)
      BY <1>1, <1>3, <2>1, Zenon DEF Takes
    <2> QED
      BY <2>2, BodyTaken, Zenon
  <1>9. PICK x \in Seq(ByteSet), more \in Seq(ByteSet) :
          /\ x = SubSeq(b, 1, m) /\ Len(x) = m /\ s \o x \in Seq(ByteSet)
          /\ (s \o x) \o more = q.body /\ Len(s \o x) = Len(s) + m
          /\ Len(rest) = m + Len(more) /\ Cut(SubSeq(b, m + 1, Len(b)), c, more, u)
    BY <1>8, Zenon DEF Took
  <1>10. PICK M \in Nat, file \in Seq(ByteSet) : M = Len(more) /\ R = m + M /\ file = s \o x
    BY <1>4, <1>9, BytesJoined
  <1>11. BytesRead(r, b) = x
    BY <1>5, <1>6, <1>9, Zenon
  <1>12. PICK form \in Forms : form = ParseMultiPartFile(file)
    BY DEF Forms
  <1>0. PICK size : size = H + form.fieldBytes
    OBVIOUS
  <1> DEFINE n == [r EXCEPT !.tempFile = file]
             over == [r EXCEPT !.tempFile = file, !.status = "abort"]
             done == [r EXCEPT !.tempFile = file, !.form = form, !.status = "complete",
                               !.currentSize = size]
  <1>13. /\ n \in Parser /\ n.status = "waitForBody" /\ n.currentSize = H /\ n.tempFile = file
         /\ n.line = r.line /\ n.headers = r.headers /\ n.currentHeader = r.currentHeader
         /\ n.boundary = TRUE /\ n.expectedBodySize = r.expectedBodySize
         /\ n.bodyData = <<>> /\ n.form = NothingParsed
    BY <1>1, <1>4 DEF Parser
  <1>14. over \in Parser /\ over.status = "abort" /\ over.form = NothingParsed
    BY <1>1 DEF Parser, Status
  <1>15. /\ done.status = "complete" /\ done.currentSize = size /\ done.tempFile = file
         /\ done.line = r.line /\ done.headers = r.headers
         /\ done.boundary = TRUE /\ done.bodyData = <<>> /\ done.form = form
         /\ size \in Nat => done \in Parser
    BY <1>1, <1>4 DEF Parser, Status
  <1>16. ReadMultiPartBody(r, x) = CASE Len(file) >= MaxMultiPartSize -> over
                                     [] Len(file) < MaxMultiPartSize /\ Len(file) >= B -> done
                                     [] OTHER -> n
    <2>1. r.tempFile \o x = file /\ r.expectedBodySize = B /\ form = ParseMultiPartFile(file)
      BY <1>1, <1>3, <1>4, <1>10, <1>12, Zenon DEF HeadRead
    <2>2. ReadMultiPartBody(r, x) =
            CASE Len(file) >= MaxMultiPartSize -> [n EXCEPT !.status = "abort"]
              [] Len(file) < MaxMultiPartSize /\ Len(file) >= B ->
                   [n EXCEPT !.form = form, !.status = "complete", !.currentSize = @ + form.fieldBytes]
              [] OTHER -> n
      BY <2>1, Zenon DEF ReadMultiPartBody
    <2>3. [n EXCEPT !.status = "abort"] = over
      BY DEF Parser
    <2>4. [n EXCEPT !.form = form, !.status = "complete", !.currentSize = @ + form.fieldBytes] = done
      <3>1. n.currentSize + form.fieldBytes = size
        BY <1>13, <1>0
      <3> QED
        BY <3>1 DEF Parser
    <2> HIDE DEF n, done, over
    <2> QED
      BY <2>2, <2>3, <2>4, Zenon
  <1> HIDE DEF n, done, over
  <1>17. Len(file) = L + m
    BY <1>4, <1>9, <1>10, Zenon
  <1>18. FilesKept(n, q) /\ FilesKept(over, q)
    BY <1>13, <1>14, NothingKept
  <1>19. WithinLimits(q) => B < MaxMultiPartSize /\ H + FieldLines(q) <= MaxMultiPartSize
    BY <1>1, <1>4 DEF WithinLimits
  <1>20. Outcome(Judged(ReadMultiPartBody(r, x)), q, more)
    <2>1. CASE Len(file) >= MaxMultiPartSize
      <3>1. ReadMultiPartBody(r, x) = over
        <4>1. ~(Len(file) < MaxMultiPartSize)
          <5>1. PICK F \in Nat : F = Len(file)
            BY BytesJoined
          <5> QED
            BY <1>2, <2>1, <5>1
        <4> QED
          BY <1>16, <2>1, <4>1
      <3>2. Refusable(q)
        <4>1. L + m <= B /\ L + m >= MaxMultiPartSize
          BY <1>4, <1>7, <1>17, <2>1
        <4>2. ~(B < MaxMultiPartSize)
          BY <1>2, <1>4, <1>7, <4>1
        <4> QED
          BY <1>19, <4>2 DEF Refusable
      <3>3. CASE TooManyBytes(over)
        BY <1>14, <1>18, <3>1, <3>2, <3>3, JudgedTooLarge
      <3>4. CASE ~TooManyBytes(over)
        BY <1>14, <1>18, <3>1, <3>2, <3>4 DEF Judged, Outcome, Progress, Aborted
      <3> QED
        BY <3>3, <3>4
    <2>2. CASE ~(Len(file) >= MaxMultiPartSize) /\ M = 0
      <3>1. more = <<>>
        BY <1>10, <2>2, EmptySeq
      <3>2. Len(file) >= B /\ Len(file) < MaxMultiPartSize /\ B < MaxMultiPartSize
        BY <1>2, <1>4, <1>7, <1>10, <1>17, <2>2
      <3>3. file = q.body
        BY <1>9, <1>10, <3>1, NothingFirst
      <3>4. ReadMultiPartBody(r, x) = done
        BY <1>16, <2>2, <3>2
      <3>5. /\ form.parameters = Parameters(q.sections) /\ form.files = Files(q.sections)
            /\ form.fieldBytes = FieldLines(q) /\ FieldLines(q) \in Nat
            /\ FilesLeft([form |-> form]) = FilesReplaced(q.sections)
        BY <1>1, <1>12, <3>3, BodyIsForm
      <3>6. done \in Parser /\ done.currentSize = H + FieldLines(q)
        <4>1. size = H + FieldLines(q) /\ size \in Nat
          BY <1>0, <1>4, <3>5
        <4> QED
          BY <1>15, <4>1
      <3>7. FilesKept(done, q)
        BY <1>15, <3>5 DEF FilesKept, FilesLeft, Decided
      <3>8. TooManyBytes(done) <=> H + FieldLines(q) > MaxMultiPartSize
        BY <1>15, <3>6 DEF TooManyBytes
      <3>9. CASE TooManyBytes(done)
        <4>1. Refusable(q)
          BY <1>2, <1>4, <1>19, <3>5, <3>8, <3>9 DEF Refusable
        <4> QED
          BY <3>4, <3>6, <3>7, <3>9, <4>1, JudgedTooLarge
      <3>10. CASE ~TooManyBytes(done)
        <4>1. WithinLimits(q) /\ ~Broken(q)
          <5>1. H + FieldLines(q) <= MaxMultiPartSize
            BY <1>2, <1>4, <3>5, <3>8, <3>10
          <5> QED
            BY <1>1, <1>4, <3>2, <5>1 DEF WithinLimits, HeadRead
        <4>2. SameRequest(done, q)
          <5>1. done.bodyData \o done.tempFile = q.body
            BY <1>15, <3>3, NothingFirst
          <5>2. done.form.parameters = Parameters(q.sections) /\ done.form.files = Files(q.sections)
            BY <1>15, <3>5
          <5>3. DOMAIN done.headers = {q.headers[i].name : i \in DOMAIN q.headers} \ {NoName} /\ done.line = q.line
            BY <1>1, <1>15, HeadersSay DEF HeadRead
          <5> QED
            BY <5>1, <5>2, <5>3 DEF SameRequest
        <4>3. Judged(ReadMultiPartBody(r, x)) = done
          BY <3>4, <3>10 DEF Judged
        <4> QED
          BY <1>15, <3>1, <3>6, <3>7, <4>1, <4>2, <4>3 DEF Outcome, Progress, Complete
      <3> QED
        BY <3>9, <3>10
    <2>3. CASE ~(Len(file) >= MaxMultiPartSize) /\ M # 0
      <3>1. more # <<>>
        BY <1>10, <2>3, EmptySeq
      <3>2. ~(Len(file) >= B)
        BY <1>4, <1>7, <1>10, <1>17, <2>3
      <3>3. ReadMultiPartBody(r, x) = n
        BY <1>16, <2>3, <3>2
      <3>4. ~TooManyBytes(n)
        BY <1>1, <1>2, <1>4, <1>13 DEF TooManyBytes
      <3>5. Judged(ReadMultiPartBody(r, x)) = n
        BY <3>3, <3>4 DEF Judged
      <3>6. HeadRead(n, q)
        BY <1>1, <1>13 DEF HeadRead
      <3>7. n.tempFile \o more = q.body
        BY <1>9, <1>10, <1>13
      <3>8. InFile(n, q, more)
        BY <1>1, <1>4, <1>13, <3>1, <3>6, <3>7 DEF InFile
      <3> QED
        BY <1>13, <1>18, <3>5, <3>8 DEF Outcome, Progress
    <2> QED
      BY <2>1, <2>2, <2>3
  <1>21. ReadFromSocket(r, b) = Judged(ReadMultiPartBody(r, x))
    BY <1>1, <1>11, Judging
  <1> QED
    BY <1>7, <1>9, <1>11, <1>20, <1>21, Zenon DEF Called

\* A call that reads a line of the head.
LEMMA CallInLine ==
  ASSUME NEW r \in Parser, NEW q \in Request, WellFormed(q), NEW i \in 1..LineCount(q),
         NEW b \in Seq(ByteSet), b # <<>>, NEW c \in Seq(ByteSet), NEW u \in Seq(ByteSet), NEW rest,
         Cut(b, c, rest, u), InLine(r, q, i, rest)
  PROVE  Called(r, q, b, c, u)
  <1>1. PICK n \in 0..Len(Whole(q, i)) - 1 : LineAt(r, q, i, n, rest) /\ r.currentSize <= MaxSize
    BY DEF InLine
  <1>2. PICK m \in Nat, more \in Seq(ByteSet), l \in Parser :
           /\ m > 0 /\ n + m <= Len(Whole(q, i)) /\ Len(BytesRead(r, b)) = m
           /\ l = Collect(r, BytesRead(r, b)) /\ LineAt(l, q, i, n + m, more)
           /\ l.currentSize <= MaxSize + 1 /\ Cut(SubSeq(b, m + 1, Len(b)), c, more, u)
    BY <1>1, LineCollected
  <1>3. PICK k \in Nat, W \in Nat : k = n + m /\ W = Len(Whole(q, i)) /\ k <= W
    <2>1. PICK W \in Nat : W = Len(Whole(q, i))
      BY Encoded, BytesJoined
    <2>2. n \in Nat /\ n + m \in Nat /\ n + m <= W
      BY <1>2, <2>1
    <2> QED
      BY <2>1, <2>2
  <1>4. HasLine(l) <=> k = W
    <2>1. k \in 0..Len(Whole(q, i)) /\ l.lineBuffer = SubSeq(Whole(q, i), 1, k)
      BY <1>2, <1>3 DEF LineAt
    <2>2. Ends(Whole(q, i))
      BY WholeIs
    <2> QED
      BY <1>3, <2>1, <2>2, CompleteOrNot
  <1> DEFINE next == IF ~HasLine(l) THEN l
                     ELSE IF r.status = "waitForRequest" THEN ParseRequestLine(l) ELSE ParseHeader(l)
  <1>5. r.status = (IF i <= q.blanks + 1 THEN "waitForRequest" ELSE "waitForHeader")
    <2>1. i <= q.blanks + 1 <=> ~(i > q.blanks + 1)
      BY Numbers
    <2> QED
      BY <1>1, <2>1 DEF LineAt, Expects
  <1>6. ReadFromSocket(r, b) = Judged(next)
    <2>1. r.status = "waitForRequest" \/ r.status = "waitForHeader"
      BY <1>5
    <2> QED
      BY <1>2, <2>1, Judging
  <1>7. Outcome(Judged(next), q, more)
    <2>1. CASE k # W
      <3>1. k \in 0..Len(Whole(q, i)) - 1
        BY <1>3, <2>1
      <3>2. LineAt(l, q, i, k, more)
        BY <1>2, <1>3
      <3>3. next = l
        BY <1>4, <2>1
      <3> QED
        BY <3>1, <3>2, <3>3, JudgedInHead
    <2>2. CASE k = W
      <3>1. LineRead(l, q, i, more) /\ HasLine(l)
        BY <1>2, <1>3, <1>4, <2>2 DEF LineRead
      <3> HIDE DEF next
      <3>2. CASE i <= q.blanks
        <4>1. next = ParseRequestLine(l)
          <5>1. i <= q.blanks + 1
            BY <3>2, Numbers
          <5> QED
            BY <1>5, <3>1, <5>1 DEF next
        <4> QED
          BY <3>1, <3>2, <4>1, BlankLine
      <3>3. CASE i = q.blanks + 1
        <4>1. next = ParseRequestLine(l)
          <5>1. i <= q.blanks + 1
            BY <3>3, Numbers
          <5> QED
            BY <1>5, <3>1, <5>1 DEF next
        <4> QED
          BY <3>1, <3>3, <4>1, FirstLine
      <3>4. CASE i > q.blanks + 1
        <4>1. next = ParseHeader(l)
          <5>1. ~(i <= q.blanks + 1)
            BY <3>4, Numbers
          <5> QED
            BY <1>5, <3>1, <5>1 DEF next
        <4>2. CASE i < LineCount(q)
          BY <3>1, <3>4, <4>1, <4>2, HeaderLine
        <4>3. CASE i = LineCount(q)
          BY <1>2, <3>1, <4>1, <4>3, HeadEnds
        <4>4. i < LineCount(q) \/ i = LineCount(q)
          BY Encoded
        <4> QED
          BY <4>2, <4>3, <4>4
      <3>5. i <= q.blanks \/ i = q.blanks + 1 \/ i > q.blanks + 1
        BY Numbers
      <3> QED
        BY <3>2, <3>3, <3>4, <3>5
    <2> QED
      BY <2>1, <2>2
  <1> HIDE DEF next
  <1> QED
    BY <1>2, <1>6, <1>7, Zenon DEF Called

\* A call of readFromSocket() takes bytes of this request only, and leaves it where
\* the rest of it is what is still to come.
LEMMA OneCall ==
  ASSUME NEW r \in Parser, NEW q \in Request, WellFormed(q), NEW b \in Seq(ByteSet), b # <<>>,
         NEW c \in Seq(ByteSet), NEW u \in Seq(ByteSet), NEW rest \in Seq(ByteSet),
         Cut(b, c, rest, u), Progress(r, q, rest), ~Decided(r)
  PROVE  Called(r, q, b, c, u)
  <1>1. CASE \E i \in 1..LineCount(q) : InLine(r, q, i, rest)
    BY <1>1, CallInLine
  <1>2. CASE InBody(r, q, rest)
    BY <1>2, CallInBody
  <1>3. CASE InFile(r, q, rest)
    BY <1>3, CallInFile
  <1>4. ~Complete(r, q) /\ ~Aborted(r, q)
    BY DEF Decided, Complete, Aborted
  <1> QED
    BY <1>1, <1>2, <1>3, <1>4 DEF Progress

-----------------------------------------------------------------------------
(* The stream of a connection. *)

\* A request that is neither complete nor aborted waits for something.
LEMMA SomethingToCome ==
  ASSUME NEW r, NEW q \in Request, WellFormed(q), NEW rest, Progress(r, q, rest)
  PROVE  r.status # "none" /\ (~Decided(r) => rest # <<>>)
  <1>1. ASSUME NEW i \in 1..LineCount(q), InLine(r, q, i, rest)
        PROVE  r.status \in {"waitForRequest", "waitForHeader"} /\ rest # <<>>
    <2>1. PICK k \in 0..Len(Whole(q, i)) - 1 : LineAt(r, q, i, k, rest)
      BY <1>1 DEF InLine
    <2>2. k \in 0..Len(Whole(q, i)) /\ k < Len(Whole(q, i))
      <3>1. Len(Whole(q, i)) \in Nat
        BY Encoded, BytesJoined
      <3> QED
        BY <3>1
    <2>3. Len(rest) \in Nat /\ Len(rest) > Len(q.body) /\ Len(q.body) \in Nat
      BY <2>1, <2>2, MoreThanBody, Numbers DEF LineAt
    <2>4. rest # <<>>
      <3> SUFFICES ASSUME rest = <<>> PROVE FALSE
        OBVIOUS
      <3>1. Len(rest) = 0
        BY EmptySeq
      <3> QED
        BY <2>3, <3>1
    <2>5. r.status \in {"waitForRequest", "waitForHeader"}
      BY <2>1 DEF LineAt, Expects
    <2> QED
      BY <2>4, <2>5
  <1>2. CASE \E i \in 1..LineCount(q) : InLine(r, q, i, rest)
    BY <1>1, <1>2
  <1>3. CASE InBody(r, q, rest) \/ InFile(r, q, rest)
    BY <1>3 DEF InBody, InFile
  <1>4. CASE Complete(r, q) \/ Aborted(r, q)
    BY <1>4 DEF Complete, Aborted, Decided
  <1> QED
    BY <1>2, <1>3, <1>4 DEF Progress

\* A new request, and none.
LEMMA NewRequestTyped == NewRequest \in Parser /\ NoRequest \in Parser
  <1>1. NoLine \in ByteSet
    BY DEF NoLine, Byte, ByteSet, Kind, Name
  <1>2. NoName \in Name /\ NothingParsed \in Forms
    BY DEF Name, Forms
  <1>3. PICK h : h = [n \in {} |-> NoLine] /\ h \in HeaderMap
    <2>1. HeadersKnown([n \in {} |-> NoLine], NoName, [headers |-> <<>>], 0)
      BY NoHeadersYet
    <2> QED
      BY <2>1 DEF HeadersKnown
  <1>4. NewRequest =
          [status |-> "waitForRequest", line |-> NoLine, lineBuffer |-> <<>>, currentSize |-> 0,
           headers |-> h, currentHeader |-> NoName, boundary |-> FALSE, expectedBodySize |-> 0,
           bodyData |-> <<>>, tempFile |-> <<>>, form |-> NothingParsed]
    BY <1>3 DEF NewRequest
  <1>5. NewRequest \in Parser
    BY <1>1, <1>2, <1>3, <1>4, EmptySeq DEF Parser, Status
  <1>6. NoRequest \in Parser
    BY <1>5 DEF NoRequest, Parser, Status
  <1> QED
    BY <1>5, <1>6

\* No request is neither complete nor aborted, and has no files.
LEMMA NoRequestIs == NoRequest.status = "none" /\ FilesLeft(NoRequest) = 0 /\ ~Decided(NoRequest)
  <1>1. NoRequest.status = "none" /\ NoRequest.form = NothingParsed
    BY DEF NoRequest, NewRequest
  <1> QED
    BY <1>1, NothingKept DEF Decided

\* A new request stands before its first line.
LEMMA Begins ==
  ASSUME NEW q \in Request, WellFormed(q)
  PROVE  Progress(NewRequest, q, Encode(q)) /\ ~Decided(NewRequest)
  <1>1. PICK i \in 1..LineCount(q) : i = 1 /\ i <= q.blanks + 1
    <2>1. LineCount(q) \in Nat /\ LineCount(q) >= 2 /\ q.blanks \in Nat
      BY Encoded, Numbers
    <2> QED
      BY <2>1
  <1>2. PICK w \in Seq(ByteSet) : w = Whole(q, i)
    BY Encoded
  <1>3. SubSeq(w, 1, 0) = <<>> /\ SubSeq(w, 0 + 1, Len(w)) = w /\ 0 \in 0..Len(w) - 1
    <2>1. Len(w) \in {2, 3}
      BY <1>2, WholeIs DEF Ends
    <2>2. SubSeq(w, 1, 0) = <<>> /\ SubSeq(w, 1, Len(w)) = w
      BY Growing
    <2>3. 0 + 1 = 1
      OBVIOUS
    <2> QED
      BY <2>1, <2>2, <2>3
  <1>4. Encode(q) = w \o EncodeFrom(q)[i + 1]
    BY <1>1, <1>2, Encoded DEF Encode
  <1>5. /\ NewRequest.status = "waitForRequest" /\ NewRequest.lineBuffer = <<>> /\ NewRequest.currentSize = 0
        /\ NewRequest.currentHeader = NoName /\ NewRequest.headers = [n \in {} |-> NoLine]
        /\ NoBody(NewRequest)
    BY DEF NewRequest, NoBody
  <1>6. Expects(NewRequest, q, i)
    BY <1>1, <1>5, NoHeadersYet DEF Expects
  <1>7. NewRequest.currentSize + Len(Encode(q)) = Size(q)
    <2>1. Len(Encode(q)) = Size(q) /\ Size(q) \in Nat
      BY SizeIs DEF Encode
    <2> QED
      BY <1>5, <2>1
  <1>8. LineAt(NewRequest, q, i, 0, Encode(q))
    BY <1>2, <1>3, <1>4, <1>5, <1>6, <1>7 DEF LineAt
  <1>9. NewRequest.currentSize <= MaxSize
    BY <1>5, SizesAssumption
  <1>10. InLine(NewRequest, q, i, Encode(q))
    BY <1>2, <1>3, <1>8, <1>9 DEF InLine
  <1>11. FilesKept(NewRequest, q)
    BY <1>5, NothingKept DEF NoBody
  <1> QED
    BY <1>5, <1>10, <1>11 DEF Progress, Decided

\* The requests after the first k, which are all that is to come behind them.
Script(qs) == qs \in Seq(Request) /\ \A j \in DOMAIN qs : WellFormed(qs[j])
After(qs, k) == StreamFrom(qs)[k + 1]

\* The stream behind the first k requests.
LEMMA StreamAfter ==
  ASSUME NEW qs, Script(qs), NEW k \in 0..Len(qs)
  PROVE  /\ After(qs, k) \in Seq(ByteSet) /\ Len(qs) \in Nat
         /\ k = Len(qs) => After(qs, k) = <<>>
         /\ k < Len(qs) => /\ qs[k + 1] \in Request /\ WellFormed(qs[k + 1])
                           /\ Encode(qs[k + 1]) \in Seq(ByteSet) /\ Len(Encode(qs[k + 1])) > 0
                           /\ After(qs, k) = Encode(qs[k + 1]) \o After(qs, k + 1)
                           /\ k + 1 \in 0..Len(qs)
  <1>1. qs \in Seq(Request) /\ (\A j \in DOMAIN qs : WellFormed(qs[j])) /\ Len(qs) \in Nat
    BY LenProperties DEF Script
  <1>2. k + 1 \in 1..Len(qs) + 1 /\ (k < Len(qs) => k + 1 \in 1..Len(qs) /\ k + 1 \in 0..Len(qs))
    BY <1>1
  <1> QED
    BY <1>1, <1>2, Streamed DEF After

\* What the handler is about to read: pending is all that is to come, if the
\* connection is open.
Underway(qs, k, r, pending, o) ==
    \/ r = NoRequest /\ (o => pending = After(qs, k))
    \/ /\ k < Len(qs)
       /\ \E rest \in Seq(ByteSet) :
            Progress(r, qs[k + 1], rest) /\ (o => pending = rest \o After(qs, k + 1))

Start(r) == IF r = NoRequest THEN NewRequest ELSE r

\* A turn of the loop of read().
LEMMA Turn ==
  ASSUME NEW qs, Script(qs), NEW k \in 0..Len(qs), NEW r \in Parser, ~Decided(r),
         NEW b \in Seq(ByteSet), b # <<>>, NEW c \in Seq(ByteSet), Underway(qs, k, r, b \o c, TRUE)
  PROVE  LET n == ReadFromSocket(Start(r), b)
             more == SubSeq(b, Len(BytesRead(Start(r), b)) + 1, Len(b)) IN
           n \in Parser /\ more \in Seq(ByteSet) /\ Underway(qs, k, n, more \o c, TRUE)
  <1>1. k < Len(qs)
    <2> SUFFICES ASSUME ~(k < Len(qs)) PROVE FALSE
      OBVIOUS
    <2>1. k = Len(qs)
      BY StreamAfter
    <2>2. b \o c = <<>>
      BY <2>1, StreamAfter DEF Underway
    <2> QED
      BY <2>2, ConcatEqualIffEmpty
  <1>2. PICK q \in Request, u \in Seq(ByteSet) :
          /\ q = qs[k + 1] /\ u = After(qs, k + 1) /\ WellFormed(q) /\ Encode(q) \in Seq(ByteSet)
          /\ After(qs, k) = Encode(q) \o u
    BY <1>1, StreamAfter
  <1>3. PICK s \in Parser : s = Start(r)
    BY NewRequestTyped DEF Start
  <1>4. PICK rest \in Seq(ByteSet) : Progress(s, q, rest) /\ ~Decided(s) /\ Cut(b, c, rest, u)
    <2>1. CASE r = NoRequest
      <3>1. s = NewRequest
        BY <1>3, <2>1 DEF Start
      <3>2. b \o c = Encode(q) \o u
        <4>1. ASSUME NEW rest, Progress(r, q, rest) PROVE FALSE
          BY <1>2, <2>1, <4>1, SomethingToCome, NoRequestIs
        <4> QED
          BY <1>2, <4>1 DEF Underway
      <3> QED
        BY <1>2, <3>1, <3>2, Begins DEF Cut
    <2>2. CASE r # NoRequest
      BY <1>2, <1>3, <2>2 DEF Underway, Start, Cut
    <2> QED
      BY <2>1, <2>2
  <1>5. Called(s, q, b, c, u)
    BY <1>2, <1>4, OneCall
  <1>6. PICK n, x : n = ReadFromSocket(s, b) /\ x = SubSeq(b, Len(BytesRead(s, b)) + 1, Len(b))
    OBVIOUS
  <1>7. PICK more \in Seq(ByteSet) : Outcome(n, q, more) /\ Cut(x, c, more, u)
    BY <1>5, <1>6, Zenon DEF Called
  <1>8. x \in Seq(ByteSet)
    <2>1. PICK l \in Nat : l = Len(BytesRead(s, b))
      BY <1>5, Zenon DEF Called
    <2>2. x = SubSeq(b, l + 1, Len(b))
      BY <1>6, <2>1
    <2>3. \A i \in l + 1..Len(b) : b[i] \in ByteSet
      BY <2>1, LenProperties, ElementOfSeq
    <2> QED
      BY <2>1, <2>2, <2>3, LenProperties, SubSeqProperties
  <1>9. n \in Parser /\ Progress(n, q, more) /\ x \o c = more \o u
    BY <1>7, Zenon DEF Outcome, Progress, Cut
  <1>10. Underway(qs, k, n, x \o c, TRUE)
    BY <1>1, <1>2, <1>9, Zenon DEF Underway
  <1> QED
    BY <1>3, <1>6, <1>8, <1>9, <1>10, Zenon

-----------------------------------------------------------------------------
(* The inductive invariant. *)

Served == Len(delivered)
Coming == buffer \o (arrived \o coming)

StreamTyped ==
    /\ script \in Scripts /\ Bytes(buffer, arrived, coming)
    /\ request \in Parser /\ delivered \in Seq(Parser) /\ Served <= Len(script)
    /\ IsSequence(bodies) /\ DOMAIN bodies = DOMAIN delivered
    /\ pc \in {"loop", "read", "service", "flush"} /\ open \in BOOLEAN

\* Of the requests, the first ones are served, and at most the next one is refused.
AsSent(d, qs) ==
    \A i \in DOMAIN d : SameRequest(d[i], qs[i]) /\ WithinLimits(qs[i]) /\ ~Broken(qs[i])
Verdicts ==
    /\ AsSent(delivered, script)
    /\ refused => /\ Served < Len(script) /\ Refusable(script[Served + 1])
                  /\ pc = "flush" \/ (pc = "loop" /\ ~open)

\* What is in the buffers belongs to the request at hand and to those behind it.
InOrder ==
    /\ pc \in {"loop", "read"} => Underway(script, Served, request, Coming, open)
    /\ pc = "service" /\ open => Coming = After(script, Served)
    /\ pc = "loop" => ~Decided(request) /\ buffer = <<>>
    /\ ~open => buffer = <<>> /\ arrived = <<>>

\* The files of the request at hand that its destructor will leave, and those that
\* have been left, are replaced ones.
AtHand == Served + IF refused THEN 1 ELSE 0
Accounted(i) == FilesLeft(request) = 0
                \/ (i \in DOMAIN script /\ FilesLeft(request) = FilesReplaced(script[i].sections))
FilesAccounted == UploadsDeleted /\ (pc # "read" => Accounted(AtHand))

StreamInv == StreamTyped /\ Verdicts /\ InOrder /\ FilesAccounted

-----------------------------------------------------------------------------
(* Lemmas about the steps. *)

\* The requests of the client are well-formed.
LEMMA ScriptIs ==
  ASSUME StreamTyped
  PROVE  Script(script) /\ Served \in Nat /\ Served \in 0..Len(script) /\ Len(script) \in Nat
  <1>1. script \in Scripts /\ delivered \in Seq(Parser) /\ Served <= Len(script)
    BY DEF StreamTyped
  <1>2. script \in Seq(Request) /\ Script(script)
    BY <1>1, ScriptsAssumption DEF Script
  <1>3. Len(script) \in Nat /\ Served \in Nat
    BY <1>1, <1>2, LenProperties DEF Served
  <1> QED
    BY <1>1, <1>2, <1>3

\* A closed connection has nothing left to read.
LEMMA NothingUnderway == \A qs, k, x : Underway(qs, k, NoRequest, x, FALSE)
  BY DEF Underway

\* Between two requests.
LEMMA NextUnderway ==
  \A qs, k, x, o : (o => x = After(qs, k)) => Underway(qs, k, NoRequest, x, o)
  BY DEF Underway

\* Bytes go from the client to the socket and from there to its buffer.
LEMMA BytesMoved ==
  \A x, y, z : Bytes(x, y, z) => /\ Bytes(x \o y, <<>>, z) /\ (x \o y) \o (<<>> \o z) = x \o (y \o z)
  <1> SUFFICES ASSUME NEW x, NEW y, NEW z, Bytes(x, y, z)
               PROVE  Bytes(x \o y, <<>>, z) /\ (x \o y) \o (<<>> \o z) = x \o (y \o z)
    BY Zenon
  <1>1. x \in Seq(ByteSet) /\ y \in Seq(ByteSet) /\ z \in Seq(ByteSet)
    BY DEF Bytes
  <1>2. Bytes(x \o y, <<>>, z)
    BY <1>1, BytesJoined, EmptySeq DEF Bytes
  <1>3. <<>> \o z = z
    BY <1>1, NothingFirst
  <1>4. (x \o y) \o z = x \o (y \o z)
    <2>1. Cut(x \o y, z, x, y \o z)
      BY BytesRegrouped, Zenon
    <2> QED
      BY <2>1, Zenon DEF Cut
  <1> QED
    BY <1>2, <1>3, <1>4

\* The client sends: the bytes are the same, in the same order.
LEMMA SendStep == ASSUME StreamInv, Send PROVE StreamInv'
  <1>1. PICK n \in 1..Len(coming) :
          arrived' = arrived \o SubSeq(coming, 1, n) /\ coming' = SubSeq(coming, n + 1, Len(coming))
    BY DEF Send
  <1>2. buffer \in Seq(ByteSet) /\ arrived \in Seq(ByteSet) /\ coming \in Seq(ByteSet)
    BY DEF StreamInv, StreamTyped, Bytes
  <1>3. n \in Nat /\ n <= Len(coming)
    BY <1>2, LenProperties
  <1>4. PICK x \in Seq(ByteSet), y \in Seq(ByteSet) :
          x = SubSeq(coming, 1, n) /\ y = SubSeq(coming, n + 1, Len(coming)) /\ x \o y = coming
    <2>1. /\ SubSeq(coming, 1, n) \in Seq(ByteSet) /\ SubSeq(coming, n + 1, Len(coming)) \in Seq(ByteSet)
          /\ SubSeq(coming, 1, n) \o SubSeq(coming, n + 1, Len(coming)) = coming
      BY <1>2, <1>3, BytesParted, Zenon
    <2> QED
      BY <2>1, Zenon
  <1>5. arrived' = arrived \o x /\ coming' = y /\ (arrived \o x) \o y = arrived \o coming
    <2>1. Bytes(arrived, x, y)
      BY <1>2 DEF Bytes
    <2>2. (arrived \o x) \o y = arrived \o (x \o y)
      BY <2>1, BytesRegrouped DEF Cut
    <2> QED
      BY <1>1, <1>4, <2>2, Zenon
  <1>6. arrived' \o coming' = arrived \o coming /\ Bytes(buffer, arrived', coming')
    BY <1>2, <1>5, BytesJoined DEF Bytes
  <1>7. /\ open /\ script' = script /\ buffer' = buffer /\ open' = open /\ pc' = pc /\ request' = request
        /\ delivered' = delivered /\ bodies' = bodies /\ refused' = refused /\ orphans' = orphans
    BY DEF Send, history
  <1>8. Coming' = Coming /\ Served' = Served
    BY <1>6, <1>7 DEF Coming, Served
  <1>9. StreamTyped'
    BY <1>6, <1>7, <1>8 DEF StreamInv, StreamTyped
  <1>10. Verdicts' /\ FilesAccounted'
    BY <1>7, <1>8 DEF StreamInv, Verdicts, FilesAccounted, AtHand, Accounted, UploadsDeleted
  <1>11. InOrder'
    BY <1>7, <1>8 DEF StreamInv, InOrder
  <1> QED
    BY <1>9, <1>10, <1>11 DEF StreamInv

\* Steps that do not touch the stream.
LEMMA OtherSteps ==
  ASSUME StreamInv, UNCHANGED <<script, buffer, arrived, coming, request, delivered, pc, open, refused, orphans>>,
         IsSequence(bodies'), DOMAIN bodies' = DOMAIN bodies
  PROVE  StreamInv'
  <1>1. Coming' = Coming /\ Served' = Served
    BY DEF Coming, Served
  <1>2. StreamTyped'
    BY <1>1 DEF StreamInv, StreamTyped
  <1>3. Verdicts' /\ FilesAccounted'
    BY <1>1 DEF StreamInv, Verdicts, FilesAccounted, AtHand, Accounted, UploadsDeleted
  <1>4. InOrder'
    BY <1>1 DEF StreamInv, InOrder
  <1> QED
    BY <1>2, <1>3, <1>4 DEF StreamInv

\* The client has gone.
LEMMA PeerGoneStep == ASSUME StreamInv, PeerGone PROVE StreamInv'
  <1>1. /\ open /\ open' = FALSE /\ buffer' = <<>> /\ arrived' = <<>> /\ script' = script
        /\ coming' = coming /\ pc' = pc /\ request' = request /\ delivered' = delivered
        /\ bodies' = bodies /\ refused' = refused /\ orphans' = orphans
    BY DEF PeerGone, Disconnected, clientVars, history
  <1>2. Served' = Served /\ Bytes(<<>>, <<>>, coming)
    BY <1>1, EmptySeq DEF Served, StreamInv, StreamTyped, Bytes
  <1>3. StreamTyped'
    BY <1>1, <1>2 DEF StreamInv, StreamTyped
  <1>4. Verdicts' /\ FilesAccounted'
    BY <1>1, <1>2 DEF StreamInv, Verdicts, FilesAccounted, AtHand, Accounted, UploadsDeleted
  <1>5. pc \in {"loop", "read"} => Underway(script, Served, request, Coming', FALSE)
    <2>1. pc \in {"loop", "read"} => Underway(script, Served, request, Coming, open)
      BY DEF StreamInv, InOrder
    <2> QED
      BY <2>1 DEF Underway
  <1>6. InOrder'
    BY <1>1, <1>2, <1>5 DEF StreamInv, InOrder
  <1> QED
    BY <1>3, <1>4, <1>6 DEF StreamInv

\* The socket fetches the bytes: readyRead(), or a wait for the output.
LEMMA FetchSteps == ASSUME StreamInv, ReadyRead \/ FetchWhileWriting PROVE StreamInv'
  <1>1. /\ open /\ open' = open /\ buffer' = buffer \o arrived /\ arrived' = <<>> /\ script' = script
        /\ coming' = coming /\ request' = request /\ delivered' = delivered
        /\ bodies' = bodies /\ refused' = refused /\ orphans' = orphans
        /\ (pc = "loop" /\ pc' = "read") \/ (pc \in {"service", "flush"} /\ pc' = pc)
    BY DEF ReadyRead, FetchWhileWriting, clientVars, history
  <1>2. Bytes(buffer', arrived', coming') /\ Coming' = Coming /\ Served' = Served
    <2>1. Bytes(buffer, arrived, coming)
      BY DEF StreamInv, StreamTyped
    <2> QED
      BY <1>1, <2>1, BytesMoved DEF Coming, Served
  <1>3. StreamTyped'
    BY <1>1, <1>2 DEF StreamInv, StreamTyped
  <1>4. Verdicts' /\ FilesAccounted'
    BY <1>1, <1>2 DEF StreamInv, Verdicts, FilesAccounted, AtHand, Accounted, UploadsDeleted
  <1>5. InOrder'
    BY <1>1, <1>2 DEF StreamInv, InOrder
  <1> QED
    BY <1>3, <1>4, <1>5 DEF StreamInv

\* A turn of the loop of read().
LEMMA ParseStep == ASSUME StreamInv, CallReadFromSocket PROVE StreamInv'
  <1>1. PICK n, more :
          /\ n = ReadFromSocket(Start(request), buffer)
          /\ more = SubSeq(buffer, Len(BytesRead(Start(request), buffer)) + 1, Len(buffer))
          /\ request' = n /\ buffer' = more
    BY DEF CallReadFromSocket, Start
  <1>2. /\ pc = "read" /\ buffer # <<>> /\ ~Decided(request) /\ script' = script /\ arrived' = arrived
        /\ coming' = coming /\ open' = open /\ pc' = pc /\ delivered' = delivered
        /\ bodies' = bodies /\ refused' = refused /\ orphans' = orphans
    BY DEF CallReadFromSocket, clientVars, history
  <1>3. open
    BY <1>2 DEF StreamInv, InOrder
  <1>4. /\ buffer \in Seq(ByteSet) /\ arrived \in Seq(ByteSet) /\ coming \in Seq(ByteSet)
        /\ request \in Parser /\ open = TRUE
    BY <1>3 DEF StreamInv, StreamTyped, Bytes
  <1>5. PICK c \in Seq(ByteSet) : c = arrived \o coming
    BY <1>4, BytesJoined, Zenon
  <1>6. Underway(script, Served, request, buffer \o c, TRUE)
    BY <1>2, <1>4, <1>5 DEF StreamInv, InOrder, Coming
  <1>7. n \in Parser /\ more \in Seq(ByteSet) /\ Underway(script, Served, n, more \o c, TRUE)
    <2>1. Script(script) /\ Served \in 0..Len(script)
      BY ScriptIs DEF StreamInv
    <2> QED
      BY <1>1, <1>2, <1>4, <1>6, <2>1, Turn
  <1>8. Served' = Served /\ Coming' = more \o c /\ Bytes(buffer', arrived', coming')
    BY <1>1, <1>2, <1>4, <1>5, <1>7 DEF Served, Coming, Bytes
  <1>9. StreamTyped'
    BY <1>1, <1>2, <1>7, <1>8 DEF StreamInv, StreamTyped
  <1>10. Verdicts' /\ FilesAccounted'
    BY <1>1, <1>2, <1>7, <1>8 DEF StreamInv, Verdicts, FilesAccounted, AtHand, Accounted, UploadsDeleted
  <1>11. InOrder'
    BY <1>1, <1>2, <1>4, <1>7, <1>8 DEF InOrder
  <1> QED
    BY <1>9, <1>10, <1>11 DEF StreamInv

\* A request that is complete or aborted is so for what it is.
LEMMA Verdict ==
  ASSUME NEW qs, NEW k, NEW r, NEW x, NEW o, Underway(qs, k, r, x, o), Decided(r)
  PROVE  /\ k < Len(qs) /\ FilesKept(r, qs[k + 1])
         /\ r.status = "abort" => Refusable(qs[k + 1])
         /\ r.status = "complete" =>
              /\ SameRequest(r, qs[k + 1]) /\ WithinLimits(qs[k + 1]) /\ ~Broken(qs[k + 1])
              /\ o => x = <<>> \o After(qs, k + 1)
  <1>1. r # NoRequest
    BY NoRequestIs
  <1>2. PICK rest \in Seq(ByteSet) :
          k < Len(qs) /\ Progress(r, qs[k + 1], rest) /\ (o => x = rest \o After(qs, k + 1))
    BY <1>1 DEF Underway
  <1>3. ASSUME NEW i, InLine(r, qs[k + 1], i, rest) PROVE FALSE
    BY <1>3 DEF InLine, LineAt, Expects, Decided
  <1>4. ~InBody(r, qs[k + 1], rest) /\ ~InFile(r, qs[k + 1], rest)
    BY DEF InBody, InFile, Decided
  <1>5. (Complete(r, qs[k + 1]) /\ rest = <<>>) \/ Aborted(r, qs[k + 1])
    BY <1>2, <1>3, <1>4 DEF Progress
  <1>6. FilesKept(r, qs[k + 1])
    BY <1>2 DEF Progress
  <1> QED
    BY <1>2, <1>5, <1>6 DEF Complete, Aborted

\* A request that is not has no files.
LEMMA NoVerdict ==
  ASSUME NEW qs, NEW k, NEW r, NEW x, NEW o, Underway(qs, k, r, x, o), ~Decided(r)
  PROVE  FilesLeft(r) = 0
  BY NoRequestIs DEF Underway, Progress, FilesKept

\* A request is refused.
LEMMA RefuseStep == ASSUME StreamInv, Refuse PROVE StreamInv'
  <1>1. /\ pc = "read" /\ request.status = "abort" /\ refused' = TRUE /\ pc' = "flush"
        /\ script' = script /\ arrived' = arrived /\ buffer' = buffer /\ coming' = coming /\ open' = open
        /\ request' = request /\ delivered' = delivered /\ bodies' = bodies /\ orphans' = orphans
    BY DEF Refuse, clientVars
  <1>2. /\ Served' = Served /\ Served < Len(script) /\ Refusable(script[Served + 1])
        /\ FilesKept(request, script[Served + 1])
    <2>1. Underway(script, Served, request, Coming, open)
      BY <1>1 DEF StreamInv, InOrder
    <2>2. Decided(request)
      BY <1>1 DEF Decided
    <2> QED
      BY <1>1, <2>1, <2>2, Verdict DEF Served
  <1>3. StreamTyped'
    BY <1>1, <1>2 DEF StreamInv, StreamTyped
  <1>4. Verdicts'
    BY <1>1, <1>2 DEF StreamInv, Verdicts
  <1>6. FilesAccounted'
    <2>1. Served + 1 \in DOMAIN script
      <3>1. Script(script) /\ Served \in Nat /\ Len(script) \in Nat
        BY ScriptIs DEF StreamInv
      <3> QED
        BY <1>2, <3>1, LenProperties DEF Script
    <2>2. AtHand' = Served + 1
      BY <1>1, <1>2 DEF AtHand
    <2>3. Accounted(AtHand)'
      BY <1>1, <1>2, <2>1, <2>2 DEF Accounted, FilesKept
    <2> QED
      BY <1>1, <2>3 DEF StreamInv, FilesAccounted, UploadsDeleted
  <1>5. InOrder'
    BY <1>1 DEF StreamInv, InOrder
  <1> QED
    BY <1>3, <1>4, <1>5, <1>6 DEF StreamInv

\* A sequence is one of its own elements, and remains one when it grows or when
\* an element is replaced.
LEMMA Grows ==
  ASSUME NEW s, IsSequence(s), NEW e
  PROVE  IsSequence(Append(s, e)) /\ DOMAIN Append(s, e) = 1..Len(s) + 1 /\ Len(s) \in Nat /\ DOMAIN s = 1..Len(s)
  <1> DEFINE S == {s[i] : i \in DOMAIN s}
             t == Append(s, e)
             T == {t[i] : i \in DOMAIN t}
  <1>1. PICK n \in Nat : n = Len(s) /\ DOMAIN s = 1..n /\ s \in [1..n -> S]
    BY LenProperties DEF IsSequence
  <1>2. s \in Seq(S \cup {e})
    <2>1. s \in [1..n -> S \cup {e}]
      BY <1>1
    <2> QED
      BY <2>1
  <1>3. t \in Seq(S \cup {e}) /\ Len(t) = n + 1
    <2> HIDE DEF S
    <2> QED
      BY <1>1, <1>2, AppendProperties
  <1>4. t \in [1..n + 1 -> S \cup {e}] /\ DOMAIN t = 1..n + 1
    <2> HIDE DEF S, t
    <2> QED
      BY <1>3, LenProperties
  <1>5. t \in [1..n + 1 -> T]
    <2> HIDE DEF S, t
    <2> QED
      BY <1>4
  <1>6. t \in Seq(T)
    <2> HIDE DEF S, t, T
    <2> QED
      BY <1>1, <1>5
  <1> QED
    BY <1>1, <1>4, <1>6 DEF IsSequence

\* A sequence stays one when an element of it is replaced.
LEMMA Replaced ==
  ASSUME NEW s, IsSequence(s), NEW k, NEW e
  PROVE  IsSequence([s EXCEPT ![k] = e]) /\ DOMAIN [s EXCEPT ![k] = e] = DOMAIN s
  <1> DEFINE S == {s[i] : i \in DOMAIN s}
             t == [s EXCEPT ![k] = e]
             T == {t[i] : i \in DOMAIN t}
  <1>1. PICK n \in Nat : DOMAIN s = 1..n /\ s \in [1..n -> S]
    BY LenProperties DEF IsSequence
  <1>2. t \in [1..n -> S \cup {e}] /\ DOMAIN t = 1..n
    BY <1>1
  <1>3. t \in [1..n -> T]
    <2> HIDE DEF S, t
    <2> QED
      BY <1>2
  <1>4. t \in Seq(T)
    <2> HIDE DEF S, t, T
    <2> QED
      BY <1>1, <1>3
  <1> QED
    BY <1>1, <1>2, <1>4 DEF IsSequence

\* A request is given to service().
LEMMA DispatchStep == ASSUME StreamInv, Dispatch PROVE StreamInv'
  <1>1. /\ pc = "read" /\ request.status = "complete" /\ pc' = "service"
        /\ delivered' = Append(delivered, request) /\ bodies' = Append(bodies, <<>>)
        /\ script' = script /\ arrived' = arrived /\ buffer' = buffer /\ coming' = coming /\ open' = open
        /\ request' = request /\ refused' = refused /\ orphans' = orphans
    BY DEF Dispatch, clientVars
  <1>2. PICK k \in Nat : /\ k = Served /\ Script(script) /\ k + 1 \in Nat
    BY ScriptIs DEF StreamInv
  <1>3. /\ k < Len(script) /\ SameRequest(request, script[k + 1])
        /\ WithinLimits(script[k + 1]) /\ ~Broken(script[k + 1])
        /\ FilesKept(request, script[k + 1])
        /\ open => Coming = <<>> \o After(script, k + 1)
    <2>1. Underway(script, k, request, Coming, open)
      BY <1>1, <1>2 DEF StreamInv, InOrder
    <2>2. Decided(request)
      BY <1>1 DEF Decided
    <2> QED
      BY <1>1, <2>1, <2>2, Verdict
  <1>4. Len(script) \in Nat /\ k + 1 \in 0..Len(script)
    <2>1. Len(script) \in Nat
      BY ScriptIs DEF StreamInv
    <2> QED
      BY <1>2, <1>3, <2>1
  <1>5. /\ delivered' \in Seq(Parser) /\ Len(delivered') = k + 1 /\ delivered'[k + 1] = request
        /\ \A i \in 1..k : delivered'[i] = delivered[i]
        /\ DOMAIN delivered = 1..k /\ DOMAIN delivered' = 1..k + 1
    <2>1. delivered \in Seq(Parser) /\ request \in Parser /\ k = Len(delivered)
      BY <1>2 DEF StreamInv, StreamTyped, Served
    <2>2. /\ Append(delivered, request) \in Seq(Parser) /\ Len(Append(delivered, request)) = k + 1
          /\ Append(delivered, request)[k + 1] = request
          /\ \A i \in 1..k : Append(delivered, request)[i] = delivered[i]
      BY <2>1, AppendProperties
    <2> QED
      BY <1>1, <2>1, <2>2, LenProperties
  <1>6. IsSequence(bodies') /\ DOMAIN bodies' = DOMAIN delivered'
    <2>1. IsSequence(bodies) /\ DOMAIN bodies = 1..k
      BY <1>5 DEF StreamInv, StreamTyped
    <2>2. Len(bodies) \in Nat /\ 1..Len(bodies) = 1..k
      BY <2>1, Grows
    <2>3. Len(bodies) = k
      BY <1>2, <2>2
    <2> QED
      BY <1>1, <1>5, <2>1, <2>3, Grows
  <1>7. Served' = k + 1 /\ Coming' = Coming
    BY <1>1, <1>5 DEF Served, Coming
  <1>8. StreamTyped'
    BY <1>1, <1>4, <1>5, <1>6, <1>7 DEF StreamInv, StreamTyped
  <1>9. AsSent(delivered', script)
    <2>1. ASSUME NEW i \in 1..k + 1
          PROVE  SameRequest(delivered'[i], script[i]) /\ WithinLimits(script[i]) /\ ~Broken(script[i])
      <3>1. CASE i = k + 1
        BY <1>3, <1>5, <3>1
      <3>2. CASE i \in 1..k
        BY <1>5, <3>2 DEF StreamInv, Verdicts, AsSent
      <3> QED
        BY <1>2, <3>1, <3>2
    <2> QED
      BY <1>5, <2>1 DEF AsSent
  <1>10. Verdicts' /\ ~refused
    BY <1>1, <1>9 DEF StreamInv, Verdicts
  <1>13. FilesAccounted'
    <2>1. k + 1 \in DOMAIN script
      BY <1>2, <1>3, <1>4, LenProperties DEF Script
    <2>2. AtHand' = k + 1
      BY <1>1, <1>2, <1>7, <1>10 DEF AtHand
    <2>3. Accounted(AtHand)'
      BY <1>1, <1>3, <2>1, <2>2 DEF Accounted, FilesKept
    <2> QED
      BY <1>1, <2>3 DEF StreamInv, FilesAccounted, UploadsDeleted
  <1>11. open => Coming = After(script, k + 1)
    <2>1. After(script, k + 1) \in Seq(ByteSet)
      BY <1>2, <1>4, StreamAfter
    <2> QED
      BY <1>3, <2>1, NothingFirst
  <1>12. InOrder'
    BY <1>1, <1>7, <1>11 DEF StreamInv, InOrder
  <1> QED
    BY <1>8, <1>10, <1>12, <1>13 DEF StreamInv

\* service() writes a part of the body.
LEMMA WritesStep == ASSUME StreamInv, ServiceWrites PROVE StreamInv'
  <1>1. PICK data : bodies' = [bodies EXCEPT ![Len(bodies)] = @ \o data]
    BY DEF ServiceWrites
  <1>2. PICK e : e = bodies[Len(bodies)] \o data
    OBVIOUS
  <1>3. IsSequence(bodies') /\ DOMAIN bodies' = DOMAIN bodies
    <2>1. IsSequence(bodies)
      BY DEF StreamInv, StreamTyped
    <2>2. bodies' = [bodies EXCEPT ![Len(bodies)] = e]
      BY <1>1, <1>2, Zenon
    <2> QED
      BY <2>1, <2>2, Replaced
  <1>4. UNCHANGED <<script, buffer, arrived, coming, request, delivered, pc, open, refused, orphans>>
    BY DEF ServiceWrites, clientVars
  <1> QED
    BY <1>3, <1>4, OtherSteps

\* Steps that touch neither the stream nor the request.
LEMMA QuietSteps ==
  ASSUME StreamInv, HangUp \/ ServiceSetsHeader \/ ReadTimeout \/ UNCHANGED vars
  PROVE  StreamInv'
  <1>1. UNCHANGED <<script, buffer, arrived, coming, request, delivered, pc, open, refused, orphans, bodies>>
    BY DEF HangUp, ServiceSetsHeader, ReadTimeout, vars, clientVars, history
  <1>2. IsSequence(bodies)
    BY DEF StreamInv, StreamTyped
  <1> QED
    BY <1>1, <1>2, OtherSteps

\* read() returns.
LEMMA ReturnStep == ASSUME StreamInv, ReadReturns PROVE StreamInv'
  <1>1. /\ pc = "read" /\ buffer = <<>> /\ ~Decided(request) /\ pc' = "loop"
        /\ UNCHANGED <<script, buffer, arrived, coming, request, delivered, open, refused, orphans, bodies>>
    BY DEF ReadReturns, clientVars, history
  <1>2. Coming' = Coming /\ Served' = Served
    BY <1>1 DEF Coming, Served
  <1>3. StreamTyped'
    BY <1>1, <1>2 DEF StreamInv, StreamTyped
  <1>4. Verdicts' /\ FilesAccounted'
    <2>1. FilesLeft(request) = 0
      BY <1>1, NoVerdict DEF StreamInv, InOrder
    <2> QED
      BY <1>1, <1>2, <2>1 DEF StreamInv, Verdicts, FilesAccounted, AtHand, Accounted, UploadsDeleted
  <1>5. InOrder'
    BY <1>1, <1>2 DEF StreamInv, InOrder
  <1> QED
    BY <1>3, <1>4, <1>5 DEF StreamInv

\* The files of a request are deleted with it.
LEMMA Deleted ==
  ASSUME FilesAccounted, pc # "read", script' = script, DeleteRequest
  PROVE  request' = NoRequest /\ NoRequest \in Parser /\ FilesAccounted'
  <1>1. request' = NoRequest /\ NoRequest \in Parser /\ FilesLeft(request)' = 0
    BY NoRequestIs, NewRequestTyped DEF DeleteRequest
  <1>2. UploadsDeleted /\ Accounted(AtHand)
    BY DEF FilesAccounted
  <1>3. UploadsDeleted'
    <2>1. CASE FilesLeft(request) = 0
      BY <1>2, <2>1 DEF DeleteRequest, UploadsDeleted
    <2>2. CASE FilesLeft(request) # 0
      <3>1. orphans' = orphans \cup {<<AtHand, FilesLeft(request)>>}
        BY <2>2 DEF DeleteRequest, AtHand, Served
      <3>2. AtHand \in DOMAIN script /\ FilesLeft(request) = FilesReplaced(script[AtHand].sections)
        BY <1>2, <2>2 DEF Accounted
      <3>3. PICK i, n : i = AtHand /\ n = FilesLeft(request) /\ orphans' = orphans \cup {<<i, n>>}
        BY <3>1
      <3> QED
        BY <1>2, <3>2, <3>3 DEF UploadsDeleted
    <2> QED
      BY <2>1, <2>2
  <1> QED
    BY <1>1, <1>3 DEF FilesAccounted, Accounted

\* service() returns: the request is deleted and the next one begins, or the connection
\* is to be closed.
LEMMA ServiceReturnsStep == ASSUME StreamInv, ServiceReturns PROVE StreamInv'
  <1>1. /\ pc = "service"
        /\ UNCHANGED <<script, buffer, arrived, coming, delivered, open, refused, bodies>>
        /\ \/ pc' = "flush" /\ UNCHANGED <<request, orphans>>
           \/ DeleteRequest /\ pc' = "read"
    BY DEF ServiceReturns, NextRequest, clientVars
  <1>2. Coming' = Coming /\ Served' = Served
    BY <1>1 DEF Coming, Served
  <1>3. ~refused
    BY <1>1 DEF StreamInv, Verdicts
  <1>4. CASE pc' = "flush" /\ UNCHANGED <<request, orphans>>
    <2>1. StreamTyped'
      BY <1>1, <1>2, <1>4 DEF StreamInv, StreamTyped
    <2>2. Verdicts' /\ FilesAccounted'
      BY <1>1, <1>2, <1>3, <1>4 DEF StreamInv, Verdicts, FilesAccounted, AtHand, Accounted, UploadsDeleted
    <2>3. InOrder'
      BY <1>1, <1>2, <1>4 DEF StreamInv, InOrder
    <2> QED
      BY <2>1, <2>2, <2>3 DEF StreamInv
  <1>5. CASE DeleteRequest /\ pc' = "read"
    <2>1. request' = NoRequest /\ NoRequest \in Parser /\ FilesAccounted'
      BY <1>1, <1>5, Deleted DEF StreamInv
    <2>2. StreamTyped'
      BY <1>1, <1>2, <1>5, <2>1 DEF StreamInv, StreamTyped
    <2>3. Verdicts'
      BY <1>1, <1>2, <1>3 DEF StreamInv, Verdicts
    <2>4. Underway(script, Served, NoRequest, Coming, open)
      BY <1>1, NextUnderway DEF StreamInv, InOrder
    <2>5. InOrder'
      BY <1>1, <1>2, <1>5, <2>1, <2>4 DEF StreamInv, InOrder
    <2> QED
      BY <2>1, <2>2, <2>3, <2>5 DEF StreamInv
  <1> QED
    BY <1>1, <1>4, <1>5

\* The connection is closed, after a response or by the timer.
LEMMA ClosingSteps == ASSUME StreamInv, Flushed \/ ReadTimeoutFlushed PROVE StreamInv'
  <1>1. /\ pc \in {"loop", "flush"} /\ pc' = "loop" /\ DeleteRequest
        /\ open' = FALSE /\ buffer' = <<>> /\ arrived' = <<>>
        /\ UNCHANGED <<script, coming, delivered, refused, bodies>>
    <2>1. StreamTyped /\ (~open => buffer = <<>> /\ arrived = <<>>)
      BY DEF StreamInv, InOrder
    <2> QED
      BY <2>1 DEF Flushed, ReadTimeoutFlushed, Disconnected, clientVars, StreamTyped
  <1>2. request' = NoRequest /\ NoRequest \in Parser /\ FilesAccounted'
    BY <1>1, Deleted DEF StreamInv
  <1>3. Served' = Served /\ Bytes(<<>>, <<>>, coming)
    BY <1>1, EmptySeq DEF Served, StreamInv, StreamTyped, Bytes
  <1>4. StreamTyped'
    BY <1>1, <1>2, <1>3 DEF StreamInv, StreamTyped
  <1>5. Verdicts'
    BY <1>1, <1>3 DEF StreamInv, Verdicts
  <1>6. InOrder'
    <2>1. Underway(script', Served', request', Coming', open')
      BY <1>1, <1>2, NothingUnderway
    <2> QED
      BY <1>1, <1>2, <2>1, NoRequestIs DEF InOrder
  <1> QED
    BY <1>2, <1>4, <1>5, <1>6 DEF StreamInv

\* The first state.
LEMMA StreamInit == Init => StreamInv
  <1> SUFFICES ASSUME Init PROVE StreamInv
    OBVIOUS
  <1>1. /\ script \in Scripts /\ coming = After(script, 0) /\ arrived = <<>> /\ buffer = <<>>
        /\ open = TRUE /\ pc = "loop" /\ request = NoRequest
        /\ delivered = <<>> /\ bodies = <<>> /\ refused = FALSE /\ orphans = {}
    BY DEF Init, After
  <1>2. Served = 0
    BY <1>1, EmptySeq DEF Served
  <1>3. Script(script) /\ Len(script) \in Nat
    <2>1. script \in Seq(Request) /\ Script(script)
      BY <1>1, ScriptsAssumption DEF Script
    <2> QED
      BY <2>1, LenProperties
  <1>4. coming \in Seq(ByteSet) /\ Bytes(buffer, arrived, coming)
    <2>1. 0 \in 0..Len(script)
      BY <1>3
    <2>2. coming \in Seq(ByteSet)
      BY <1>1, <1>3, <2>1, StreamAfter
    <2> QED
      BY <1>1, <2>2, EmptySeq DEF Bytes
  <1>5. Coming = coming
    <2>1. <<>> \o coming = coming
      BY <1>4, NothingFirst
    <2> QED
      BY <1>1, <2>1 DEF Coming
  <1>6. StreamTyped
    <2>1. IsSequence(bodies) /\ DOMAIN bodies = DOMAIN delivered /\ delivered \in Seq(Parser)
      BY <1>1, EmptySeq DEF IsSequence
    <2> QED
      BY <1>1, <1>2, <1>3, <1>4, <2>1, NewRequestTyped DEF StreamTyped
  <1>7. Verdicts
    <2>1. DOMAIN delivered = {}
      BY <1>1
    <2> QED
      BY <1>1, <2>1 DEF Verdicts, AsSent
  <1>8. InOrder /\ FilesAccounted
    <2>1. Underway(script, Served, request, Coming, open)
      BY <1>1, <1>2, <1>5, NextUnderway
    <2> QED
      BY <1>1, <2>1, NoRequestIs DEF InOrder, FilesAccounted, Accounted, UploadsDeleted
  <1> QED
    BY <1>6, <1>7, <1>8 DEF StreamInv

\* Every step.
LEMMA StreamNext == StreamInv /\ [Next]_vars => StreamInv'
  <1> SUFFICES ASSUME StreamInv, [Next]_vars PROVE StreamInv'
    OBVIOUS
  <1>1. CASE Send
    BY <1>1, SendStep
  <1>2. CASE HangUp \/ ServiceSetsHeader \/ ReadTimeout \/ UNCHANGED vars
    BY <1>2, QuietSteps
  <1>3. CASE PeerGone
    BY <1>3, PeerGoneStep
  <1>4. CASE ReadyRead \/ FetchWhileWriting
    BY <1>4, FetchSteps
  <1>5. CASE CallReadFromSocket
    BY <1>5, ParseStep
  <1>6. CASE ReadReturns
    BY <1>6, ReturnStep
  <1>7. CASE Refuse
    BY <1>7, RefuseStep
  <1>8. CASE Dispatch
    BY <1>8, DispatchStep
  <1>9. CASE ServiceWrites
    BY <1>9, WritesStep
  <1>10. CASE ServiceReturns
    BY <1>10, ServiceReturnsStep
  <1>11. CASE Flushed \/ ReadTimeoutFlushed
    BY <1>11, ClosingSteps
  <1> QED
    BY <1>1, <1>2, <1>3, <1>4, <1>5, <1>6, <1>7, <1>8, <1>9, <1>10, <1>11 DEF Next

-----------------------------------------------------------------------------
\* Whatever a connection has got of its client's requests is accounted for, in
\* every state.
THEOREM StreamInvariance == Spec => []StreamInv
  BY StreamInit, StreamNext, PTL DEF Spec

\* RequestsAsSent: service() gets the requests the client has written, in this
\* order, each with its own line, headers, body, fields and files, however the
\* stream is cut, for any requests and any limits (HttpRequest::readFromSocket,
\* HttpConnectionHandler::read).
THEOREM DeliveredAsSent == Spec => []RequestsAsSent
  <1>1. StreamInv => RequestsAsSent
    BY DEF StreamInv, StreamTyped, Verdicts, AsSent, Served, RequestsAsSent
  <1> QED
    BY <1>1, StreamInvariance, PTL

\* VerdictBySize: what keeps the limits is served and what exceeds them is
\* refused, but for the two bytes it leaves open, however the request was cut and
\* whatever came before it (HttpRequest::readFromSocket).
THEOREM JudgedBySize == Spec => []VerdictBySize
  <1>1. ASSUME NEW q \in Request, WithinLimits(q)
        PROVE  FieldsFit(q) /\ Within(q, MaxSize + 1, MaxMultiPartSize)
    <2>1. Len(q.body) \in Nat /\ MaxMultiPartSize \in Nat
      BY SizesAssumption, Numbers
    <2> QED
      BY <1>1, <2>1 DEF WithinLimits, FieldsFit, Within
  <1>2. ASSUME NEW q \in Request, WellFormed(q), Refusable(q)
        PROVE  Broken(q) \/ ~FieldsFit(q) \/ ~Within(q, MaxSize, MaxMultiPartSize - 1)
    <2>1. PICK B \in Nat, H \in Nat : B = Len(q.body) /\ H = HeadSize(q)
      BY <1>2, SizeIs
    <2>2. MaxMultiPartSize \in Nat /\ MaxSize \in Nat
      BY SizesAssumption
    <2>3. H <= MaxSize => H <= MaxSize + 1
      BY <2>2
    <2>4. B <= MaxMultiPartSize - 1 => B < MaxMultiPartSize
      BY <2>2
    <2> QED
      BY <1>2, <2>1, <2>3, <2>4 DEF Refusable, WithinLimits, FieldsFit, Within
  <1>3. StreamInv => VerdictBySize
    <2> SUFFICES ASSUME StreamInv PROVE VerdictBySize
      OBVIOUS
    <2>1. /\ Script(script) /\ Served \in Nat /\ Len(script) \in Nat /\ Served <= Len(script)
          /\ DOMAIN delivered = 1..Served /\ DOMAIN script = 1..Len(script)
      <3>1. Script(script) /\ Served \in Nat /\ Served \in 0..Len(script) /\ Len(script) \in Nat
        BY ScriptIs DEF StreamInv
      <3>2. delivered \in Seq(Parser)
        BY DEF StreamInv, StreamTyped
      <3> QED
        BY <3>1, <3>2, LenProperties DEF Served, Script
    <2>2. \A i \in DOMAIN script : script[i] \in Request /\ WellFormed(script[i])
      BY <2>1, ElementOfSeq DEF Script
    <2>3. ASSUME NEW i \in DOMAIN delivered
          PROVE  /\ ~Broken(script[i]) /\ FieldsFit(script[i])
                 /\ Within(script[i], MaxSize + 1, MaxMultiPartSize)
      <3>1. i \in DOMAIN script
        BY <2>1
      <3>2. WithinLimits(script[i]) /\ ~Broken(script[i])
        BY DEF StreamInv, Verdicts, AsSent
      <3> QED
        BY <1>1, <2>2, <3>1, <3>2
    <2>4. ASSUME refused, NEW q, q = script[Served + 1]
          PROVE  Broken(q) \/ ~FieldsFit(q) \/ ~Within(q, MaxSize, MaxMultiPartSize - 1)
      <3>1. Served < Len(script) /\ Refusable(script[Served + 1])
        BY <2>4 DEF StreamInv, Verdicts
      <3>2. Served + 1 \in DOMAIN script
        BY <2>1, <3>1
      <3> QED
        BY <1>2, <2>2, <2>4, <3>1, <3>2
    <2> QED
      BY <2>3, <2>4 DEF VerdictBySize, Served
  <1> QED
    BY <1>3, StreamInvariance, PTL

\* UploadsDeleted: of the temporary files of a request, its destructor leaves
\* just those that parseMultiPartFile() replaced in the map by a later file of the
\* same field.
THEOREM FilesDeleted == Spec => []UploadsDeleted
  <1>1. StreamInv => UploadsDeleted
    BY DEF StreamInv, FilesAccounted
  <1> QED
    BY <1>1, StreamInvariance, PTL

\* A request that is not served yet has not come completely.
LEMMA SentIsServed ==
  ASSUME StreamInv, pc = "loop", arrived = <<>>, open, NEW i \in DOMAIN script, SentCompletely(i)
  PROVE  Len(bodies) >= i
  <1>1. PICK k \in Nat, N \in Nat : k = Served /\ N = Len(script) /\ k \in 0..N /\ DOMAIN script = 1..N
    <2>1. Script(script) /\ Served \in Nat /\ Served \in 0..Len(script) /\ Len(script) \in Nat
      BY ScriptIs DEF StreamInv
    <2>2. DOMAIN script = 1..Len(script)
      BY <2>1, LenProperties DEF Script
    <2> QED
      BY <2>1, <2>2
  <1>2. Script(script) /\ coming \in Seq(ByteSet) /\ Coming = coming
    <2>1. Script(script) /\ coming \in Seq(ByteSet) /\ buffer = <<>>
      BY ScriptIs DEF StreamInv, StreamTyped, InOrder, Bytes
    <2>2. <<>> \o coming = coming
      BY <2>1, NothingFirst
    <2> QED
      BY <2>1, <2>2 DEF Coming
  <1>3. Len(bodies) = k
    <2>1. IsSequence(bodies) /\ DOMAIN bodies = DOMAIN delivered /\ delivered \in Seq(Parser)
      BY DEF StreamInv, StreamTyped
    <2>2. Len(bodies) \in Nat /\ 1..Len(bodies) = 1..k
      BY <1>1, <2>1, Grows, LenProperties DEF Served
    <2> QED
      BY <2>2
  <1>4. SUFFICES ASSUME i > k PROVE FALSE
    BY <1>1, <1>3
  <1>5. k < Len(script) /\ k + 1 \in 0..N /\ i \in k + 1..N
    BY <1>1, <1>4
  <1>6. PICK q \in Request, e \in Seq(ByteSet), u \in Seq(ByteSet) :
          /\ q = script[k + 1] /\ WellFormed(q) /\ e = Encode(q) /\ Len(e) > 0
          /\ u = After(script, k + 1) /\ After(script, k) = e \o u
    <2>1. k \in 0..Len(script)
      BY <1>1
    <2>2. /\ script[k + 1] \in Request /\ WellFormed(script[k + 1])
          /\ Encode(script[k + 1]) \in Seq(ByteSet) /\ Len(Encode(script[k + 1])) > 0
          /\ After(script, k) = Encode(script[k + 1]) \o After(script, k + 1)
      BY <1>2, <1>5, <2>1, StreamAfter
    <2>3. After(script, k + 1) \in Seq(ByteSet)
      BY <1>1, <1>2, <1>5, StreamAfter
    <2> QED
      BY <2>2, <2>3
  <1>7. PICK rest \in Seq(ByteSet) : coming = rest \o u /\ rest # <<>>
    <2>1. Underway(script, k, request, coming, TRUE)
      BY <1>1, <1>2 DEF StreamInv, StreamTyped, InOrder
    <2>2. CASE coming = After(script, k)
      <3>1. e # <<>>
        BY <1>6, EmptySeq
      <3> QED
        BY <1>6, <2>2, <3>1
    <2>3. CASE \E rest \in Seq(ByteSet) : Progress(request, q, rest) /\ coming = rest \o u
      <3>1. ~Decided(request)
        BY DEF StreamInv, InOrder
      <3> QED
        BY <1>6, <2>3, <3>1, SomethingToCome
    <2> QED
      BY <1>6, <2>1, <2>2, <2>3 DEF Underway
  <1>8. Len(coming) > Len(u) /\ Len(u) \in Nat /\ Len(coming) \in Nat
    <2>1. Len(coming) = Len(rest) + Len(u) /\ Len(u) \in Nat
      BY <1>7, BytesJoined
    <2>2. Len(rest) \in Nat \ {0}
      BY <1>7, EmptySeq
    <2> QED
      BY <2>1, <2>2
  <1>9. PICK v \in Seq(ByteSet) : v = After(script, i) /\ Len(v) <= Len(u)
    <2>1. script \in Seq(Request) /\ \A j \in DOMAIN script : WellFormed(script[j])
      BY <1>2 DEF Script
    <2>2. (k + 1) + 1 \in 1..N + 1 /\ i + 1 \in (k + 1) + 1..N + 1 /\ i \in 0..N
      BY <1>5
    <2>3. Len(StreamFrom(script)[i + 1]) <= Len(StreamFrom(script)[(k + 1) + 1])
      BY <1>1, <2>1, <2>2, StreamShrinks
    <2>4. After(script, i) \in Seq(ByteSet)
      BY <1>1, <1>2, <2>2, StreamAfter
    <2> QED
      BY <1>6, <2>3, <2>4 DEF After
  <1>10. Len(coming) <= Len(v)
    BY <1>9 DEF SentCompletely, After
  <1> QED
    <2>1. Len(v) \in Nat
      BY <1>9, LenProperties
    <2> QED
      BY <1>8, <1>9, <1>10, <2>1

\* NobodyWaits: when the thread is back in its event loop and no byte is on its
\* way, no request that has come completely is left unanswered in the buffer (the
\* loop in HttpConnectionHandler::read).
THEOREM NoneLeft == Spec => []NobodyWaits
  <1>1. StreamInv => NobodyWaits
    BY SentIsServed DEF StreamInv, InOrder, NobodyWaits
  <1> QED
    BY <1>1, StreamInvariance, PTL
=============================================================================
