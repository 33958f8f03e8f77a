---------------------------- MODULE QCache_proofs ----------------------------
(***************************************************************************)
(* What the operations of QCache do to the entries, to their costs and to  *)
(* their keys, for any cache; and the induction over numbers it rests on.  *)
(***************************************************************************)
EXTENDS QCache, Integers, SequenceTheorems, NaturalsInduction, WellFoundedInduction, TLAPS

-----------------------------------------------------------------------------
(* Induction and recursion over numbers, for sets instead of predicates.   *)

\* A set of numbers that is not empty has a least one.
LEMMA LeastNumber ==
  ASSUME NEW U \in SUBSET Nat, U # {}
  PROVE  \E n \in U : \A m \in U : n <= m
  <1>1. OpToRel(<, Nat) = {p \in Nat \X Nat : p[1] < p[2]}
    BY DEF OpToRel
  <1>2. IsWellFoundedOn(OpToRel(<, Nat), Nat)
    BY NatLessThanWellFounded
  <1>3. PICK n \in U : \A m \in U : ~(<<m, n>> \in OpToRel(<, Nat))
    BY <1>2, WFMin
  <1>4. \A m \in U : ~(m < n)
    BY <1>1, <1>3
  <1> QED
    BY <1>4

\* Induction over numbers, for a set instead of a predicate.
LEMMA InductionOverSet ==
  ASSUME NEW U, 0 \in U, \A n \in Nat : n \in U => n + 1 \in U
  PROVE  Nat \subseteq U
  <1> DEFINE V == Nat \ U
  <1> SUFFICES ASSUME V # {} PROVE FALSE
    OBVIOUS
  <1>1. PICK n \in V : \A m \in V : n <= m
    BY LeastNumber
  <1>2. n - 1 \in Nat /\ n - 1 \notin V
    BY <1>1
  <1>3. n - 1 \in U /\ (n - 1) + 1 = n
    BY <1>1, <1>2
  <1> QED
    BY <1>2, <1>3

\* A set of numbers with a bound has a largest one.
LEMMA LargestNumber ==
  ASSUME NEW N \in Nat, NEW U \in SUBSET (0..N), U # {}
  PROVE  \E n \in U : \A m \in U : m <= n
  <1> DEFINE V == {N - n : n \in U}
  <1>1. V \in SUBSET Nat /\ V # {}
    <2>1. \A n \in U : n \in 0..N
      OBVIOUS
    <2>2. \A n \in 0..N : N - n \in Nat
      OBVIOUS
    <2> QED
      BY <2>1, <2>2
  <1>2. PICK v \in V : \A w \in V : v <= w
    BY <1>1, LeastNumber
  <1>3. PICK n \in U : v = N - n
    BY <1>2
  <1>4. ASSUME NEW m \in U PROVE m <= n
    BY <1>2, <1>3, <1>4
  <1> QED
    BY <1>4

\* A function that is defined by a step from each number to the next exists.
Defines(S, a, N, F, c) == c \in [0..N -> S] /\ c[0] = a /\ \A i \in 1..N : c[i] = F[i][c[i - 1]]

\* A function whose values are computed one after the other exists.
LEMMA Recursion ==
  ASSUME NEW S, NEW a \in S, NEW N \in Nat, NEW F \in [1..N -> [S -> S]]
  PROVE  \E c : Defines(S, a, N, F, c)
  <1> DEFINE Upto(n, c) == c \in [0..n -> S] /\ c[0] = a /\ \A i \in 1..n : c[i] = F[i][c[i - 1]]
             U == {n \in Nat : n <= N => \E c : Upto(n, c)}
  <1>1. 0 \in U
    <2>1. Upto(0, [i \in 0..0 |-> a])
      OBVIOUS
    <2> QED
      BY <2>1
  <1>2. ASSUME NEW n \in Nat, n \in U PROVE n + 1 \in U
    <2> SUFFICES ASSUME n + 1 <= N PROVE \E c : Upto(n + 1, c)
      OBVIOUS
    <2>1. PICK c : Upto(n, c)
      BY <1>2
    <2> DEFINE d == [i \in 0..(n + 1) |-> IF i = n + 1 THEN F[n + 1][c[n]] ELSE c[i]]
    <2>2. F[n + 1] \in [S -> S] /\ c[n] \in S
      BY <2>1
    <2>3. d \in [0..(n + 1) -> S] /\ d[0] = a
      BY <2>1, <2>2
    <2>4. ASSUME NEW i \in 1..(n + 1) PROVE d[i] = F[i][d[i - 1]]
      <3>1. CASE i = n + 1
        BY <3>1
      <3>2. CASE i # n + 1
        <4>1. i \in 1..n /\ i - 1 \in 0..(n + 1) /\ i - 1 # n + 1 /\ i \in 0..(n + 1)
          BY <3>2
        <4> QED
          BY <2>1, <4>1
      <3> QED
        BY <3>1, <3>2
    <2> QED
      BY <2>3, <2>4
  <1> HIDE DEF U
  <1>3. Nat \subseteq U
    BY <1>1, <1>2, InductionOverSet
  <1> QED
    BY <1>3 DEF U, Defines

-----------------------------------------------------------------------------
(* Costs. *)

Priced(s) == Len(s) \in Nat /\ DOMAIN s = 1..Len(s) /\ \A i \in 1..Len(s) : s[i].cost \in Nat

CostsOf(s, c) ==
    /\ c \in [0..Len(s) -> Nat] /\ c[0] = 0
    /\ \A i \in 1..Len(s) : c[i] = c[i - 1] + s[i].cost

\* Costs() is the running sum of the costs.
LEMMA CostsDefined ==
  ASSUME NEW s, Priced(s)
  PROVE  CostsOf(s, Costs(s))
  <1> DEFINE Step(c) == [n \in 0..Len(s) |-> IF n = 0 THEN 0 ELSE c[n - 1] + s[n].cost]
  <1>1. ASSUME NEW c PROVE CostsOf(s, c) => c = Step(c)
    BY DEF CostsOf, Priced
  <1>2. \E c : CostsOf(s, c)
    <2> DEFINE F == [i \in 1..Len(s) |-> [x \in Nat |-> x + s[i].cost]]
    <2>1. F \in [1..Len(s) -> [Nat -> Nat]] /\ Len(s) \in Nat
      BY DEF Priced
    <2>2. PICK c \in [0..Len(s) -> Nat] : c[0] = 0 /\ \A i \in 1..Len(s) : c[i] = F[i][c[i - 1]]
      <3>1. PICK N \in Nat : N = Len(s)
        BY <2>1
      <3>2. PICK f \in [1..N -> [Nat -> Nat]] : f = F
        BY <2>1, <3>1
      <3>3. \E d : Defines(Nat, 0, N, f, d)
        BY Recursion
      <3> QED
        BY <3>1, <3>2, <3>3 DEF Defines
    <2>3. ASSUME NEW i \in 1..Len(s) PROVE c[i] = c[i - 1] + s[i].cost
      <3>1. c[i - 1] \in Nat
        BY <2>1
      <3> QED
        BY <2>2, <3>1
    <2> QED
      BY <2>2, <2>3 DEF CostsOf
  <1>3. Costs(s) = Step(Costs(s))
    BY <1>1, <1>2 DEF Costs
  <1> DEFINE c == Costs(s)
  <1>4. c[0] = 0 /\ DOMAIN c = 0..Len(s) /\ \A i \in 1..Len(s) : c[i] = c[i - 1] + s[i].cost
    <2> HIDE DEF c
    <2>1. c = Step(c)
      BY <1>3 DEF c
    <2> QED
      BY <2>1 DEF Priced
  <1>5. \A i \in 0..Len(s) : c[i] \in Nat
    <2> HIDE DEF c
    <2> DEFINE U == {n \in Nat : n <= Len(s) => c[n] \in Nat}
    <2>1. 0 \in U
      BY <1>4
    <2>2. ASSUME NEW n \in Nat, n \in U PROVE n + 1 \in U
      <3> SUFFICES ASSUME n + 1 <= Len(s) PROVE c[n + 1] \in Nat
        OBVIOUS
      <3>1. n + 1 \in 1..Len(s) /\ (n + 1) - 1 = n /\ n <= Len(s)
        BY DEF Priced
      <3> QED
        BY <1>4, <2>2, <3>1 DEF Priced
    <2> HIDE DEF U
    <2>3. Nat \subseteq U
      BY <2>1, <2>2, InductionOverSet
    <2> QED
      BY <2>3 DEF U, Priced
  <1>6. c \in [0..Len(s) -> Nat]
    <2> HIDE DEF c
    <2>1. c = [i \in 0..Len(s) |-> c[i]]
      <3>1. c = Step(c)
        BY <1>3 DEF c
      <3> QED
        BY <1>4, <3>1
    <2> QED
      BY <1>5, <2>1
  <1> QED
    BY <1>4, <1>6 DEF CostsOf

\* There is only one running sum of the costs.
LEMMA CostsUnique ==
  ASSUME NEW s, Priced(s), NEW c, CostsOf(s, c)
  PROVE  \A n \in 0..Len(s) : Costs(s)[n] = c[n]
  <1>1. PICK d : d = Costs(s) /\ CostsOf(s, d)
    BY CostsDefined
  <1> DEFINE U == {n \in Nat : n <= Len(s) => d[n] = c[n]}
  <1>2. 0 \in U
    BY <1>1 DEF CostsOf
  <1>3. ASSUME NEW n \in Nat, n \in U PROVE n + 1 \in U
    <2> SUFFICES ASSUME n + 1 <= Len(s) PROVE d[n + 1] = c[n + 1]
      OBVIOUS
    <2>1. n + 1 \in 1..Len(s) /\ (n + 1) - 1 = n /\ n <= Len(s)
      BY DEF Priced
    <2> QED
      BY <1>1, <1>3, <2>1 DEF CostsOf
  <1> HIDE DEF U
  <1>4. Nat \subseteq U
    BY <1>2, <1>3, InductionOverSet
  <1> QED
    BY <1>1, <1>4 DEF U, Priced

\* The total is the last value of any running sum.
LEMMA TotalOf ==
  ASSUME NEW s, Priced(s), NEW c, CostsOf(s, c)
  PROVE  TotalCost(s) = c[Len(s)]
  BY CostsUnique DEF TotalCost, Priced

\* The total cost is a number.
LEMMA TotalIsNumber == ASSUME NEW s, Priced(s) PROVE TotalCost(s) \in Nat
  <1>1. CostsOf(s, Costs(s)) /\ Len(s) \in 0..Len(s)
    BY CostsDefined DEF Priced
  <1> QED
    BY <1>1 DEF TotalCost, CostsOf

-----------------------------------------------------------------------------
(* Removing, adding and cutting off. *)

Lacks(s, p, r) ==
    /\ Len(r) = Len(s) - 1 /\ Len(s) \in Nat
    /\ \A i \in 1..Len(r) : r[i] = IF i < p THEN s[i] ELSE s[i + 1]

\* RemoveAt() leaves the entries before and after the place.
LEMMA Removing ==
  ASSUME NEW E, NEW s \in Seq(E), NEW p \in 1..Len(s), NEW r, r = RemoveAt(s, p)
  PROVE  r \in Seq(E) /\ Lacks(s, p, r)
  <1>1. Len(s) \in Nat /\ p \in Int /\ Len(s) \in Int /\ \A i \in 1..Len(s) : s[i] \in E
    BY LenProperties, ElementOfSeq
  <1>2. PICK a : a = SubSeq(s, 1, p - 1)
    OBVIOUS
  <1>3. PICK b : b = SubSeq(s, p + 1, Len(s))
    OBVIOUS
  <1>4. a \in Seq(E) /\ Len(a) = p - 1 /\ \A i \in 1..(p - 1) : a[i] = s[i]
    <2>1. \A i \in 1..(p - 1) : s[i] \in E
      BY <1>1
    <2>2. p - 1 \in Int /\ 1 \in Int
      BY <1>1
    <2>3. /\ a \in Seq(E) /\ Len(a) = IF 1 <= p - 1 THEN (p - 1) - 1 + 1 ELSE 0
          /\ \A i \in 1..((p - 1) - 1 + 1) : a[i] = s[1 + i - 1]
      BY <1>2, <2>1, <2>2, SubSeqProperties
    <2> QED
      BY <1>1, <2>3
  <1>5. b \in Seq(E) /\ Len(b) = Len(s) - p /\ \A i \in 1..(Len(s) - p) : b[i] = s[p + i]
    <2>1. \A i \in (p + 1)..Len(s) : s[i] \in E
      BY <1>1
    <2>2. p + 1 \in Int
      BY <1>1
    <2>3. /\ b \in Seq(E) /\ Len(b) = IF p + 1 <= Len(s) THEN Len(s) - (p + 1) + 1 ELSE 0
          /\ \A i \in 1..(Len(s) - (p + 1) + 1) : b[i] = s[(p + 1) + i - 1]
      BY <1>1, <1>3, <2>1, <2>2, SubSeqProperties
    <2> QED
      BY <1>1, <2>3
  <1>6. r = a \o b /\ a \in Seq(E) /\ b \in Seq(E)
    BY <1>2, <1>3, <1>4, <1>5 DEF RemoveAt
  <1>7. /\ r \in Seq(E) /\ Len(r) = Len(a) + Len(b)
        /\ \A i \in 1..(Len(a) + Len(b)) : r[i] = IF i <= Len(a) THEN a[i] ELSE b[i - Len(a)]
    BY <1>6, ConcatProperties
  <1>8. Len(r) = Len(s) - 1
    BY <1>1, <1>4, <1>5, <1>7
  <1>9. ASSUME NEW i \in 1..Len(r) PROVE r[i] = IF i < p THEN s[i] ELSE s[i + 1]
    <2>1. CASE i < p
      <3>1. i <= Len(a) /\ i \in 1..(p - 1) /\ i \in 1..(Len(a) + Len(b))
        BY <1>1, <1>4, <1>7, <2>1
      <3> QED
        BY <1>4, <1>7, <2>1, <3>1
    <2>2. CASE ~(i < p)
      <3>1. ~(i <= Len(a)) /\ i - Len(a) \in 1..(Len(s) - p) /\ p + (i - Len(a)) = i + 1
        BY <1>1, <1>4, <1>8, <2>2
      <3> QED
        BY <1>5, <1>7, <2>2, <3>1
    <2> QED
      BY <2>1, <2>2
  <1> QED
    BY <1>1, <1>7, <1>8, <1>9 DEF Lacks

\* An entry that is removed takes its cost with it.
LEMMA RemovingCosts ==
  ASSUME NEW E, NEW s \in Seq(E), Priced(s), NEW p \in 1..Len(s), NEW r \in Seq(E), Lacks(s, p, r)
  PROVE  Priced(r) /\ TotalCost(s) = TotalCost(r) + s[p].cost
  <1>1. Len(r) = Len(s) - 1 /\ Len(s) \in Nat /\ DOMAIN r = 1..Len(r) /\ Len(r) \in Nat
    BY LenProperties DEF Lacks
  <1>2. ASSUME NEW i \in 1..Len(r) PROVE i \in 1..Len(s) /\ i + 1 \in 1..Len(s)
    BY <1>1
  <1>3. Priced(r)
    BY <1>1, <1>2 DEF Lacks, Priced
  <1>4. PICK c : c = Costs(s) /\ CostsOf(s, c)
    BY CostsDefined
  <1> DEFINE d == [n \in 0..Len(r) |-> IF n < p THEN c[n] ELSE c[n + 1] - s[p].cost]
  <1>5. s[p].cost \in Nat /\ c[p] = c[p - 1] + s[p].cost /\ c \in [0..Len(s) -> Nat]
    BY <1>4 DEF CostsOf, Priced
  <1>6. ASSUME NEW i \in 1..Len(r) PROVE d[i] = d[i - 1] + r[i].cost
    <2>1. i \in 1..Len(s) /\ i + 1 \in 1..Len(s) /\ i - 1 \in 0..Len(r) /\ i \in 0..Len(r) /\ i - 1 \in 0..Len(s)
      BY <1>1
    <2>2. /\ c[i] = c[i - 1] + s[i].cost /\ c[i + 1] = c[i] + s[i + 1].cost
          /\ c[i - 1] \in Nat /\ c[i] \in Nat /\ c[i + 1] \in Nat
          /\ s[i].cost \in Nat /\ s[i + 1].cost \in Nat
      <3>1. (i + 1) - 1 = i /\ i \in 0..Len(s) /\ i + 1 \in 0..Len(s)
        BY <2>1
      <3> QED
        BY <1>4, <2>1, <3>1 DEF CostsOf, Priced
    <2>3. CASE i < p
      <3>1. r[i] = s[i] /\ d[i] = c[i] /\ d[i - 1] = c[i - 1]
        BY <2>1, <2>3 DEF Lacks
      <3> QED
        BY <2>2, <3>1
    <2>4. CASE i = p
      <3>1. r[i] = s[i + 1] /\ d[i] = c[i + 1] - s[p].cost /\ d[i - 1] = c[i - 1]
        BY <2>1, <2>4 DEF Lacks
      <3> QED
        BY <2>2, <2>4, <3>1
    <2>5. CASE i > p
      <3>1. r[i] = s[i + 1] /\ d[i] = c[i + 1] - s[p].cost /\ d[i - 1] = c[i] - s[p].cost
        BY <2>1, <2>5 DEF Lacks
      <3>2. \A x, y, z \in Nat : (x + y) - z = (x - z) + y
        OBVIOUS
      <3>3. (c[i] + s[i + 1].cost) - s[p].cost = (c[i] - s[p].cost) + s[i + 1].cost
        BY <1>5, <2>2, <3>2
      <3> HIDE DEF d
      <3> QED
        BY <2>2, <3>1, <3>3
    <2> QED
      BY <2>3, <2>4, <2>5
  <1>7. d[0] = 0 /\ d \in [0..Len(r) -> Int]
    <2>1. c[0] = 0 /\ \A n \in 0..Len(r) : n \in 0..Len(s) /\ n + 1 \in 0..Len(s)
      BY <1>1, <1>4 DEF CostsOf
    <2> QED
      BY <1>1, <1>5, <2>1
  <1>8. CostsOf(r, d)
    <2> HIDE DEF d
    <2> DEFINE U == {n \in Nat : n <= Len(r) => d[n] \in Nat}
    <2>1. 0 \in U
      BY <1>7
    <2>2. ASSUME NEW n \in Nat, n \in U PROVE n + 1 \in U
      <3> SUFFICES ASSUME n + 1 <= Len(r) PROVE d[n + 1] \in Nat
        OBVIOUS
      <3>1. n + 1 \in 1..Len(r) /\ (n + 1) - 1 = n /\ n <= Len(r)
        BY <1>1
      <3> QED
        BY <1>3, <1>6, <2>2, <3>1 DEF Priced
    <2> HIDE DEF U
    <2>3. Nat \subseteq U
      BY <2>1, <2>2, InductionOverSet
    <2>4. \A n \in 0..Len(r) : d[n] \in Nat
      BY <1>1, <2>3 DEF U
    <2> QED
      BY <1>6, <1>7, <2>4 DEF CostsOf
  <1>9. TotalCost(r) = d[Len(r)]
    BY <1>3, <1>8, TotalOf
  <1>10. TotalCost(s) = c[Len(s)] /\ c[Len(s)] \in Nat
    BY <1>1, <1>4, <1>5, TotalOf
  <1>11. d[Len(r)] = c[Len(s)] - s[p].cost
    <2>1. CASE Len(r) < p
      <3>1. p = Len(s) /\ Len(r) = p - 1 /\ Len(r) \in 0..Len(r) /\ c[p - 1] \in Nat
        BY <1>1, <1>5, <2>1
      <3> QED
        BY <1>5, <2>1, <3>1
    <2>2. CASE ~(Len(r) < p)
      BY <1>1, <2>2
    <2> QED
      BY <2>1, <2>2
  <1> QED
    BY <1>3, <1>5, <1>9, <1>10, <1>11

Leads(e, s, r) ==
    /\ Len(r) = Len(s) + 1 /\ Len(s) \in Nat
    /\ r[1] = e /\ \A i \in 1..Len(s) : r[i + 1] = s[i]

\* An entry that is put in front moves the others by one.
LEMMA Adding ==
  ASSUME NEW E, NEW s \in Seq(E), NEW e \in E, NEW r, r = <<e>> \o s
  PROVE  r \in Seq(E) /\ Leads(e, s, r)
  <1>1. <<e>> \in Seq(E) /\ Len(<<e>>) = 1 /\ <<e>>[1] = e /\ Len(s) \in Nat
    BY LenProperties
  <1>2. /\ r \in Seq(E) /\ Len(r) = 1 + Len(s)
        /\ \A i \in 1..(1 + Len(s)) : r[i] = IF i <= 1 THEN <<e>>[i] ELSE s[i - 1]
    BY <1>1, ConcatProperties
  <1>3. \A i \in 1..Len(s) : i + 1 \in 1..(1 + Len(s)) /\ ~(i + 1 <= 1) /\ (i + 1) - 1 = i
    BY <1>1
  <1>4. r[1] = e
    BY <1>1, <1>2
  <1> QED
    BY <1>1, <1>2, <1>3, <1>4 DEF Leads

\* An entry that is put in front adds its cost.
LEMMA AddingCosts ==
  ASSUME NEW E, NEW s \in Seq(E), Priced(s), NEW e, e.cost \in Nat, NEW r \in Seq(E), Leads(e, s, r)
  PROVE  Priced(r) /\ TotalCost(r) = e.cost + TotalCost(s)
  <1>1. Len(r) = Len(s) + 1 /\ Len(s) \in Nat /\ DOMAIN r = 1..Len(r) /\ Len(r) \in Nat
    BY LenProperties DEF Leads
  <1>2. ASSUME NEW i \in 1..Len(r) PROVE i = 1 \/ (i - 1 \in 1..Len(s) /\ (i - 1) + 1 = i /\ r[i] = s[i - 1])
    <2>1. i = 1 \/ (i - 1 \in 1..Len(s) /\ (i - 1) + 1 = i)
      BY <1>1
    <2> QED
      BY <2>1 DEF Leads
  <1>3. Priced(r)
    BY <1>1, <1>2 DEF Leads, Priced
  <1>4. PICK c : c = Costs(s) /\ CostsOf(s, c)
    BY CostsDefined
  <1> DEFINE d == [n \in 0..Len(r) |-> IF n = 0 THEN 0 ELSE e.cost + c[n - 1]]
  <1>5. d[0] = 0 /\ d \in [0..Len(r) -> Nat]
    <2>1. \A n \in 0..Len(r) : n # 0 => n - 1 \in 0..Len(s)
      BY <1>1
    <2>2. c \in [0..Len(s) -> Nat]
      BY <1>4 DEF CostsOf
    <2> QED
      BY <1>1, <2>1, <2>2
  <1>6. ASSUME NEW i \in 1..Len(r) PROVE d[i] = d[i - 1] + r[i].cost
    <2>1. i \in 0..Len(r) /\ i - 1 \in 0..Len(r)
      BY <1>1
    <2>2. CASE i = 1
      <3>1. d[i] = e.cost + c[0] /\ d[i - 1] = 0 /\ c[0] = 0 /\ r[i] = e
        BY <1>4, <1>5, <2>1, <2>2 DEF CostsOf, Leads
      <3> QED
        BY <3>1
    <2>3. CASE i # 1
      <3>1. i - 1 \in 1..Len(s) /\ r[i] = s[i - 1] /\ (i - 1) - 1 \in 0..Len(s) /\ i - 1 \in 0..Len(s)
        BY <1>1, <1>2, <2>3
      <3>2. /\ c[i - 1] = c[(i - 1) - 1] + s[i - 1].cost
            /\ c[i - 1] \in Nat /\ c[(i - 1) - 1] \in Nat /\ s[i - 1].cost \in Nat
        BY <1>4, <3>1 DEF CostsOf, Priced
      <3>3. d[i] = e.cost + c[i - 1] /\ d[i - 1] = e.cost + c[(i - 1) - 1]
        BY <2>1, <2>3
      <3> QED
        BY <3>1, <3>2, <3>3
    <2> QED
      BY <2>2, <2>3
  <1>7. CostsOf(r, d)
    BY <1>5, <1>6 DEF CostsOf
  <1>8. TotalCost(r) = d[Len(r)] /\ TotalCost(s) = c[Len(s)]
    BY <1>3, <1>4, <1>7, TotalOf
  <1>9. d[Len(r)] = e.cost + c[Len(s)]
    BY <1>1
  <1> QED
    BY <1>3, <1>8, <1>9

Starts(s, r) == Len(r) <= Len(s) /\ \A i \in 1..Len(r) : r[i] = s[i]

\* The first entries of a cache cost what Costs() says.
LEMMA Cutting ==
  ASSUME NEW E, NEW s \in Seq(E), Priced(s), NEW n \in 0..Len(s), NEW r, r = SubSeq(s, 1, n)
  PROVE  r \in Seq(E) /\ Len(r) = n /\ Starts(s, r) /\ Priced(r) /\ TotalCost(r) = Costs(s)[n]
  <1>1. Len(s) \in Nat /\ n \in Nat /\ n <= Len(s) /\ \A i \in 1..n : s[i] \in E
    BY LenProperties, ElementOfSeq
  <1>2. /\ r \in Seq(E) /\ Len(r) = IF 1 <= n THEN n - 1 + 1 ELSE 0
        /\ \A i \in 1..(n - 1 + 1) : r[i] = s[1 + i - 1]
    <2>1. 1 \in Int /\ n \in Int
      OBVIOUS
    <2> QED
      BY <1>1, <2>1, SubSeqProperties
  <1>3. Len(r) = n /\ \A i \in 1..n : r[i] = s[i]
    BY <1>1, <1>2
  <1>4. Priced(r)
    BY <1>1, <1>2, <1>3, LenProperties DEF Priced
  <1>5. PICK c : c = Costs(s) /\ CostsOf(s, c)
    BY CostsDefined
  <1> DEFINE d == [i \in 0..n |-> c[i]]
  <1>6. CostsOf(r, d)
    <2>1. \A i \in 1..n : i \in 1..Len(s) /\ i - 1 \in 0..n /\ i \in 0..n
      BY <1>1
    <2>2. d \in [0..n -> Nat] /\ d[0] = 0
      <3>1. \A i \in 0..n : i \in 0..Len(s)
        BY <1>1
      <3> QED
        BY <1>1, <1>5, <3>1 DEF CostsOf
    <2>3. ASSUME NEW i \in 1..n PROVE d[i] = d[i - 1] + r[i].cost
      BY <1>3, <1>5, <2>1 DEF CostsOf
    <2> QED
      BY <1>3, <2>2, <2>3 DEF CostsOf
  <1>7. TotalCost(r) = d[n]
    BY <1>3, <1>4, <1>6, TotalOf
  <1>8. d[n] = c[n]
    BY <1>1
  <1> QED
    BY <1>1, <1>2, <1>3, <1>4, <1>5, <1>7, <1>8 DEF Starts

\* trim(): a part from the front is left, which costs no more than the maximum.
LEMMA Trimming ==
  ASSUME NEW E, NEW s \in Seq(E), Priced(s), NEW max \in Nat, NEW r, r = Trim(s, max)
  PROVE  r \in Seq(E) /\ Starts(s, r) /\ Priced(r) /\ TotalCost(r) <= max
  <1> DEFINE fits == {n \in 0..Len(s) : Costs(s)[n] <= max}
             n == CHOOSE k \in fits : \A m \in fits : m <= k
  <1>1. CostsOf(s, Costs(s)) /\ Len(s) \in Nat
    BY CostsDefined, LenProperties
  <1>2. fits \in SUBSET (0..Len(s)) /\ 0 \in fits
    BY <1>1 DEF CostsOf
  <1>3. n \in fits
    <2> HIDE DEF fits
    <2>1. \E k \in fits : \A m \in fits : m <= k
      BY <1>1, <1>2, LargestNumber
    <2> QED
      BY <2>1
  <1>4. r = SubSeq(s, 1, n)
    BY DEF Trim
  <1>5. PICK k \in 0..Len(s) : k = n /\ Costs(s)[k] <= max
    BY <1>3
  <1>6. r = SubSeq(s, 1, k)
    BY <1>4, <1>5
  <1> HIDE DEF n, fits
  <1> QED
    BY <1>5, <1>6, Cutting

-----------------------------------------------------------------------------
(* The operations of the cache. *)

\* The entries of r are entries of s, each of them once.
Picks(s, r) ==
    \E h \in [1..Len(r) -> 1..Len(s)] :
        /\ \A i, j \in 1..Len(r) : h[i] = h[j] => i = j
        /\ \A i \in 1..Len(r) : r[i] = s[h[i]]

OneEach(s) == \A i, j \in 1..Len(s) : s[i].key = s[j].key => i = j

\* A cache picks all of its own entries.
LEMMA PicksItself == ASSUME NEW E, NEW s \in Seq(E) PROVE Picks(s, s)
  <1> DEFINE h == [i \in 1..Len(s) |-> i]
  <1>1. h \in [1..Len(s) -> 1..Len(s)]
    OBVIOUS
  <1> QED
    BY <1>1 DEF Picks

\* The front of a choice of entries is a choice of entries.
LEMMA PicksLess ==
  ASSUME NEW E, NEW s \in Seq(E), NEW q \in Seq(E), Picks(s, q), NEW r, Starts(q, r), Len(r) \in Nat
  PROVE  Picks(s, r)
  <1>1. PICK h \in [1..Len(q) -> 1..Len(s)] :
          /\ \A i, j \in 1..Len(q) : h[i] = h[j] => i = j
          /\ \A i \in 1..Len(q) : q[i] = s[h[i]]
    BY DEF Picks
  <1>2. \A i \in 1..Len(r) : i \in 1..Len(q)
    BY LenProperties DEF Starts
  <1> DEFINE g == [i \in 1..Len(r) |-> h[i]]
  <1>3. g \in [1..Len(r) -> 1..Len(s)]
    BY <1>1, <1>2
  <1>4. \A i, j \in 1..Len(r) : g[i] = g[j] => i = j
    BY <1>1, <1>2
  <1>5. \A i \in 1..Len(r) : r[i] = s[g[i]]
    BY <1>1, <1>2 DEF Starts
  <1> QED
    BY <1>3, <1>4, <1>5 DEF Picks

\* A key that is held has an entry.
LEMMA Placed ==
  ASSUME NEW E, NEW s \in Seq(E), NEW key, Holds(s, key)
  PROVE  Place(s, key) \in 1..Len(s) /\ Entry(s, key) = s[Place(s, key)] /\ s[Place(s, key)].key = key
  BY LenProperties DEF Holds, Place, Entry

\* remove(): the entry of the key is gone, the others stay.
LEMMA Removed ==
  ASSUME NEW E, NEW s \in Seq(E), Priced(s), OneEach(s), NEW key, NEW r, r = Without(s, key)
  PROVE  /\ r \in Seq(E) /\ Priced(r) /\ Picks(s, r) /\ TotalCost(r) <= TotalCost(s)
         /\ \A i \in 1..Len(r) : r[i].key # key
  <1>1. CASE ~Holds(s, key)
    <2>1. r = s /\ TotalCost(s) \in Nat
      BY <1>1, TotalIsNumber DEF Without
    <2> QED
      BY <1>1, <2>1, PicksItself, LenProperties DEF Holds
  <1>2. CASE Holds(s, key)
    <2>1. PICK p \in 1..Len(s) : p = Place(s, key) /\ s[p].key = key
      BY <1>2, Placed
    <2>2. r \in Seq(E) /\ Lacks(s, p, r)
      BY <1>2, <2>1, Removing DEF Without
    <2>3. Priced(r) /\ TotalCost(s) = TotalCost(r) + s[p].cost
      BY <2>2, RemovingCosts
    <2>4. TotalCost(r) <= TotalCost(s)
      <3>1. TotalCost(r) \in Nat /\ s[p].cost \in Nat
        BY <2>3, TotalIsNumber DEF Priced
      <3> QED
        BY <2>3, <3>1
    <2>5. Len(r) \in Nat /\ Len(s) \in Nat /\ Len(r) = Len(s) - 1
      BY <2>2, LenProperties DEF Lacks
    <2> DEFINE h == [i \in 1..Len(r) |-> IF i < p THEN i ELSE i + 1]
    <2>6. h \in [1..Len(r) -> 1..Len(s)] /\ \A i \in 1..Len(r) : h[i] # p
      BY <2>5
    <2>7. \A i, j \in 1..Len(r) : h[i] = h[j] => i = j
      BY <2>5
    <2>8. \A i \in 1..Len(r) : r[i] = s[h[i]]
      BY <2>2 DEF Lacks
    <2>9. \A i \in 1..Len(r) : r[i].key # key
      <3> HIDE DEF h
      <3> QED
        BY <2>1, <2>6, <2>8 DEF OneEach
    <2>10. Picks(s, r)
      <3> HIDE DEF h
      <3> QED
        BY <2>6, <2>7, <2>8 DEF Picks
    <2> QED
      BY <2>2, <2>3, <2>4, <2>9, <2>10
  <1> QED
    BY <1>1, <1>2

\* object(): the entries change places, no more.
LEMMA Touched ==
  ASSUME NEW E, NEW s \in Seq(E), Priced(s), NEW key, NEW r, r = Touch(s, key)
  PROVE  r \in Seq(E) /\ Priced(r) /\ Picks(s, r) /\ TotalCost(r) = TotalCost(s)
  <1>1. CASE ~Holds(s, key)
    <2>1. r = s
      BY <1>1 DEF Touch
    <2> QED
      BY <2>1, PicksItself
  <1>2. CASE Holds(s, key)
    <2>1. PICK p \in 1..Len(s) : p = Place(s, key) /\ Entry(s, key) = s[p]
      BY <1>2, Placed
    <2>2. PICK q : q = RemoveAt(s, p)
      OBVIOUS
    <2>3. q \in Seq(E) /\ Lacks(s, p, q)
      BY <2>2, Removing
    <2>4. Priced(q) /\ TotalCost(s) = TotalCost(q) + s[p].cost
      BY <2>3, RemovingCosts
    <2>5. PICK e \in E : e = s[p]
      BY ElementOfSeq
    <2>6. r = <<e>> \o q
      BY <1>2, <2>1, <2>2, <2>5 DEF Touch, Without
    <2>7. r \in Seq(E) /\ Leads(e, q, r)
      BY <2>3, <2>6, Adding
    <2>8. Priced(r) /\ TotalCost(r) = e.cost + TotalCost(q)
      <3>1. e.cost \in Nat
        BY <2>5 DEF Priced
      <3> QED
        BY <2>3, <2>4, <2>7, <3>1, AddingCosts
    <2>9. TotalCost(r) = TotalCost(s)
      <3>1. e.cost \in Nat /\ TotalCost(q) \in Nat
        BY <2>4, <2>5, TotalIsNumber DEF Priced
      <3> QED
        BY <2>4, <2>5, <2>8, <3>1
    <2>10. Len(r) = Len(s) /\ Len(q) = Len(s) - 1 /\ Len(s) \in Nat
      BY <2>3, <2>7 DEF Lacks, Leads
    <2> DEFINE h == [i \in 1..Len(r) |-> IF i = 1 THEN p ELSE IF i - 1 < p THEN i - 1 ELSE i]
    <2>11. h \in [1..Len(r) -> 1..Len(s)]
      BY <2>10
    <2>12. \A i, j \in 1..Len(r) : h[i] = h[j] => i = j
      BY <2>10
    <2>13. ASSUME NEW i \in 1..Len(r) PROVE r[i] = s[h[i]]
      <3>1. CASE i = 1
        BY <2>5, <2>7, <3>1 DEF Leads
      <3>2. CASE i # 1
        <4>1. i - 1 \in 1..Len(q) /\ (i - 1) + 1 = i
          BY <2>10, <3>2
        <4>2. r[i] = q[i - 1]
          BY <2>7, <4>1 DEF Leads
        <4>3. q[i - 1] = IF i - 1 < p THEN s[i - 1] ELSE s[i]
          BY <2>3, <4>1 DEF Lacks
        <4> QED
          BY <3>2, <4>2, <4>3
      <3> QED
        BY <3>1, <3>2
    <2>14. Picks(s, r)
      <3> HIDE DEF h
      <3> QED
        BY <2>11, <2>12, <2>13 DEF Picks
    <2> QED
      BY <2>7, <2>8, <2>9, <2>14
  <1> QED
    BY <1>1, <1>2

\* insert(): the new entry and some of the others, none of its key.
LEMMA Inserted ==
  ASSUME NEW E, NEW s \in Seq(E), Priced(s), OneEach(s), NEW e \in E, e.cost \in Nat,
         NEW max \in Nat, TotalCost(s) <= max, NEW r, r = Insert(s, e, max)
  PROVE  /\ r \in Seq(E) /\ Priced(r) /\ TotalCost(r) <= max
         /\ \/ Picks(s, r)
            \/ \E q \in Seq(E) : Leads(e, q, r) /\ Picks(s, q) /\ \A i \in 1..Len(q) : q[i].key # e.key
  <1>1. PICK w : w = Without(s, e.key)
    OBVIOUS
  <1>2. /\ w \in Seq(E) /\ Priced(w) /\ Picks(s, w) /\ TotalCost(w) <= TotalCost(s)
        /\ \A i \in 1..Len(w) : w[i].key # e.key
    BY <1>1, Removed
  <1>3. CASE e.cost > max
    <2>1. r = w /\ TotalCost(w) \in Nat /\ TotalCost(s) \in Nat
      BY <1>1, <1>2, <1>3, TotalIsNumber DEF Insert
    <2> QED
      BY <1>2, <2>1
  <1>4. CASE ~(e.cost > max)
    <2>1. PICK rest \in Nat : rest = max - e.cost
      BY <1>4
    <2>2. PICK q : q = Trim(w, rest)
      OBVIOUS
    <2>3. q \in Seq(E) /\ Starts(w, q) /\ Priced(q) /\ TotalCost(q) <= rest
      BY <1>2, <2>2, Trimming
    <2>4. r = <<e>> \o q
      BY <1>1, <1>4, <2>1, <2>2 DEF Insert
    <2>5. r \in Seq(E) /\ Leads(e, q, r)
      BY <2>3, <2>4, Adding
    <2>6. Priced(r) /\ TotalCost(r) = e.cost + TotalCost(q)
      BY <2>3, <2>5, AddingCosts
    <2>7. TotalCost(r) <= max
      <3>1. TotalCost(q) \in Nat
        BY <2>3, TotalIsNumber
      <3> QED
        BY <2>1, <2>3, <2>6, <3>1
    <2>8. Picks(s, q)
      BY <1>2, <2>3, PicksLess, LenProperties
    <2>9. \A i \in 1..Len(q) : q[i].key # e.key
      <3>1. \A i \in 1..Len(q) : i \in 1..Len(w)
        BY <1>2, <2>3, LenProperties DEF Starts
      <3> QED
        BY <1>2, <2>3, <3>1 DEF Starts
    <2> QED
      BY <2>3, <2>5, <2>6, <2>7, <2>8, <2>9
  <1> QED
    BY <1>3, <1>4
=============================================================================
