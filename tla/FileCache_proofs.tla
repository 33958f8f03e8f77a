-------------------------- MODULE FileCache_proofs --------------------------
(***************************************************************************)
(* The safety of the two caches of files, for any number of threads, files,*)
(* changes and calls: IndInv of FileCache is inductive and implies it.     *)
(***************************************************************************)
EXTENDS FileCache, QCache_proofs, FiniteSetTheorems

-----------------------------------------------------------------------------
(* The history of a file. *)

\* A version that was there after a time was there after an earlier one.
LEMMA Earlier ==
  ASSUME TypeOK, NEW f \in DOMAIN past, NEW v, NEW a \in Int, NEW b \in Int, b <= a, ThereAfter(f, v, a)
  PROVE  ThereAfter(f, v, b)
  <1>1. past[f] \in Seq([version : Version, from : 0..MaxClock])
    BY DEF TypeOK
  <1>2. Len(past[f]) \in Nat /\ DOMAIN past[f] = 1..Len(past[f])
    BY <1>1, LenProperties
  <1>3. ASSUME NEW i \in 1..Len(past[f]) PROVE past[f][i].from \in Int
    <2>1. past[f][i] \in [version : Version, from : 0..MaxClock]
      BY <1>1, ElementOfSeq
    <2> QED
      BY <2>1, CacheConstants
  <1>4. \A i \in 1..Len(past[f]) : i < Len(past[f]) => i + 1 \in 1..Len(past[f])
    BY <1>2
  <1>5. ASSUME NEW i \in 1..Len(past[f]), i < Len(past[f]) PROVE past[f][i + 1].from \in Int
    BY <1>3, <1>4, <1>5
  <1> QED
    BY <1>2, <1>5 DEF ThereAfter

\* The present version is there, and will have been there, after any time.
LEMMA CurrentThere ==
  ASSUME TypeOK, NEW f \in DOMAIN past, NEW a
  PROVE  ThereAfter(f, {Current(f)}, a) /\ Current(f) \in Version
  <1>1. past[f] \in Seq([version : Version, from : 0..MaxClock]) /\ Len(past[f]) \in 1..changes + 1
    BY DEF TypeOK
  <1>2. Len(past[f]) \in Nat /\ DOMAIN past[f] = 1..Len(past[f]) /\ Len(past[f]) \in 1..Len(past[f])
    BY <1>1, LenProperties
  <1>3. past[f][Len(past[f])] \in [version : Version, from : 0..MaxClock]
    BY <1>1, <1>2, ElementOfSeq
  <1> QED
    BY <1>2, <1>3 DEF ThereAfter, Current

\* What is read from a file may be of the present version.
LEMMA ReadingThere ==
  ASSUME TypeOK, NEW f \in DOMAIN past, NEW doc \in Readings(f)
  PROVE  doc \in Document /\ \A a : ThereAfter(f, VersionsOf(doc), a)
  <1>1. ASSUME NEW a PROVE ThereAfter(f, {Current(f)}, a) /\ Current(f) \in Version
    BY CurrentThere
  <1>2. {Current(f)} \subseteq VersionsOf(doc) /\ doc \in Document
    BY <1>1 DEF Readings, VersionsOf, Document
  <1>3. ASSUME NEW a PROVE ThereAfter(f, VersionsOf(doc), a)
    BY <1>1, <1>2 DEF ThereAfter
  <1> QED
    BY <1>2, <1>3

\* A document that is empty and not torn is of an empty version.
LEMMA OfEmpty ==
  ASSUME NEW f, NEW doc \in Document, doc \notin Torn, Bytes(doc) = 0, NEW a,
         ThereAfter(f, VersionsOf(doc), a)
  PROVE  ThereAfter(f, Empty, a)
  <1>1. VersionsOf(doc) \subseteq Empty
    BY DEF VersionsOf, Empty, Document, Bytes
  <1> QED
    BY <1>1 DEF ThereAfter

\* A change of a file takes nothing away from what was there after a time that
\* has passed: the new version begins now.
LEMMA StillThere ==
  ASSUME TypeOK, NEW g \in DOMAIN past, ChangeFile(g), NEW f \in DOMAIN past, NEW v,
         NEW a \in Int, a < clock, ThereAfter(f, v, a)
  PROVE  ThereAfter(f, v, a)'
  <1>1. PICK w \in Version : past' = [past EXCEPT ![g] = Append(@, [version |-> w, from |-> clock])]
    BY DEF ChangeFile
  <1>2. CASE f # g
    <2>1. past'[f] = past[f]
      BY <1>1, <1>2
    <2> QED
      BY <2>1 DEF ThereAfter
  <1>3. CASE f = g
    <2>1. PICK s : s = past[f] /\ s \in Seq([version : Version, from : 0..MaxClock])
      BY DEF TypeOK
    <2>2. PICK e : e = [version |-> w, from |-> clock] /\ e \in [version : Version, from : 0..MaxClock]
      <3>1. clock \in 0..MaxClock
        BY DEF TypeOK
      <3>2. [version |-> w, from |-> clock] \in [version : Version, from : 0..MaxClock]
        BY <3>1
      <3> QED
        BY <3>2
    <2>3. past'[f] = Append(s, e)
      BY <1>1, <1>3, <2>1, <2>2
    <2>4. /\ Len(s) \in Nat /\ DOMAIN s = 1..Len(s)
          /\ Len(Append(s, e)) = Len(s) + 1 /\ DOMAIN Append(s, e) = 1..(Len(s) + 1)
          /\ \A i \in 1..Len(s) : Append(s, e)[i] = s[i]
          /\ Append(s, e)[Len(s) + 1] = e
      <3>1. Append(s, e) \in Seq([version : Version, from : 0..MaxClock])
        BY <2>1, <2>2, AppendProperties
      <3> QED
        BY <2>1, <2>2, <3>1, AppendProperties, LenProperties
    <2>5. PICK i \in 1..Len(s) : s[i].version \in v /\ (i < Len(s) => s[i + 1].from > a)
      BY <2>1, <2>4 DEF ThereAfter
    <2>6. PICK q : q = Append(s, e)
      OBVIOUS
    <2>7. i \in 1..Len(q) /\ q[i].version \in v
      BY <2>4, <2>5, <2>6
    <2>8. q[i + 1].from > a
      <3>1. CASE i < Len(s)
        <4>1. i + 1 \in 1..Len(s)
          BY <2>4, <3>1
        <4> QED
          BY <2>4, <2>5, <2>6, <3>1, <4>1
      <3>2. CASE i = Len(s)
        <4>1. q[i + 1] = e /\ e.from = clock
          BY <2>2, <2>4, <2>6, <3>2
        <4>2. clock \in Nat
          BY CacheConstants DEF TypeOK
        <4> QED
          BY <4>1, <4>2
      <3>3. i < Len(s) \/ i = Len(s)
        <4>1. Len(s) \in Nat
          BY <2>4
        <4> QED
          BY <4>1
      <3> QED
        BY <3>1, <3>2, <3>3
    <2> QED
      BY <2>3, <2>4, <2>6, <2>7, <2>8 DEF ThereAfter
  <1> QED
    BY <1>2, <1>3

-----------------------------------------------------------------------------
(* Names. *)

\* getTemplate() has at least one name to try, and its files are on the disk.
LEMMA DistinctNames ==
  ASSUME NEW T, NEW names \in Seq(T), Len(names) > 0
  PROVE  Distinct(names) \in Seq(T) /\ Len(Distinct(names)) > 0
  <1>1. PICK N \in Nat : N = Len(names) /\ N > 0 /\ \A i \in 1..N : names[i] \in T
    BY LenProperties, ElementOfSeq
  <1> DEFINE Seen(n) == \E i \in 1..(n - 1) : names[i] = names[n]
             UpTo(c) == [n \in 0..Len(names) |->
                           IF n = 0 THEN <<>>
                           ELSE IF \E i \in 1..(n - 1) : names[i] = names[n] THEN c[n - 1]
                           ELSE Append(c[n - 1], names[n])]
             F == [n \in 1..N |-> [x \in Seq(T) |-> IF Seen(n) THEN x ELSE Append(x, names[n])]]
  <1>2. \E c : c = UpTo(c)
    <2>1. F \in [1..N -> [Seq(T) -> Seq(T)]]
      BY <1>1, AppendProperties
    <2>2. <<>> \in Seq(T)
      BY EmptySeq
    <2>3. PICK f \in [1..N -> [Seq(T) -> Seq(T)]] : f = F
      BY <2>1
    <2>4. PICK c : Defines(Seq(T), <<>>, N, f, c)
      BY <2>2, Recursion
    <2>5. c \in [0..N -> Seq(T)] /\ c[0] = <<>> /\ \A i \in 1..N : c[i] = f[i][c[i - 1]]
      BY <2>4 DEF Defines
    <2>6. ASSUME NEW n \in 0..N PROVE c[n] = UpTo(c)[n]
      <3>1. CASE n = 0
        BY <1>1, <2>5, <3>1
      <3>2. CASE n # 0
        <4>1. n \in 1..N /\ n - 1 \in 0..N
          BY <3>2
        <4>2. f[n][c[n - 1]] = IF Seen(n) THEN c[n - 1] ELSE Append(c[n - 1], names[n])
          BY <2>3, <2>5, <4>1
        <4>3. UpTo(c)[n] = IF Seen(n) THEN c[n - 1] ELSE Append(c[n - 1], names[n])
          BY <1>1, <3>2
        <4> QED
          BY <2>5, <4>1, <4>2, <4>3
      <3> QED
        BY <3>1, <3>2
    <2>7. DOMAIN UpTo(c) = 0..N /\ DOMAIN c = 0..N
      BY <1>1, <2>5
    <2>8. c = UpTo(c)
      <3>1. c = [n \in 0..N |-> c[n]]
        BY <2>5
      <3>2. UpTo(c) = [n \in 0..N |-> UpTo(c)[n]]
        BY <1>1
      <3> HIDE DEF UpTo
      <3> QED
        BY <2>6, <3>1, <3>2
    <2> QED
      BY <2>8
  <1>3. PICK c : c = UpTo(c) /\ Distinct(names) = c[N]
    <2> DEFINE d == CHOOSE c : c = UpTo(c)
    <2>1. Distinct(names) = d[Len(names)]
      BY DEF Distinct
    <2>2. d = UpTo(d)
      <3> HIDE DEF UpTo
      <3> QED
        BY <1>2
    <2> HIDE DEF d
    <2> QED
      BY <1>1, <2>1, <2>2
  <1>4. c[0] = <<>> /\ \A n \in 1..N : c[n] = IF Seen(n) THEN c[n - 1] ELSE Append(c[n - 1], names[n])
    <2>1. \A n \in 0..N : c[n] = UpTo(c)[n]
      <3> HIDE DEF UpTo
      <3> QED
        BY <1>3
    <2>2. UpTo(c)[0] = <<>>
      BY <1>1
    <2>3. ASSUME NEW n \in 1..N
          PROVE  UpTo(c)[n] = IF Seen(n) THEN c[n - 1] ELSE Append(c[n - 1], names[n])
      BY <1>1
    <2> QED
      BY <1>1, <2>1, <2>2, <2>3
  <1> HIDE DEF Seen
  <1> DEFINE U == {n \in Nat : n <= N => c[n] \in Seq(T) /\ (n > 0 => Len(c[n]) > 0)}
  <1>5. 0 \in U
    BY <1>4, EmptySeq
  <1>6. ASSUME NEW n \in Nat, n \in U PROVE n + 1 \in U
    <2> SUFFICES ASSUME n + 1 <= N PROVE c[n + 1] \in Seq(T) /\ Len(c[n + 1]) > 0
      OBVIOUS
    <2>1. c[n] \in Seq(T) /\ (n > 0 => Len(c[n]) > 0) /\ n + 1 \in 1..N /\ (n + 1) - 1 = n /\ names[n + 1] \in T
      BY <1>1, <1>6
    <2>2. CASE Seen(n + 1)
      <3>1. n # 0
        BY <2>2 DEF Seen
      <3> QED
        BY <1>4, <2>1, <2>2, <3>1
    <2>3. CASE ~Seen(n + 1)
      <3>1. c[n + 1] = Append(c[n], names[n + 1])
        BY <1>4, <2>1, <2>3
      <3>2. Append(c[n], names[n + 1]) \in Seq(T) /\ Len(Append(c[n], names[n + 1])) = Len(c[n]) + 1
        BY <2>1, AppendProperties
      <3>3. Len(c[n]) \in Nat
        BY <2>1, LenProperties
      <3> QED
        BY <3>1, <3>2, <3>3
    <2> QED
      BY <2>2, <2>3
  <1> HIDE DEF U
  <1>7. Nat \subseteq U
    BY <1>5, <1>6, InductionOverSet
  <1>8. N \in U
    BY <1>7
  <1> USE DEF U
  <1>9. c[N] \in Seq(T) /\ (N > 0 => Len(c[N]) > 0)
    <2>1. N <= N => c[N] \in Seq(T) /\ (N > 0 => Len(c[N]) > 0)
      BY <1>8
    <2> QED
      BY <2>1
  <1> HIDE DEF UpTo, U
  <1> QED
    BY <1>1, <1>3, <1>9

\* getTemplate() tries at least one name, and only names there may be files for.
LEMMA TemplateNames ==
  ASSUME NEW b \in TemplateName, NEW l \in Locales
  PROVE  /\ Candidates(b, l) \in Seq(Name) /\ Len(Candidates(b, l)) > 0
         /\ \A i \in DOMAIN Candidates(b, l) : Candidates(b, l)[i] \in OnDisk("TemplateCache")
  <1>1. l \in Seq(STRING \X STRING) /\ DOMAIN l = 1..Len(l) /\ Len(l) \in Nat
    BY CacheConstants, LenProperties
  <1>2. ASSUME NEW i \in 1..Len(l) PROVE l[i][1] \in Word /\ l[i][2] \in Word
    <2>1. Words(l) \subseteq Word
      BY DEF Word
    <2>2. l[i][1] \in Words(l) /\ l[i][2] \in Words(l)
      BY <1>1 DEF Words
    <2> QED
      BY <2>1, <2>2
  <1> DEFINE x == [i \in DOMAIN l |-> File(b, l[i][1], l[i][2])]
             y == [i \in DOMAIN l |-> File(b, l[i][1], "")]
             z == <<Plain(b)>>
  <1>3. /\ \A a, c \in Word : File(b, a, c) \in Name
        /\ \A a \in Word : File(b, a, "") \in Name
        /\ Plain(b) \in Name
    <2>1. "" \in Word
      BY DEF Word
    <2>2. ASSUME NEW a \in Word, NEW c \in Word PROVE File(b, a, c) \in Name
      BY DEF File, Name
    <2> QED
      BY <2>1, <2>2 DEF Plain
  <1>4. x \in Seq(Name) /\ y \in Seq(Name)
    <2>1. x \in [1..Len(l) -> Name] /\ y \in [1..Len(l) -> Name]
      BY <1>1, <1>2, <1>3
    <2> HIDE DEF x, y
    <2>2. PICK n \in Nat : n = Len(l)
      BY <1>1
    <2>3. [1..n -> Name] \subseteq Seq(Name)
      BY SeqDef
    <2> QED
      BY <2>1, <2>2, <2>3
  <1>5. z \in Seq(Name) /\ Len(z) = 1
    <2>1. PICK m \in Name : m = Plain(b)
      BY <1>3
    <2> QED
      BY <2>1
  <1>6. Candidates(b, l) = Distinct(x \o y \o z)
    BY DEF Candidates
  <1> HIDE DEF x, y, z
  <1>7. x \o y \o z \in Seq(Name) /\ Len(x \o y \o z) > 0
    <2>1. x \o y \in Seq(Name)
      BY <1>4, ConcatProperties
    <2>4. PICK v \in Seq(Name) : v = x \o y
      BY <2>1
    <2>2. v \o z \in Seq(Name) /\ Len(v \o z) = Len(v) + 1
      <3>1. PICK w \in Seq(Name) : w = z /\ Len(w) = 1
        BY <1>5
      <3>2. v \o w \in Seq(Name) /\ Len(v \o w) = Len(v) + Len(w)
        BY ConcatProperties
      <3> QED
        BY <3>1, <3>2
    <2>3. Len(x \o y) \in Nat
      BY <2>1, LenProperties
    <2> QED
      BY <2>2, <2>3, <2>4
  <1>8. Candidates(b, l) \in Seq(Name) /\ Len(Candidates(b, l)) > 0
    BY <1>6, <1>7, DistinctNames
  <1> QED
    BY <1>8 DEF OnDisk, FilesOf, Range

-----------------------------------------------------------------------------
(* Entries. *)

\* What TypeOK says of a cache.
CacheOK(s) ==
    /\ s \in Seq(CacheEntry) /\ TotalCost(s) <= MaxCost
    /\ \A i, j \in DOMAIN s : s[i].key = s[j].key \/ s[i].id = s[j].id => i = j

\* Every entry of r is one of s.
From(s, r) == \A i \in DOMAIN r : \E j \in DOMAIN s : r[i] = s[j]

\* A cache is a sequence of priced entries, one for each key.
LEMMA CacheFacts ==
  ASSUME NEW s, CacheOK(s)
  PROVE  /\ DOMAIN s = 1..Len(s) /\ Len(s) \in Nat
         /\ \A i \in 1..Len(s) : s[i] \in CacheEntry /\ s[i].cost \in Nat
         /\ Priced(s) /\ OneEach(s)
  <1>1. DOMAIN s = 1..Len(s) /\ Len(s) \in Nat
    BY LenProperties DEF CacheOK
  <1>2. ASSUME NEW i \in 1..Len(s) PROVE s[i] \in CacheEntry /\ s[i].cost \in Nat
    <2>1. s[i] \in CacheEntry
      BY ElementOfSeq DEF CacheOK
    <2> QED
      BY <2>1 DEF CacheEntry
  <1>3. OneEach(s)
    BY <1>1 DEF OneEach, CacheOK
  <1> QED
    BY <1>1, <1>2, <1>3 DEF Priced

\* A cache of entries of another one, each at most once, is in order, too.
LEMMA PickedOK ==
  ASSUME NEW s, CacheOK(s), NEW r \in Seq(CacheEntry), Picks(s, r), TotalCost(r) <= MaxCost
  PROVE  CacheOK(r) /\ From(s, r)
  <1>1. DOMAIN s = 1..Len(s) /\ DOMAIN r = 1..Len(r)
    BY CacheFacts, LenProperties
  <1>2. PICK h \in [1..Len(r) -> 1..Len(s)] :
          /\ \A i, j \in 1..Len(r) : h[i] = h[j] => i = j
          /\ \A i \in 1..Len(r) : r[i] = s[h[i]]
    BY DEF Picks
  <1>3. ASSUME NEW i \in 1..Len(r), NEW j \in 1..Len(r), r[i].key = r[j].key \/ r[i].id = r[j].id
        PROVE  i = j
    <2>1. s[h[i]].key = s[h[j]].key \/ s[h[i]].id = s[h[j]].id
      BY <1>2, <1>3
    <2>2. h[i] \in DOMAIN s /\ h[j] \in DOMAIN s
      BY <1>1, <1>2
    <2>3. h[i] = h[j]
      BY <2>1, <2>2 DEF CacheOK
    <2> QED
      BY <1>2, <2>3
  <1> QED
    BY <1>1, <1>2, <1>3 DEF CacheOK, From

\* Looking a key up loses no entry.
LEMMA TouchedOK ==
  ASSUME NEW s, CacheOK(s), NEW key, NEW r, r = Touch(s, key)
  PROVE  CacheOK(r) /\ From(s, r)
  <1>1. s \in Seq(CacheEntry) /\ Priced(s)
    BY CacheFacts DEF CacheOK
  <1>2. r \in Seq(CacheEntry) /\ Picks(s, r) /\ TotalCost(r) = TotalCost(s)
    BY <1>1, Touched
  <1>3. TotalCost(r) <= MaxCost
    BY <1>2 DEF CacheOK
  <1> QED
    BY <1>2, <1>3, PickedOK

\* insert() of an entry at an address that no entry has.
LEMMA InsertedOK ==
  ASSUME NEW s, CacheOK(s), NEW e \in CacheEntry, \A i \in DOMAIN s : s[i].id # e.id,
         NEW r, r = Insert(s, e, MaxCost)
  PROVE  CacheOK(r) /\ \A i \in DOMAIN r : r[i] = e \/ \E j \in DOMAIN s : r[i] = s[j]
  <1>1. s \in Seq(CacheEntry) /\ Priced(s) /\ OneEach(s) /\ TotalCost(s) <= MaxCost /\ DOMAIN s = 1..Len(s)
    BY CacheFacts DEF CacheOK
  <1>2. MaxCost \in Nat /\ e.cost \in Nat
    BY CacheConstants DEF CacheEntry
  <1>3. /\ r \in Seq(CacheEntry) /\ Priced(r) /\ TotalCost(r) <= MaxCost
        /\ \/ Picks(s, r)
           \/ \E q \in Seq(CacheEntry) : Leads(e, q, r) /\ Picks(s, q) /\ \A i \in 1..Len(q) : q[i].key # e.key
    BY <1>1, <1>2, Inserted
  <1>4. CASE Picks(s, r)
    BY <1>3, <1>4, PickedOK DEF From
  <1>5. CASE \E q \in Seq(CacheEntry) : Leads(e, q, r) /\ Picks(s, q) /\ \A i \in 1..Len(q) : q[i].key # e.key
    <2>1. PICK q \in Seq(CacheEntry) : Leads(e, q, r) /\ Picks(s, q) /\ \A i \in 1..Len(q) : q[i].key # e.key
      BY <1>5
    <2>2. PICK h \in [1..Len(q) -> 1..Len(s)] :
            /\ \A i, j \in 1..Len(q) : h[i] = h[j] => i = j
            /\ \A i \in 1..Len(q) : q[i] = s[h[i]]
      BY <2>1 DEF Picks
    <2>3. /\ Len(r) = Len(q) + 1 /\ Len(q) \in Nat /\ DOMAIN r = 1..Len(r)
          /\ r[1] = e /\ \A i \in 1..Len(q) : r[i + 1] = q[i]
      BY <1>3, <2>1, LenProperties DEF Leads
    <2>4. ASSUME NEW i \in 1..Len(r) PROVE i = 1 \/ (i - 1 \in 1..Len(q) /\ r[i] = q[i - 1])
      <3>1. i = 1 \/ (i - 1 \in 1..Len(q) /\ (i - 1) + 1 = i)
        BY <2>3
      <3> QED
        BY <2>3, <3>1
    <2>5. ASSUME NEW i \in 1..Len(q) PROVE h[i] \in DOMAIN s /\ q[i] = s[h[i]] /\ q[i].id # e.id /\ q[i].key # e.key
      BY <1>1, <2>1, <2>2
    <2>6. ASSUME NEW i \in 1..Len(r), NEW j \in 1..Len(r), r[i].key = r[j].key \/ r[i].id = r[j].id
          PROVE  i = j
      <3>1. CASE i = 1 \/ j = 1
        <4>1. ASSUME NEW k \in 1..Len(r), k # 1 PROVE r[k].id # r[1].id /\ r[k].key # r[1].key
          <5>1. k - 1 \in 1..Len(q) /\ r[k] = q[k - 1]
            BY <2>4, <4>1
          <5> QED
            BY <2>3, <2>5, <5>1
        <4> QED
          BY <2>6, <3>1, <4>1
      <3>2. CASE i # 1 /\ j # 1
        <4>1. i - 1 \in 1..Len(q) /\ j - 1 \in 1..Len(q) /\ r[i] = q[i - 1] /\ r[j] = q[j - 1]
          BY <2>4, <3>2
        <4>2. h[i - 1] = h[j - 1]
          <5>1. s[h[i - 1]].key = s[h[j - 1]].key \/ s[h[i - 1]].id = s[h[j - 1]].id
            BY <2>5, <2>6, <4>1
          <5>2. h[i - 1] \in DOMAIN s /\ h[j - 1] \in DOMAIN s
            BY <2>5, <4>1
          <5> QED
            BY <5>1, <5>2 DEF CacheOK
        <4>3. i - 1 = j - 1
          BY <2>2, <4>1, <4>2
        <4> QED
          BY <4>3
      <3> QED
        BY <3>1, <3>2
    <2>7. CacheOK(r)
      BY <1>3, <2>3, <2>6 DEF CacheOK
    <2> QED
      BY <2>3, <2>4, <2>5, <2>7
  <1> QED
    BY <1>3, <1>4, <1>5

\* Only finitely many addresses are in use, so that there is another one.
LEMMA AddressFree ==
  ASSUME TypeOK
  PROVE  Address \in Nat \ {0} /\ Address \notin InUse
  <1>1. IsFiniteSet({hold[t].id : t \in Thread})
    <2> DEFINE S == {hold[t].id : t \in Thread}
               f == [t \in Thread |-> hold[t].id]
    <2>1. f \in Surjection(Thread, S)
      BY DEF Surjection
    <2> HIDE DEF S, f
    <2>2. IsFiniteSet(S)
      BY <2>1, CacheConstants, FS_Surjection
    <2> USE DEF S
    <2> QED
      BY <2>2
  <1>2. IsFiniteSet({cache[i].id : i \in DOMAIN cache})
    <2> DEFINE S == {cache[i].id : i \in DOMAIN cache}
               f == [i \in DOMAIN cache |-> cache[i].id]
    <2>1. DOMAIN cache = 1..Len(cache) /\ Len(cache) \in Nat
      BY LenProperties DEF TypeOK
    <2>2. IsFiniteSet(DOMAIN cache)
      BY <2>1, FS_Interval
    <2>3. f \in Surjection(DOMAIN cache, S)
      BY DEF Surjection
    <2> HIDE DEF S, f
    <2>4. IsFiniteSet(S)
      BY <2>2, <2>3, FS_Surjection
    <2> USE DEF S
    <2> QED
      BY <2>4
  <1>3. IsFiniteSet(InUse)
    BY <1>1, <1>2, FS_Union DEF InUse
  <1>4. PICK k \in Nat : k = Cardinality(InUse)
    BY <1>3, FS_CardinalityType
  <1>5. \E id \in 1..k + 1 : id \notin InUse
    <2> SUFFICES ASSUME 1..k + 1 \subseteq InUse PROVE FALSE
      OBVIOUS
    <2>1. Cardinality(1..k + 1) <= Cardinality(InUse)
      BY <1>3, FS_Subset
    <2>2. Cardinality(1..k + 1) = k + 1
      <3>1. 1 \in Int /\ k + 1 \in Int
        OBVIOUS
      <3>2. Cardinality(1..k + 1) = IF 1 > k + 1 THEN 0 ELSE (k + 1) - 1 + 1
        BY <3>1, FS_Interval
      <3> QED
        BY <3>2
    <2> QED
      BY <1>4, <2>1, <2>2
  <1>6. Address \in 1..k + 1 /\ Address \notin InUse
    BY <1>4, <1>5 DEF Address
  <1> QED
    BY <1>6

-----------------------------------------------------------------------------
(* The invariant by its parts: an entry, a thread. *)

EntryOK(e) ==
    /\ e.created <= clock /\ FileOf(e.key) \in DOMAIN past /\ e.filename = FileOf(e.key)
    /\ ThereAfter(FileOf(e.key), VersionsOf(e.doc), e.created - 1)

ThreadOK(t) == CallOK(t) /\ InsertOK(t) /\ MissesOK(t) /\ AnswerOK(t)

\* The types of the clock and of the cache.
LEMMA ClockTypes ==
  ASSUME TypeOK
  PROVE  /\ clock \in Int /\ MaxClock \in Nat /\ CacheTimeout \in Int /\ CacheTimeout >= 0
         /\ CacheOK(cache)
  BY CacheConstants DEF TypeOK, CacheOK

\* The types of what a thread holds.
LEMMA ThreadTypes ==
  ASSUME TypeOK, NEW t \in Thread
  PROVE  /\ now[t] \in Seq(0..MaxClock) /\ DOMAIN now[t] = 1..Len(now[t]) /\ Len(now[t]) \in Nat
         /\ \A i \in 1..Len(now[t]) : now[t][i] \in 0..MaxClock /\ now[t][i] \in Int
         /\ todo[t] \in Seq(Name) /\ DOMAIN todo[t] = 1..Len(todo[t]) /\ Len(todo[t]) \in Nat
         /\ \A i \in 1..Len(todo[t]) : todo[t][i] \in Name
         /\ hold[t] \in [id : Nat, doc : Document, type : Types]
  <1>1. now[t] \in Seq(0..MaxClock) /\ todo[t] \in Seq(Name) /\ hold[t] \in [id : Nat, doc : Document, type : Types]
    BY DEF TypeOK
  <1>2. ASSUME NEW i \in 1..Len(now[t]) PROVE now[t][i] \in 0..MaxClock /\ now[t][i] \in Int
    <2>1. now[t][i] \in 0..MaxClock
      BY <1>1, ElementOfSeq
    <2> QED
      BY <2>1, ClockTypes
  <1>3. \A i \in 1..Len(todo[t]) : todo[t][i] \in Name
    BY <1>1, ElementOfSeq
  <1> QED
    BY <1>1, <1>2, <1>3, LenProperties

\* The names and times that a call in progress looks at are there.
LEMMA Positions ==
  ASSUME TypeOK, NEW t \in Thread, CallOK(t)
  PROVE  /\ pc[t] \in {"search static", "read static", "insert static", "answer static"} =>
              1 \in DOMAIN todo[t] /\ 1 \in DOMAIN now[t] /\ Len(now[t]) = 1
         /\ pc[t] \in {"search template", "return document"} =>
              Len(now[t]) \in DOMAIN now[t] /\ Len(now[t]) \in DOMAIN todo[t]
         /\ pc[t] \in {"try", "search template", "return document"} =>
              \A i \in DOMAIN now[t] : i \in DOMAIN todo[t]
  <1>1. PICK n \in Nat : n = Len(now[t]) /\ DOMAIN now[t] = 1..n
    BY ThreadTypes
  <1>2. PICK m \in Nat : m = Len(todo[t]) /\ DOMAIN todo[t] = 1..m
    BY ThreadTypes
  <1>3. /\ pc[t] \in {"search static", "read static", "insert static", "answer static"} => n = 1 /\ m = 1
        /\ pc[t] = "try" => n < m
        /\ pc[t] \in {"search template", "return document"} => n \in 1..m
    BY <1>1, <1>2 DEF CallOK, Static
  <1>4. ASSUME pc[t] \in {"search static", "read static", "insert static", "answer static"}
        PROVE  1 \in 1..m /\ 1 \in 1..n /\ n = 1
    <2>1. n = 1 /\ m = 1
      BY <1>3, <1>4
    <2> QED
      BY <2>1
  <1>5. ASSUME pc[t] \in {"search template", "return document"}
        PROVE  n \in 1..n /\ n \in 1..m
    <2>1. n \in 1..m
      BY <1>3, <1>5
    <2> QED
      BY <2>1
  <1>6. ASSUME pc[t] \in {"try", "search template", "return document"}
        PROVE  \A i \in 1..n : i \in 1..m
    <2>1. n < m \/ n \in 1..m
      BY <1>3, <1>6
    <2> QED
      BY <2>1
  <1> QED
    BY <1>1, <1>2, <1>4, <1>5, <1>6

\* What a thread does tells whose cache it is.
LEMMA OwnerOf ==
  ASSUME TypeOK, NEW t \in Thread
  PROVE  /\ pc[t] \in Static \/ pc[t] \in Template
         /\ pc[t] \in {"search static", "read static", "insert static", "answer static"} =>
              owner = "StaticFileController"
         /\ pc[t] \in {"try", "search template", "return document"} => owner = "TemplateCache"
  <1>1. pc[t] \in IF owner = "StaticFileController" THEN Static ELSE Template
    BY DEF TypeOK
  <1>2. owner = "StaticFileController" \/ owner = "TemplateCache"
    BY DEF TypeOK, Owner
  <1> QED
    BY <1>1, <1>2 DEF Static, Template

\* The entries of a cache that is as good as the present one.
LEMMA EntriesKept ==
  ASSUME TypeOK, UNCHANGED <<past, owner>>, clock' \in Int, clock' >= clock,
         NEW c \in Seq(CacheEntry), c = cache', \A i \in DOMAIN c : EntryOK(c[i])
  PROVE  EntriesOK' /\ EntriesHonest'
  <1>1. ASSUME NEW i \in DOMAIN c PROVE c[i].created \in Int
    <2>1. c[i] \in CacheEntry
      BY LenProperties, ElementOfSeq
    <2> QED
      BY <2>1, ClockTypes DEF CacheEntry
  <1>2. clock \in Int
    BY ClockTypes
  <1>3. ASSUME NEW i \in DOMAIN c
        PROVE  /\ c[i].created <= clock' /\ FileOf(c[i].key)' \in DOMAIN past'
               /\ c[i].filename = FileOf(c[i].key)'
               /\ ThereAfter(FileOf(c[i].key), VersionsOf(c[i].doc), c[i].created - 1)'
    <2>1. EntryOK(c[i])
      OBVIOUS
    <2>2. FileOf(c[i].key)' = FileOf(c[i].key)
      BY DEF FileOf
    <2>3. c[i].created <= clock'
      BY <1>1, <1>2, <2>1 DEF EntryOK
    <2> QED
      BY <2>1, <2>2, <2>3 DEF EntryOK, ThereAfter
  <1> QED
    BY <1>3 DEF EntriesOK, EntriesHonest

\* A thread that does nothing while no file changes.
Same(t) ==
    /\ pc'[t] = pc[t] /\ now'[t] = now[t] /\ todo'[t] = todo[t] /\ hold'[t] = hold[t]
    /\ t \in spoiled' <=> t \in spoiled

\* A thread that does nothing stays right while time passes.
LEMMA ThreadKept ==
  ASSUME TypeOK, NEW t \in Thread, ThreadOK(t), Same(t), UNCHANGED <<past, owner>>, clock' \in Int, clock' >= clock
  PROVE  ThreadOK(t)'
  <1>1. \A n : FileOf(n)' = FileOf(n)
    BY DEF FileOf
  <1>2. \A f, v, a : ThereAfter(f, v, a)' <=> ThereAfter(f, v, a)
    BY DEF ThereAfter
  <1>3. CallOK(t)'
    <2>1. \A i \in DOMAIN now[t] : now[t][i] <= clock'
      <3>1. \A i \in DOMAIN now[t] : now[t][i] <= clock
        BY DEF ThreadOK, CallOK
      <3>2. \A i \in DOMAIN now[t] : now[t][i] \in Int
        BY ThreadTypes
      <3>3. clock \in Int
        BY ClockTypes
      <3> QED
        BY <3>1, <3>2, <3>3
    <2> QED
      BY <1>1, <2>1 DEF Same, ThreadOK, CallOK
  <1>4. InsertOK(t)'
    BY <1>1, <1>2 DEF Same, ThreadOK, InsertOK
  <1>5. MissesOK(t)'
    BY <1>1, <1>2 DEF Same, ThreadOK, MissesOK
  <1>6. AnswerOK(t)'
    BY <1>1, <1>2 DEF Same, ThreadOK, AnswerOK
  <1> QED
    BY <1>3, <1>4, <1>5, <1>6 DEF ThreadOK

\* A step of one thread.
LEMMA StepOfThread ==
  ASSUME IndInv, NEW t \in Thread, UNCHANGED <<clock, past, owner>>,
         \A u \in Thread \ {t} : Same(u),
         TypeOK', EntriesOK', EntriesHonest', ThreadOK(t)'
  PROVE  IndInv'
  <1>1. clock' \in Int /\ clock' >= clock
    BY ClockTypes DEF IndInv
  <1>2. ASSUME NEW u \in Thread PROVE ThreadOK(u)'
    <2>1. ThreadOK(u)
      BY DEF IndInv, ThreadOK
    <2> QED
      BY <1>1, <2>1, ThreadKept DEF IndInv
  <1> QED
    BY <1>2 DEF IndInv, ThreadOK

\* As far as the cache stays as it is.
LEMMA EntriesSame ==
  ASSUME IndInv, UNCHANGED <<past, owner, cache>>, clock' \in Int, clock' >= clock
  PROVE  EntriesOK' /\ EntriesHonest'
  <1>1. PICK c \in Seq(CacheEntry) : c = cache'
    BY DEF IndInv, TypeOK
  <1>2. \A i \in DOMAIN c : EntryOK(c[i])
    BY <1>1 DEF IndInv, EntriesOK, EntriesHonest, EntryOK
  <1> QED
    BY <1>1, <1>2, EntriesKept DEF IndInv

-----------------------------------------------------------------------------
(* The steps. *)

\* The invariant holds when the server starts.
LEMMA InitOK == Init => IndInv
  <1> SUFFICES ASSUME Init PROVE IndInv
    OBVIOUS
  <1>1. /\ clock = 0 /\ owner \in Owner /\ cache = <<>> /\ changes = 0 /\ calls = 0 /\ spoiled = {}
        /\ past \in [OnDisk(owner) -> {<<[version |-> v, from |-> 0]>> : v \in 0..1}]
        /\ pc = [t \in Thread |-> "idle"]
        /\ now = [t \in Thread |-> <<>>]
        /\ todo = [t \in Thread |-> <<>>]
        /\ hold = [t \in Thread |-> Nothing]
    BY DEF Init
  <1>2. Nothing \in [id : Nat, doc : Document, type : Types] /\ Nothing.id = 0
    BY CacheConstants DEF Nothing, Holding, Document, Version, Types
  <1>3. /\ past \in [OnDisk(owner) -> Seq([version : Version, from : 0..MaxClock])]
        /\ \A f \in DOMAIN past : Len(past[f]) \in 1..changes + 1
    <2>1. ASSUME NEW f \in OnDisk(owner)
          PROVE  past[f] \in Seq([version : Version, from : 0..MaxClock]) /\ Len(past[f]) = 1
      <3>1. PICK v \in 0..1 : past[f] = <<[version |-> v, from |-> 0]>>
        BY <1>1
      <3>2. v \in Version /\ 0 \in 0..MaxClock
        BY CacheConstants DEF Version
      <3>3. PICK r \in [version : Version, from : 0..MaxClock] : r = [version |-> v, from |-> 0]
        BY <3>2
      <3> QED
        BY <3>1, <3>3
    <2>2. 1 \in 1..changes + 1
      BY <1>1
    <2>3. DOMAIN past = OnDisk(owner) /\ past = [f \in OnDisk(owner) |-> past[f]]
      BY <1>1
    <2> QED
      BY <2>1, <2>2, <2>3
  <1>4. cache \in Seq(CacheEntry) /\ TotalCost(cache) <= MaxCost /\ DOMAIN cache = {}
    <2>1. cache \in Seq(CacheEntry) /\ Len(cache) = 0 /\ DOMAIN cache = {}
      BY <1>1, EmptySeq
    <2>2. CostsOf(cache, [n \in 0..0 |-> 0]) /\ Priced(cache)
      <3>1. Len(<<>>) = 0 /\ DOMAIN <<>> = 1..0
        OBVIOUS
      <3> QED
        BY <1>1, <3>1 DEF CostsOf, Priced
    <2>3. TotalCost(cache) = 0
      BY <2>1, <2>2, TotalOf
    <2> QED
      BY <2>1, <2>3, CacheConstants
  <1>5. /\ <<>> \in Seq(0..MaxClock) /\ <<>> \in Seq(Name)
        /\ "idle" \in Static /\ "idle" \in Template
    BY EmptySeq DEF Static, Template
  <1>6. TypeOK
    <2>1. clock \in 0..MaxClock /\ calls \in 0..MaxCalls /\ changes \in 0..MaxChanges
      BY <1>1, CacheConstants
    <2>2. pc \in [Thread -> IF owner = "StaticFileController" THEN Static ELSE Template]
      BY <1>1, <1>5
    <2>3. /\ now \in [Thread -> Seq(0..MaxClock)] /\ todo \in [Thread -> Seq(Name)]
          /\ hold \in [Thread -> [id : Nat, doc : Document, type : Types]]
      BY <1>1, <1>2, <1>5
    <2> QED
      BY <1>1, <1>3, <1>4, <2>1, <2>2, <2>3 DEF TypeOK
  <1>7. EntriesOK /\ EntriesHonest
    BY <1>4 DEF EntriesOK, EntriesHonest
  <1>8. ASSUME NEW t \in Thread PROVE ThreadOK(t)
    <2>1. /\ pc[t] = "idle" /\ now[t] = <<>> /\ todo[t] = <<>> /\ hold[t] = Nothing /\ t \notin spoiled
          /\ DOMAIN now[t] = {} /\ DOMAIN todo[t] = {}
      BY <1>1
    <2> QED
      BY <1>2, <2>1 DEF ThreadOK, CallOK, InsertOK, MissesOK, AnswerOK, Static
  <1> QED
    BY <1>6, <1>7, <1>8 DEF IndInv, ThreadOK

\* Time passes.
LEMMA TickKeeps == IndInv /\ Tick => IndInv'
  <1> SUFFICES ASSUME IndInv, Tick PROVE IndInv'
    OBVIOUS
  <1>1. TypeOK /\ UNCHANGED <<past, changes, owner, cache, pc, now, todo, hold, spoiled, calls>>
    BY DEF IndInv, Tick, disk, local
  <1>2. clock' \in 0..MaxClock /\ clock' >= clock /\ clock' \in Int
    BY CacheConstants DEF IndInv, TypeOK, Tick
  <1>3. TypeOK'
    BY <1>1, <1>2 DEF TypeOK
  <1>4. EntriesOK' /\ EntriesHonest'
    BY <1>1, <1>2, EntriesSame
  <1>5. ASSUME NEW u \in Thread PROVE ThreadOK(u)'
    <2>1. ThreadOK(u) /\ Same(u)
      BY <1>1 DEF IndInv, ThreadOK, Same
    <2> QED
      BY <1>1, <1>2, <2>1, ThreadKept
  <1> QED
    BY <1>3, <1>4, <1>5 DEF IndInv, ThreadOK

\* A file changes: its old versions and their times remain in the past.
LEMMA ChangeKeeps == ASSUME IndInv, NEW g \in DOMAIN past, ChangeFile(g) PROVE IndInv'
  <1>1. TypeOK /\ UNCHANGED <<clock, owner, cache, pc, now, todo, hold, spoiled, calls>>
    BY DEF IndInv, ChangeFile, local
  <1>2. \A n : FileOf(n)' = FileOf(n)
    BY <1>1 DEF FileOf
  <1>3. PICK w \in Version : past' = [past EXCEPT ![g] = Append(@, [version |-> w, from |-> clock])]
    BY DEF ChangeFile
  <1>4. DOMAIN past' = DOMAIN past
    BY <1>3
  <1>5. TypeOK'
    <2> DEFINE Record == [version : Version, from : 0..MaxClock]
    <2>1. PICK e \in Record : e = [version |-> w, from |-> clock]
      <3>1. clock \in 0..MaxClock
        BY <1>1 DEF TypeOK
      <3>2. [version |-> w, from |-> clock] \in Record
        BY <3>1
      <3> QED
        BY <3>2
    <2> HIDE DEF Record
    <2>2. past \in [OnDisk(owner) -> Seq(Record)] /\ \A f \in DOMAIN past : Len(past[f]) \in 1..changes + 1
      BY <1>1 DEF TypeOK, Record
    <2>3. PICK s \in Seq(Record) : s = past[g]
      BY <2>2
    <2>4. Append(s, e) \in Seq(Record) /\ Len(Append(s, e)) = Len(s) + 1
      BY AppendProperties
    <2>5. past' = [past EXCEPT ![g] = Append(s, e)]
      BY <1>3, <2>1, <2>3
    <2>6. past' \in [OnDisk(owner) -> Seq(Record)]
      BY <2>2, <2>4, <2>5
    <2>7. changes' = changes + 1 /\ changes < MaxChanges /\ changes \in Nat /\ MaxChanges \in Nat
      BY <1>1, CacheConstants DEF ChangeFile, TypeOK
    <2>8. ASSUME NEW f \in DOMAIN past PROVE Len(past'[f]) \in 1..changes' + 1
      <3>1. Len(past[f]) \in 1..changes + 1
        BY <2>2
      <3>2. CASE f = g
        <4>1. Len(past'[f]) = Len(past[f]) + 1
          BY <2>2, <2>3, <2>4, <2>5, <3>2
        <4> QED
          BY <2>7, <3>1, <4>1
      <3>3. CASE f # g
        <4>1. past'[f] = past[f]
          BY <2>5, <3>3
        <4>2. Len(past'[f]) = Len(past[f])
          BY <4>1
        <4> QED
          BY <2>7, <3>1, <4>2
      <3> QED
        BY <3>2, <3>3
    <2>9. OnDisk(owner)' = OnDisk(owner) /\ changes' \in 0..MaxChanges
      BY <1>1, <2>7 DEF OnDisk
    <2> QED
      BY <1>1, <1>4, <2>6, <2>8, <2>9 DEF TypeOK, Record
  <1>6. ASSUME NEW f \in DOMAIN past, NEW v, NEW a \in Int, a < clock, ThereAfter(f, v, a)
        PROVE  ThereAfter(f, v, a)'
    BY <1>1, <1>6, StillThere
  <1>7. clock \in Int /\ CacheTimeout \in Int
    BY <1>1, ClockTypes
  <1>8. EntriesOK' /\ EntriesHonest'
    <2>1. ASSUME NEW i \in DOMAIN cache
          PROVE  /\ ThereAfter(FileOf(cache[i].key), VersionsOf(cache[i].doc), cache[i].created - 1)'
                 /\ cache[i].created <= clock /\ FileOf(cache[i].key) \in DOMAIN past
                 /\ cache[i].filename = FileOf(cache[i].key)
      <3>1. /\ ThereAfter(FileOf(cache[i].key), VersionsOf(cache[i].doc), cache[i].created - 1)
            /\ cache[i].created <= clock /\ FileOf(cache[i].key) \in DOMAIN past
            /\ cache[i].filename = FileOf(cache[i].key)
        BY DEF IndInv, EntriesOK, EntriesHonest
      <3>2. PICK e \in CacheEntry : e = cache[i]
        BY <1>1, ClockTypes, CacheFacts
      <3>3. e.created \in Int
        BY <1>1, ClockTypes DEF CacheEntry
      <3>4. PICK f \in DOMAIN past : f = FileOf(e.key)
        BY <3>1, <3>2
      <3>5. PICK a \in Int : a = e.created - 1 /\ a < clock
        BY <1>7, <3>1, <3>2, <3>3
      <3>6. PICK v : v = VersionsOf(e.doc)
        OBVIOUS
      <3>7. ThereAfter(f, v, a)'
        BY <1>6, <3>1, <3>2, <3>4, <3>5, <3>6
      <3>8. cache'[i] = e /\ FileOf(e.key)' = f
        BY <1>1, <1>2, <3>2, <3>4
      <3> QED
        BY <1>1, <3>1, <3>2, <3>5, <3>6, <3>7, <3>8
    <2> QED
      BY <1>1, <1>2, <1>4, <2>1 DEF EntriesOK, EntriesHonest
  <1>9. ASSUME NEW t \in Thread PROVE ThreadOK(t)'
    <2>1. /\ CallOK(t) /\ InsertOK(t) /\ MissesOK(t) /\ AnswerOK(t)
          /\ \A i \in DOMAIN todo[t] : FileOf(todo[t][i]) \in DOMAIN past
          /\ \A i \in DOMAIN now[t] : now[t][i] <= clock /\ now[t][i] \in Int
      BY <1>1, ThreadTypes DEF IndInv, CallOK
    <2>2. ASSUME NEW i \in DOMAIN todo[t], NEW k \in DOMAIN now[t], NEW v, NEW d \in Int, d > 0,
                 ThereAfter(FileOf(todo[t][i]), v, now[t][k] - d)
          PROVE  ThereAfter(FileOf(todo[t][i]), v, now[t][k] - d)'
      <3>1. PICK f \in DOMAIN past : f = FileOf(todo[t][i])
        BY <2>1
      <3>2. PICK a \in Int : a = now[t][k] - d /\ a < clock
        BY <1>7, <2>1, <2>2
      <3>3. ThereAfter(f, v, a)'
        BY <1>6, <2>2, <3>1, <3>2
      <3>4. FileOf(todo[t][i])' = f /\ (now[t][k] - d)' = a
        BY <1>1, <1>2, <3>1, <3>2
      <3> QED
        BY <3>3, <3>4
    <2>3. CallOK(t)'
      BY <1>1, <1>2, <1>4, <2>1 DEF CallOK
    <2>4. pc[t] \in {"insert static", "answer static"} =>
              1 \in DOMAIN todo[t] /\ 1 \in DOMAIN now[t] /\ Len(now[t]) = 1
      BY <1>1, <2>1, Positions
    <2>5. pc[t] = "return document" => Len(now[t]) \in DOMAIN now[t] /\ Len(now[t]) \in DOMAIN todo[t]
      BY <1>1, <2>1, Positions
    <2>6. pc[t] \in {"try", "search template", "return document"} => \A i \in DOMAIN now[t] : i \in DOMAIN todo[t]
      BY <1>1, <2>1, Positions
    <2>7. InsertOK(t)'
      <3>1. CASE pc[t] = "insert static"
        <4>1. hold[t].type = ContentType(FileOf(todo[t][1])) /\ ThereAfter(FileOf(todo[t][1]), VersionsOf(hold[t].doc), now[t][1] - 1)
          BY <2>1, <3>1 DEF InsertOK
        <4>2. ThereAfter(FileOf(todo[t][1]), VersionsOf(hold[t].doc), now[t][1] - 1)'
          <5>1. 1 \in DOMAIN todo[t] /\ 1 \in DOMAIN now[t]
            BY <2>4, <3>1
          <5>2. PICK v : v = VersionsOf(hold[t].doc)
            OBVIOUS
          <5>3. ThereAfter(FileOf(todo[t][1]), v, now[t][1] - 1)'
            BY <2>2, <4>1, <5>1, <5>2
          <5>4. VersionsOf(hold[t].doc)' = v
            BY <1>1, <5>2
          <5> QED
            BY <5>3, <5>4
        <4>3. FileOf(todo[t][1])' = FileOf(todo[t][1])
          BY <1>1, <1>2
        <4> QED
          BY <1>1, <4>1, <4>2, <4>3 DEF InsertOK
      <3>2. CASE pc[t] # "insert static"
        BY <1>1, <3>2 DEF InsertOK
      <3> QED
        BY <3>1, <3>2
    <2>8. MissesOK(t)'
      <3> SUFFICES ASSUME CacheTimeout > 0, t \notin spoiled, pc[t] \in {"try", "search template", "return document"},
                          NEW i \in DOMAIN now[t], i < Len(now[t]) \/ pc[t] = "try"
                   PROVE  ThereAfter(FileOf(todo[t][i]), Empty, now[t][i] - CacheTimeout)'
        BY <1>1 DEF MissesOK
      <3>1. ThereAfter(FileOf(todo[t][i]), Empty, now[t][i] - CacheTimeout)
        BY <2>1 DEF MissesOK
      <3> QED
        BY <1>7, <2>2, <2>6, <3>1
    <2>9. AnswerOK(t)'
      <3> SUFFICES ASSUME CacheTimeout > 0, t \notin spoiled, pc[t] \in {"answer static", "return document"}
                   PROVE  AnswerOK(t)'
        BY <1>1 DEF AnswerOK
      <3>1. PICK k : k = Len(now[t]) /\ k \in DOMAIN now[t] /\ k \in DOMAIN todo[t]
        BY <2>4, <2>5
      <3>2. PICK v : v = VersionsOf(hold[t].doc)
        OBVIOUS
      <3>3. /\ ThereAfter(FileOf(todo[t][k]), v, now[t][k] - CacheTimeout)
            /\ pc[t] = "answer static" /\ hold[t].doc # 0 => hold[t].type = ContentType(FileOf(todo[t][1]))
        BY <2>1, <3>1, <3>2 DEF AnswerOK
      <3>4. ThereAfter(FileOf(todo[t][k]), v, now[t][k] - CacheTimeout)'
        BY <1>7, <2>2, <3>1, <3>3
      <3>5. FileOf(todo[t][1])' = FileOf(todo[t][1]) /\ k = Len(now'[t]) /\ v = VersionsOf(hold'[t].doc)
        BY <1>1, <1>2, <3>1, <3>2
      <3> QED
        BY <1>1, <3>3, <3>4, <3>5 DEF AnswerOK
    <2> QED
      BY <2>3, <2>7, <2>8, <2>9 DEF ThreadOK
  <1> QED
    BY <1>5, <1>8, <1>9 DEF IndInv, ThreadOK

-----------------------------------------------------------------------------
(* A thread goes to p with the times n, the names d and the document h.    *)

Goes(t, p, n, d, h) ==
    /\ pc' = [pc EXCEPT ![t] = p] /\ now' = [now EXCEPT ![t] = n]
    /\ todo' = [todo EXCEPT ![t] = d] /\ hold' = [hold EXCEPT ![t] = h]

Location == IF owner = "StaticFileController" THEN Static ELSE Template

\* A thread that goes where its cache's threads may go, and leaves a cache in
\* order, leaves everything in order, if it is in order itself.
LEMMA OneGoes ==
  ASSUME IndInv, NEW t \in Thread,
         NEW p \in Location, NEW n \in Seq(0..MaxClock), NEW d \in Seq(Name),
         NEW h \in [id : Nat, doc : Document, type : Types],
         Goes(t, p, n, d, h), UNCHANGED <<clock, past, changes, owner>>, calls' \in 0..MaxCalls,
         spoiled' \subseteq Thread, \A u \in Thread \ {t} : (u \in spoiled' <=> u \in spoiled),
         NEW c, c = cache', CacheOK(c), \A i \in DOMAIN c : EntryOK(c[i])
  PROVE  /\ ThreadOK(t)' => IndInv'
         /\ pc'[t] = p /\ now'[t] = n /\ todo'[t] = d /\ hold'[t] = h
         /\ \A name : FileOf(name)' = FileOf(name)
         /\ \A f, v, a : ThereAfter(f, v, a)' <=> ThereAfter(f, v, a)
  <1>1. TypeOK
    BY DEF IndInv
  <1>2. /\ pc \in [Thread -> Location] /\ now \in [Thread -> Seq(0..MaxClock)] /\ todo \in [Thread -> Seq(Name)]
        /\ hold \in [Thread -> [id : Nat, doc : Document, type : Types]]
    BY <1>1 DEF TypeOK, Location
  <1>3. /\ pc' \in [Thread -> Location] /\ now' \in [Thread -> Seq(0..MaxClock)] /\ todo' \in [Thread -> Seq(Name)]
        /\ hold' \in [Thread -> [id : Nat, doc : Document, type : Types]]
        /\ pc'[t] = p /\ now'[t] = n /\ todo'[t] = d /\ hold'[t] = h
    BY <1>2 DEF Goes
  <1>4. ASSUME NEW u \in Thread \ {t} PROVE Same(u)
    <2>1. pc'[u] = pc[u] /\ now'[u] = now[u] /\ todo'[u] = todo[u] /\ hold'[u] = hold[u]
      BY <1>2 DEF Goes
    <2> QED
      BY <2>1 DEF Same
  <1>5. OnDisk(owner)' = OnDisk(owner)
    BY DEF OnDisk
  <1>6. TypeOK'
    BY <1>1, <1>3, <1>5 DEF TypeOK, Location, CacheOK
  <1>7. EntriesOK' /\ EntriesHonest'
    <2>1. c \in Seq(CacheEntry) /\ clock' \in Int /\ clock' >= clock
      BY <1>1, ClockTypes DEF CacheOK
    <2> QED
      BY <1>1, <2>1, EntriesKept
  <1>8. ThreadOK(t)' => IndInv'
    BY <1>4, <1>6, <1>7, StepOfThread
  <1>9. \A name : FileOf(name)' = FileOf(name)
    BY DEF FileOf
  <1>10. \A f, v, a : ThereAfter(f, v, a)' <=> ThereAfter(f, v, a)
    BY DEF ThereAfter
  <1> QED
    BY <1>3, <1>8, <1>9, <1>10

\* What need not change in such a step.
LEMMA Stays ==
  ASSUME IndInv, NEW t \in Thread
  PROVE  /\ now = [now EXCEPT ![t] = now[t]] /\ todo = [todo EXCEPT ![t] = todo[t]]
         /\ hold = [hold EXCEPT ![t] = hold[t]]
         /\ CacheOK(cache) /\ \A i \in DOMAIN cache : EntryOK(cache[i])
         /\ calls \in 0..MaxCalls /\ spoiled \subseteq Thread
  <1>1. TypeOK /\ EntriesOK /\ EntriesHonest
    BY DEF IndInv
  <1>2. /\ now \in [Thread -> Seq(0..MaxClock)] /\ todo \in [Thread -> Seq(Name)]
        /\ hold \in [Thread -> [id : Nat, doc : Document, type : Types]]
    BY <1>1 DEF TypeOK
  <1>3. CacheOK(cache) /\ calls \in 0..MaxCalls /\ spoiled \subseteq Thread
    BY <1>1, ClockTypes DEF TypeOK
  <1>4. \A i \in DOMAIN cache : EntryOK(cache[i])
    BY <1>1 DEF EntriesOK, EntriesHonest, EntryOK
  <1> QED
    BY <1>2, <1>3, <1>4

\* The static files that are asked for have a past.
LEMMA NamesOnDisk ==
  ASSUME TypeOK, NEW b \in StaticName, owner = "StaticFileController"
  PROVE  FileOf(Plain(b)) \in DOMAIN past /\ Plain(b) \in Name
  BY DEF FileOf, OnDisk, TypeOK, Plain, File, Name, Word

\* A sequence of one element.
LEMMA One ==
  ASSUME NEW S, NEW e \in S
  PROVE  <<e>> \in Seq(S) /\ Len(<<e>>) = 1 /\ <<e>>[1] = e /\ DOMAIN <<e>> = 1..1
  OBVIOUS

\* service() begins.
LEMMA BeginStaticKeeps ==
  ASSUME IndInv, NEW t \in Thread, NEW b \in StaticName, BeginStatic(t, Plain(b)) PROVE IndInv'
  <1>1. /\ TypeOK /\ CallOK(t) /\ pc[t] = "idle" /\ owner = "StaticFileController"
        /\ calls < MaxCalls /\ calls' = calls + 1
        /\ UNCHANGED <<clock, past, changes, owner, cache, hold, spoiled>>
    BY DEF IndInv, BeginStatic, disk
  <1>2. FileOf(Plain(b)) \in DOMAIN past /\ Plain(b) \in Name
    BY <1>1, NamesOnDisk
  <1>3. PICK m \in Name : m = Plain(b) /\ FileOf(m) \in DOMAIN past
    BY <1>2
  <1>4. PICK n \in Seq(0..MaxClock) : n = <<clock>> /\ Len(n) = 1 /\ n[1] = clock /\ DOMAIN n = 1..1
    <2>1. clock \in 0..MaxClock
      BY <1>1 DEF TypeOK
    <2>2. PICK k \in 0..MaxClock : k = clock
      BY <2>1
    <2> QED
      BY <2>2, One
  <1>5. PICK d \in Seq(Name) : d = <<Plain(b)>> /\ Len(d) = 1 /\ d[1] = m /\ DOMAIN d = 1..1
    BY <1>3, One
  <1>6. Goes(t, "search static", n, d, hold[t])
    BY <1>1, <1>4, <1>5, Stays DEF BeginStatic, Goes
  <1>7. "search static" \in Location /\ hold[t] \in [id : Nat, doc : Document, type : Types]
    BY <1>1, ThreadTypes DEF Location, Static
  <1>8. calls' \in 0..MaxCalls
    BY <1>1, CacheConstants DEF TypeOK
  <1>9. /\ ThreadOK(t)' => IndInv'
        /\ pc'[t] = "search static" /\ now'[t] = n /\ todo'[t] = d /\ hold'[t] = hold[t]
        /\ \A name : FileOf(name)' = FileOf(name)
    <2>1. CacheOK(cache) /\ (\A i \in DOMAIN cache : EntryOK(cache[i])) /\ spoiled \subseteq Thread
      BY Stays
    <2>2. PICK h \in [id : Nat, doc : Document, type : Types] : h = hold[t]
      BY <1>7
    <2>3. PICK c : c = cache /\ c = cache' /\ CacheOK(c) /\ \A i \in DOMAIN c : EntryOK(c[i])
      BY <1>1, <2>1
    <2>4. spoiled' \subseteq Thread /\ \A u \in Thread \ {t} : (u \in spoiled' <=> u \in spoiled)
      BY <1>1, <2>1
    <2> QED
      BY <1>1, <1>6, <1>7, <1>8, <2>2, <2>3, <2>4, OneGoes
  <1>10. CallOK(t)'
    <2>1. hold[t] = Nothing /\ hold[t].id = 0 /\ t \notin spoiled
      BY <1>1 DEF CallOK, Static
    <2>2. clock \in Int
      BY <1>1, ClockTypes
    <2>3. \A i \in DOMAIN d : FileOf(d[i])' \in DOMAIN past'
      <3>1. FileOf(m)' \in DOMAIN past'
        BY <1>1, <1>3, <1>9
      <3>2. \A i \in DOMAIN d : d[i] = m
        BY <1>5
      <3> QED
        BY <3>1, <3>2
    <2>4. \A i \in DOMAIN n : n[i] <= clock'
      BY <1>1, <1>4, <2>2
    <2> QED
      BY <1>1, <1>4, <1>5, <1>9, <2>1, <2>3, <2>4 DEF CallOK
  <1>11. InsertOK(t)' /\ MissesOK(t)' /\ AnswerOK(t)'
    BY <1>9 DEF InsertOK, MissesOK, AnswerOK
  <1> QED
    BY <1>9, <1>10, <1>11 DEF ThreadOK

\* What the cache answers is recent enough.
LEMMA HitEntry ==
  ASSUME IndInv, NEW key, NEW time \in Int, Hit(key, time)
  PROVE  /\ Entry(cache, key) \in CacheEntry /\ Entry(cache, key).key = key /\ EntryOK(Entry(cache, key))
         /\ CacheTimeout > 0 => ThereAfter(FileOf(key), VersionsOf(Entry(cache, key).doc), time - CacheTimeout)
  <1>1. TypeOK /\ CacheOK(cache) /\ CacheTimeout \in Int
    BY ClockTypes DEF IndInv
  <1>2. cache \in Seq(CacheEntry) /\ Holds(cache, key) /\ Fresh(Entry(cache, key), time)
    BY <1>1 DEF Hit, CacheOK
  <1>3. PICK p \in 1..Len(cache) : Entry(cache, key) = cache[p] /\ cache[p].key = key
    BY <1>2, Placed
  <1>4. PICK e \in CacheEntry : e = Entry(cache, key) /\ e = cache[p]
    BY <1>1, <1>3, CacheFacts
  <1>5. EntryOK(e)
    BY <1>1, <1>3, <1>4, CacheFacts, LenProperties DEF IndInv, EntriesOK, EntriesHonest, EntryOK
  <1>6. CacheTimeout > 0 => ThereAfter(FileOf(key), VersionsOf(e.doc), time - CacheTimeout)
    <2> SUFFICES ASSUME CacheTimeout > 0 PROVE ThereAfter(FileOf(key), VersionsOf(e.doc), time - CacheTimeout)
      OBVIOUS
    <2>1. e.created \in Int
      BY <1>1, ClockTypes DEF CacheEntry
    <2>2. e.created + CacheTimeout > time
      BY <1>2, <1>4 DEF Fresh
    <2>3. time - CacheTimeout <= e.created - 1 /\ time - CacheTimeout \in Int /\ e.created - 1 \in Int
      BY <1>1, <2>1, <2>2
    <2>4. FileOf(key) \in DOMAIN past /\ ThereAfter(FileOf(key), VersionsOf(e.doc), e.created - 1)
      BY <1>3, <1>4, <1>5 DEF EntryOK
    <2> QED
      BY <1>1, <2>3, <2>4, Earlier
  <1> QED
    BY <1>3, <1>4, <1>5, <1>6

\* The head of a sequence of one element.
LEMMA HeadOfOne == ASSUME NEW S, NEW s \in Seq(S), Len(s) = 1 PROVE Head(s) = s[1]
  <1>1. Head(SubSeq(s, 1, Len(s))) = s[1]
    <2>1. 1 \in 1..Len(s) /\ Len(s) \in 1..Len(s)
      OBVIOUS
    <2> QED
      BY <2>1, HeadTailOfSubSeq
  <1> QED
    BY <1>1, SubSeqFull

\* A call of service() has one name and one time.
LEMMA StaticCall ==
  ASSUME IndInv, NEW t \in Thread, pc[t] \in {"search static", "read static", "insert static", "answer static"}
  PROVE  /\ CallOK(t) /\ owner = "StaticFileController"
         /\ todo[t][1] \in Name /\ Head(todo[t]) = todo[t][1] /\ FileOf(todo[t][1]) \in DOMAIN past
         /\ now[t][1] \in 0..MaxClock /\ now[t][1] \in Int /\ now[t][1] <= clock
         /\ hold[t].id = 0 /\ t \notin spoiled /\ Len(now[t]) = 1 /\ Len(todo[t]) = 1
  <1>1. TypeOK /\ CallOK(t)
    BY DEF IndInv
  <1>2. owner = "StaticFileController" /\ 1 \in DOMAIN todo[t] /\ 1 \in DOMAIN now[t] /\ Len(now[t]) = 1
    BY <1>1, OwnerOf, Positions
  <1>3. hold[t].id = 0 /\ t \notin spoiled /\ Len(todo[t]) = 1
    BY <1>1 DEF CallOK, Static
  <1>4. FileOf(todo[t][1]) \in DOMAIN past /\ now[t][1] <= clock
    BY <1>1, <1>2 DEF CallOK
  <1>5. todo[t][1] \in Name /\ now[t][1] \in 0..MaxClock /\ now[t][1] \in Int /\ todo[t] \in Seq(Name)
    BY <1>1, <1>2, ThreadTypes
  <1>6. Head(todo[t]) = todo[t][1]
    BY <1>3, <1>5, HeadOfOne
  <1> QED
    BY <1>1, <1>2, <1>3, <1>4, <1>5, <1>6

\* A call of service() keeps its name and its time.
LEMMA StaticGoesOn ==
  ASSUME IndInv, NEW t \in Thread, pc[t] \in {"search static", "read static", "insert static"},
         UNCHANGED <<clock, past, owner, spoiled>>, now'[t] = now[t], todo'[t] = todo[t],
         pc'[t] \in {"read static", "insert static", "answer static"},
         hold'[t].id = 0, pc'[t] = "read static" => hold'[t] = Nothing
  PROVE  CallOK(t)'
  <1>1. CallOK(t) /\ Len(now[t]) = 1 /\ Len(todo[t]) = 1 /\ t \notin spoiled
    BY StaticCall
  <1>2. \A i \in DOMAIN todo[t] : FileOf(todo[t][i])' \in DOMAIN past'
    BY <1>1 DEF CallOK, FileOf
  <1>3. \A i \in DOMAIN now[t] : now[t][i] <= clock'
    BY <1>1 DEF CallOK
  <1> QED
    BY <1>1, <1>2, <1>3 DEF CallOK

\* The answer of service(): the document and its type.
LEMMA StaticAnswered ==
  ASSUME NEW t \in Thread, NEW key, NEW time \in Int, NEW h,
         todo'[t][1] = key, Len(now'[t]) = 1, now'[t][1] = time, hold'[t] = h,
         \A name : FileOf(name)' = FileOf(name), \A f, v, a : ThereAfter(f, v, a)' <=> ThereAfter(f, v, a),
         CacheTimeout > 0 => ThereAfter(FileOf(key), VersionsOf(h.doc), time - CacheTimeout),
         h.doc # 0 => h.type = ContentType(FileOf(key))
  PROVE  AnswerOK(t)'
  <1>1. PICK d : d = todo'[t] /\ d[1] = key
    OBVIOUS
  <1>2. PICK n : n = now'[t] /\ n[1] = time /\ Len(n) = 1
    OBVIOUS
  <1>3. PICK f : f = FileOf(d[1])' /\ f = FileOf(key)
    BY <1>1
  <1>4. CacheTimeout > 0 => ThereAfter(f, VersionsOf(h.doc), n[1] - CacheTimeout)'
    BY <1>2, <1>3
  <1> QED
    BY <1>1, <1>2, <1>3, <1>4 DEF AnswerOK

\* A hit is copied and answered, a miss goes on to the file.
LEMMA SearchStaticKeeps == ASSUME IndInv, NEW t \in Thread, SearchStatic(t) PROVE IndInv'
  <1>1. /\ TypeOK /\ pc[t] = "search static"
        /\ UNCHANGED <<clock, past, changes, owner, now, todo, calls, spoiled>>
    BY DEF IndInv, SearchStatic, disk
  <1>2. PICK key \in Name : key = todo[t][1] /\ key = Head(todo[t]) /\ FileOf(key) \in DOMAIN past
    BY <1>1, StaticCall
  <1>3. PICK time \in Int : time = now[t][1] /\ time <= clock
    BY <1>1, StaticCall
  <1>4. owner = "StaticFileController" /\ hold[t].id = 0 /\ CallOK(t) /\ t \notin spoiled /\ Len(now[t]) = 1
    BY <1>1, StaticCall
  <1>5. now[t] \in Seq(0..MaxClock) /\ todo[t] \in Seq(Name) /\ hold[t] \in [id : Nat, doc : Document, type : Types]
    BY <1>1, ThreadTypes
  <1>6. PICK c : c = cache' /\ CacheOK(c) /\ \A i \in DOMAIN c : EntryOK(c[i])
    <2>1. PICK c : c = Touch(cache, key)
      OBVIOUS
    <2>2. c = cache'
      BY <1>2, <2>1 DEF SearchStatic
    <2>3. CacheOK(c) /\ From(cache, c)
      BY <2>1, Stays, TouchedOK
    <2>4. \A i \in DOMAIN c : EntryOK(c[i])
      BY <2>3, Stays DEF From
    <2> QED
      BY <2>2, <2>3, <2>4
  <1>7. PICK p, h : Goes(t, p, now[t], todo[t], h)
                    /\ \/ /\ p = "answer static" /\ Hit(key, time) /\ h = CopyDocument(Entry(cache, key))
                       \/ p = "read static" /\ h = hold[t]
    <2>1. CASE Hit(key, time)
      <3>1. hold' = [hold EXCEPT ![t] = CopyDocument(Entry(cache, key))] /\ pc' = [pc EXCEPT ![t] = "answer static"]
        BY <1>2, <1>3, <2>1 DEF SearchStatic
      <3> QED
        BY <1>1, <2>1, <3>1, Stays DEF Goes
    <2>2. CASE ~Hit(key, time)
      <3>1. hold' = hold /\ pc' = [pc EXCEPT ![t] = "read static"]
        BY <1>2, <1>3, <2>2 DEF SearchStatic
      <3> QED
        BY <1>1, <3>1, Stays DEF Goes
    <2> QED
      BY <2>1, <2>2
  <1>8. Hit(key, time) => /\ Entry(cache, key) \in CacheEntry /\ Entry(cache, key).key = key
                          /\ EntryOK(Entry(cache, key))
                          /\ CacheTimeout > 0 => ThereAfter(FileOf(key), VersionsOf(Entry(cache, key).doc), time - CacheTimeout)
    BY HitEntry
  <1>9. p = "answer static" =>
          /\ h.id = 0 /\ h \in [id : Nat, doc : Document, type : Types]
          /\ CacheTimeout > 0 => ThereAfter(FileOf(key), VersionsOf(h.doc), time - CacheTimeout)
          /\ h.type = ContentType(FileOf(key))
    <2> SUFFICES ASSUME p = "answer static"
                 PROVE  /\ h.id = 0 /\ h \in [id : Nat, doc : Document, type : Types]
                        /\ CacheTimeout > 0 => ThereAfter(FileOf(key), VersionsOf(h.doc), time - CacheTimeout)
                        /\ h.type = ContentType(FileOf(key))
      OBVIOUS
    <2>1. Hit(key, time) /\ h = CopyDocument(Entry(cache, key))
      BY <1>7
    <2>2. PICK e \in CacheEntry : e = Entry(cache, key) /\ e.key = key /\ EntryOK(e)
      BY <1>8, <2>1
    <2>3. e.doc \in Document /\ e.filename = FileOf(key)
      BY <2>2 DEF CacheEntry, EntryOK
    <2>4. ContentType(e.filename) \in Types
      BY DEF ContentType, Types
    <2>5. h.id = 0 /\ h.doc = e.doc /\ h.type = ContentType(FileOf(key)) /\ h \in [id : Nat, doc : Document, type : Types]
      BY <2>1, <2>2, <2>3, <2>4 DEF CopyDocument, Holding
    <2> QED
      BY <1>8, <2>1, <2>2, <2>5
  <1>10. p = "read static" => h = Nothing /\ h.id = 0 /\ h \in [id : Nat, doc : Document, type : Types]
    BY <1>1, <1>4, <1>5, <1>7 DEF CallOK
  <1>11. p \in Location /\ h \in [id : Nat, doc : Document, type : Types] /\ p \in {"read static", "answer static"}
    BY <1>4, <1>7, <1>9, <1>10 DEF Location, Static
  <1>12. /\ ThreadOK(t)' => IndInv'
         /\ pc'[t] = p /\ now'[t] = now[t] /\ todo'[t] = todo[t] /\ hold'[t] = h
         /\ \A name : FileOf(name)' = FileOf(name)
         /\ \A f, v, a : ThereAfter(f, v, a)' <=> ThereAfter(f, v, a)
    <2>1. calls' \in 0..MaxCalls /\ spoiled' \subseteq Thread /\ \A u \in Thread \ {t} : (u \in spoiled' <=> u \in spoiled)
      BY <1>1, Stays
    <2>2. PICK n \in Seq(0..MaxClock), d \in Seq(Name) : n = now[t] /\ d = todo[t]
      BY <1>5
    <2> QED
      BY <1>1, <1>5, <1>6, <1>7, <1>11, <2>1, <2>2, OneGoes
  <1>13. CallOK(t)'
    BY <1>1, <1>7, <1>9, <1>10, <1>11, <1>12, StaticGoesOn
  <1>14. InsertOK(t)' /\ MissesOK(t)'
    BY <1>11, <1>12 DEF InsertOK, MissesOK
  <1>15. AnswerOK(t)'
    <2>1. CASE p = "read static"
      BY <1>12, <2>1 DEF AnswerOK
    <2>2. CASE p = "answer static"
      BY <1>2, <1>3, <1>4, <1>9, <1>12, <2>2, StaticAnswered
    <2> QED
      BY <1>11, <2>1, <2>2
  <1> QED
    BY <1>12, <1>13, <1>14, <1>15 DEF ThreadOK

\* The file is read, its document is that of now.
LEMMA ReadStaticKeeps == ASSUME IndInv, NEW t \in Thread, ReadStatic(t) PROVE IndInv'
  <1>1. /\ TypeOK /\ pc[t] = "read static"
        /\ UNCHANGED <<clock, past, changes, owner, cache, now, todo, calls, spoiled>>
    BY DEF IndInv, ReadStatic, disk
  <1>2. PICK key \in Name : key = todo[t][1] /\ key = Head(todo[t]) /\ FileOf(key) \in DOMAIN past
    BY <1>1, StaticCall
  <1>3. PICK time \in Int : time = now[t][1] /\ time <= clock
    BY <1>1, StaticCall
  <1>4. owner = "StaticFileController" /\ Len(now[t]) = 1
    BY <1>1, StaticCall
  <1>5. PICK n \in Seq(0..MaxClock), d \in Seq(Name) : n = now[t] /\ d = todo[t]
    BY <1>1, ThreadTypes
  <1> DEFINE there == Current(FileOf(key)) # 0
  <1>0. PICK doc \in Readings(FileOf(key)) :
           hold' = [hold EXCEPT ![t] = Holding(0, doc, IF there THEN ContentType(FileOf(key)) ELSE "")]
    BY <1>2 DEF ReadStatic
  <1>6. doc \in Document /\ (\A a : ThereAfter(FileOf(key), VersionsOf(doc), a)) /\ (~there => doc = 0)
    BY <1>1, <1>2, ReadingThere DEF Readings
  <1>7. PICK h : h = Holding(0, doc, IF there THEN ContentType(FileOf(key)) ELSE "")
    OBVIOUS
  <1>8. /\ h.id = 0 /\ h.doc = doc /\ (there => h.type = ContentType(FileOf(key)))
        /\ (doc # 0 => h.type = ContentType(FileOf(key)))
        /\ h \in [id : Nat, doc : Document, type : Types]
    <2>1. ContentType(FileOf(key)) \in Types /\ "" \in Types
      BY DEF ContentType, Types
    <2> QED
      BY <1>6, <1>7, <2>1 DEF Holding
  <1>9. PICK p : Goes(t, p, n, d, h) /\ (p = "answer static" \/ (p = "insert static" /\ there))
    <2>1. hold' = [hold EXCEPT ![t] = h]
      BY <1>0, <1>7
    <2>2. \E p : pc' = [pc EXCEPT ![t] = p] /\ (p = "answer static" \/ (p = "insert static" /\ there))
      BY <1>2 DEF ReadStatic
    <2> QED
      BY <1>1, <1>5, <2>1, <2>2, Stays DEF Goes
  <1>10. p \in Location
    BY <1>4, <1>9 DEF Location, Static
  <1>11. /\ ThreadOK(t)' => IndInv'
         /\ pc'[t] = p /\ now'[t] = n /\ todo'[t] = d /\ hold'[t] = h
         /\ \A name : FileOf(name)' = FileOf(name)
         /\ \A f, v, a : ThereAfter(f, v, a)' <=> ThereAfter(f, v, a)
    <2>1. calls' \in 0..MaxCalls /\ spoiled' \subseteq Thread /\ \A u \in Thread \ {t} : (u \in spoiled' <=> u \in spoiled)
      BY <1>1, Stays
    <2>2. PICK c : c = cache' /\ CacheOK(c) /\ \A i \in DOMAIN c : EntryOK(c[i])
      BY <1>1, Stays
    <2> QED
      BY <1>1, <1>8, <1>9, <1>10, <2>1, <2>2, OneGoes
  <1>12. CallOK(t)'
    BY <1>1, <1>5, <1>8, <1>9, <1>11, StaticGoesOn
  <1>13. d[1] = key /\ n[1] = time /\ Len(n) = 1
    BY <1>2, <1>3, <1>4, <1>5
  <1>14. InsertOK(t)'
    <2>1. CASE p = "answer static"
      BY <1>11, <2>1 DEF InsertOK
    <2>2. CASE p = "insert static"
      <3>1. h.type = ContentType(FileOf(key)) /\ ThereAfter(FileOf(key), VersionsOf(h.doc), n[1] - 1)
        BY <1>6, <1>8, <1>9, <2>2
      <3>2. PICK f : f = FileOf(key)
        OBVIOUS
      <3>3. ThereAfter(f, VersionsOf(h.doc), n[1] - 1)' /\ FileOf(d[1])' = f
        BY <1>11, <1>13, <3>1, <3>2
      <3> QED
        BY <1>11, <3>1, <3>2, <3>3 DEF InsertOK
    <2> QED
      BY <1>9, <2>1, <2>2
  <1>15. MissesOK(t)'
    BY <1>9, <1>11 DEF MissesOK
  <1>16. AnswerOK(t)'
    BY <1>6, <1>8, <1>11, <1>13, StaticAnswered
  <1> QED
    BY <1>11, <1>12, <1>14, <1>15, <1>16 DEF ThreadOK

\* Every document has a size.
LEMMA SizeIsNumber == ASSUME NEW doc \in Document PROVE Bytes(doc) \in Nat
  BY CacheConstants DEF Document, Version, Torn, Bytes

\* new CacheEntry() of a name whose file has, or had, the document.
LEMMA EntryMade ==
  ASSUME IndInv, NEW key \in Name, FileOf(key) \in DOMAIN past, NEW doc \in Document,
         NEW time \in Int, time \in 0..MaxClock, time <= clock, ThereAfter(FileOf(key), VersionsOf(doc), time - 1),
         NEW e, e = NewEntry(key, doc, time)
  PROVE  /\ e \in CacheEntry /\ EntryOK(e) /\ e.id = Address
         /\ \A i \in DOMAIN cache : cache[i].id # e.id
         /\ Address \in Nat \ {0}
  <1>1. TypeOK
    BY DEF IndInv
  <1>2. Address \in Nat \ {0} /\ Address \notin InUse
    BY <1>1, AddressFree
  <1>3. e = [key |-> key, filename |-> FileOf(key), id |-> Address, doc |-> doc, created |-> time, cost |-> Bytes(doc)]
    BY DEF NewEntry
  <1>4. FileOf(key) \in Name
    BY DEF FileOf, Opened, Name, File, Word
  <1>5. Bytes(doc) \in Nat
    BY SizeIsNumber
  <1>6. e \in CacheEntry /\ e.id = Address
    BY <1>2, <1>3, <1>4, <1>5 DEF CacheEntry
  <1>7. EntryOK(e)
    BY <1>3 DEF EntryOK
  <1>8. \A i \in DOMAIN cache : cache[i].id # e.id
    BY <1>2, <1>6 DEF InUse
  <1> QED
    BY <1>2, <1>6, <1>7, <1>8

\* The document that was read goes into the cache.
LEMMA InsertStaticKeeps == ASSUME IndInv, NEW t \in Thread, InsertStatic(t) PROVE IndInv'
  <1>1. /\ TypeOK /\ pc[t] = "insert static" /\ InsertOK(t)
        /\ UNCHANGED <<clock, past, changes, owner, now, todo, hold, calls, spoiled>>
    BY DEF IndInv, InsertStatic, disk, local
  <1>2. PICK key \in Name : key = todo[t][1] /\ key = Head(todo[t]) /\ FileOf(key) \in DOMAIN past
    BY <1>1, StaticCall
  <1>3. PICK time \in Int : time = now[t][1] /\ time <= clock /\ time \in 0..MaxClock
    BY <1>1, StaticCall
  <1>4. owner = "StaticFileController" /\ Len(now[t]) = 1 /\ hold[t].id = 0
    BY <1>1, StaticCall
  <1>5. PICK n \in Seq(0..MaxClock), d \in Seq(Name) : n = now[t] /\ d = todo[t]
    BY <1>1, ThreadTypes
  <1>6. PICK h \in [id : Nat, doc : Document, type : Types] : h = hold[t]
    BY <1>1, ThreadTypes
  <1>7. h.type = ContentType(FileOf(key)) /\ ThereAfter(FileOf(key), VersionsOf(h.doc), time - 1)
    BY <1>1, <1>2, <1>3, <1>6 DEF InsertOK
  <1>8. PICK c : c = cache' /\ CacheOK(c) /\ \A i \in DOMAIN c : EntryOK(c[i])
    <2>1. PICK v \in Document : v = h.doc
      OBVIOUS
    <2>2. PICK e : e = NewEntry(key, v, time)
      OBVIOUS
    <2>3. e \in CacheEntry /\ EntryOK(e) /\ \A i \in DOMAIN cache : cache[i].id # e.id
      BY <1>2, <1>3, <1>7, <2>1, <2>2, EntryMade
    <2>4. PICK c : c = Insert(cache, e, MaxCost)
      OBVIOUS
    <2>5. c = cache'
      BY <1>2, <1>3, <1>6, <2>1, <2>2, <2>4 DEF InsertStatic, CreatedAt
    <2>6. CacheOK(c) /\ \A i \in DOMAIN c : c[i] = e \/ \E j \in DOMAIN cache : c[i] = cache[j]
      BY <2>3, <2>4, Stays, InsertedOK
    <2>7. \A i \in DOMAIN c : EntryOK(c[i])
      BY <2>3, <2>6, Stays
    <2> QED
      BY <2>5, <2>6, <2>7
  <1>9. Goes(t, "answer static", n, d, h)
    BY <1>1, <1>5, <1>6, Stays DEF InsertStatic, Goes
  <1>10. "answer static" \in Location
    BY <1>4 DEF Location, Static
  <1>11. /\ ThreadOK(t)' => IndInv'
         /\ pc'[t] = "answer static" /\ now'[t] = n /\ todo'[t] = d /\ hold'[t] = h
         /\ \A name : FileOf(name)' = FileOf(name)
         /\ \A f, v, a : ThereAfter(f, v, a)' <=> ThereAfter(f, v, a)
    <2>1. calls' \in 0..MaxCalls /\ spoiled' \subseteq Thread /\ \A u \in Thread \ {t} : (u \in spoiled' <=> u \in spoiled)
      BY <1>1, Stays
    <2> QED
      BY <1>1, <1>8, <1>9, <1>10, <2>1, OneGoes
  <1>12. CallOK(t)'
    BY <1>1, <1>4, <1>5, <1>6, <1>11, StaticGoesOn
  <1>13. InsertOK(t)' /\ MissesOK(t)'
    BY <1>11 DEF InsertOK, MissesOK
  <1>14. AnswerOK(t)'
    <2>1. d[1] = key /\ n[1] = time /\ Len(n) = 1
      BY <1>2, <1>3, <1>4, <1>5
    <2>2. CacheTimeout > 0 => ThereAfter(FileOf(key), VersionsOf(h.doc), time - CacheTimeout)
      <3> SUFFICES ASSUME CacheTimeout > 0 PROVE ThereAfter(FileOf(key), VersionsOf(h.doc), time - CacheTimeout)
        OBVIOUS
      <3>1. CacheTimeout \in Int /\ time - CacheTimeout <= time - 1 /\ time - CacheTimeout \in Int /\ time - 1 \in Int
        BY CacheConstants
      <3> QED
        BY <1>1, <1>2, <1>7, <3>1, Earlier
    <2> QED
      BY <1>7, <1>11, <2>1, <2>2, StaticAnswered
  <1> QED
    BY <1>11, <1>12, <1>13, <1>14 DEF ThreadOK

\* The end of a call.
LEMMA ReturnKeeps ==
  ASSUME IndInv, NEW t \in Thread, Return(t), UNCHANGED <<clock, past, changes, owner, cache, calls>>
  PROVE  IndInv'
  <1>1. TypeOK
    BY DEF IndInv
  <1>2. <<>> \in Seq(0..MaxClock) /\ <<>> \in Seq(Name)
    BY EmptySeq
  <1>3. Nothing \in [id : Nat, doc : Document, type : Types] /\ Nothing.id = 0
    BY CacheConstants DEF Nothing, Holding, Document, Version, Types
  <1>4. "idle" \in Location
    BY DEF Location, Static, Template
  <1>5. Goes(t, "idle", <<>>, <<>>, Nothing)
    BY DEF Return, Goes
  <1>6. spoiled' \subseteq Thread /\ t \notin spoiled' /\ \A u \in Thread \ {t} : (u \in spoiled' <=> u \in spoiled)
    BY Stays DEF Return
  <1>7. /\ ThreadOK(t)' => IndInv'
        /\ pc'[t] = "idle" /\ now'[t] = <<>> /\ todo'[t] = <<>> /\ hold'[t] = Nothing
    <2>1. calls' \in 0..MaxCalls
      BY Stays
    <2>2. PICK c : c = cache' /\ CacheOK(c) /\ \A i \in DOMAIN c : EntryOK(c[i])
      BY Stays
    <2>3. PICK n \in Seq(0..MaxClock), d \in Seq(Name) : n = <<>> /\ d = <<>>
      BY <1>2
    <2>4. PICK h \in [id : Nat, doc : Document, type : Types] : h = Nothing
      BY <1>3
    <2>5. Goes(t, "idle", n, d, h)
      BY <1>5, <2>3, <2>4
    <2>6. (ThreadOK(t)' => IndInv') /\ pc'[t] = "idle" /\ now'[t] = n /\ todo'[t] = d /\ hold'[t] = h
      BY <1>4, <1>6, <2>1, <2>2, <2>5, OneGoes
    <2> QED
      BY <2>3, <2>4, <2>6
  <1>8. CallOK(t)'
    <2>1. DOMAIN <<>> = {}
      OBVIOUS
    <2> QED
      BY <1>3, <1>6, <1>7, <2>1 DEF CallOK, Static
  <1>9. InsertOK(t)' /\ MissesOK(t)' /\ AnswerOK(t)'
    BY <1>7 DEF InsertOK, MissesOK, AnswerOK
  <1> QED
    BY <1>7, <1>8, <1>9 DEF ThreadOK

\* service() returns.
LEMMA AnswerStaticKeeps == ASSUME IndInv, NEW t \in Thread, AnswerStatic(t) PROVE IndInv'
  BY ReturnKeeps DEF AnswerStatic, disk

-----------------------------------------------------------------------------
(* The steps of getTemplate(). *)

\* getTemplate() begins.
LEMMA BeginTemplateKeeps ==
  ASSUME IndInv, NEW t \in Thread, NEW b \in TemplateName, NEW l \in Locales, BeginTemplate(t, b, l)
  PROVE  IndInv'
  <1>1. /\ TypeOK /\ CallOK(t) /\ pc[t] = "idle" /\ owner = "TemplateCache"
        /\ calls < MaxCalls /\ calls' = calls + 1
        /\ UNCHANGED <<clock, past, changes, owner, cache, hold, spoiled>>
    BY DEF IndInv, BeginTemplate, disk
  <1>2. PICK d \in Seq(Name) : d = Candidates(b, l) /\ Len(d) > 0 /\ \A i \in DOMAIN d : d[i] \in OnDisk(owner)
    BY <1>1, TemplateNames
  <1>3. PICK n \in Seq(0..MaxClock) : n = <<>> /\ Len(n) = 0 /\ DOMAIN n = {}
    <2>1. <<>> \in Seq(0..MaxClock) /\ Len(<<>>) = 0
      BY EmptySeq
    <2>2. DOMAIN <<>> = {}
      OBVIOUS
    <2> QED
      BY <2>1, <2>2
  <1>4. PICK h \in [id : Nat, doc : Document, type : Types] : h = hold[t] /\ h = Nothing
    <2>1. hold[t] = Nothing
      BY <1>1 DEF CallOK
    <2> QED
      BY <1>1, <2>1, ThreadTypes
  <1>5. Goes(t, "try", n, d, h)
    BY <1>1, <1>2, <1>3, <1>4, Stays DEF BeginTemplate, Goes
  <1>6. "try" \in Location
    BY <1>1 DEF Location, Template
  <1>7. calls' \in 0..MaxCalls
    <2>1. calls \in Nat /\ MaxCalls \in Nat
      BY Stays, CacheConstants
    <2> QED
      BY <1>1, <2>1
  <1>8. /\ ThreadOK(t)' => IndInv'
        /\ pc'[t] = "try" /\ now'[t] = n /\ todo'[t] = d /\ hold'[t] = h
        /\ \A name : FileOf(name)' = FileOf(name)
    <2>1. PICK c : c = cache' /\ CacheOK(c) /\ \A i \in DOMAIN c : EntryOK(c[i])
      BY <1>1, Stays
    <2>2. spoiled' \subseteq Thread /\ \A u \in Thread \ {t} : (u \in spoiled' <=> u \in spoiled)
      BY <1>1, Stays
    <2> QED
      BY <1>1, <1>5, <1>6, <1>7, <2>1, <2>2, OneGoes
  <1>9. CallOK(t)'
    <2>1. \A i \in DOMAIN d : FileOf(d[i])' \in DOMAIN past'
      <3>1. ASSUME NEW i \in DOMAIN d PROVE FileOf(d[i]) \in DOMAIN past
        BY <1>1, <1>2 DEF FileOf, TypeOK
      <3> QED
        BY <1>1, <1>8, <3>1
    <2> QED
      BY <1>2, <1>3, <1>4, <1>8, <2>1 DEF CallOK, Static
  <1>10. InsertOK(t)' /\ MissesOK(t)' /\ AnswerOK(t)'
    BY <1>3, <1>8 DEF InsertOK, MissesOK, AnswerOK
  <1> QED
    BY <1>8, <1>9, <1>10 DEF ThreadOK

\* tryFile() reads the clock.
LEMMA TryFileKeeps == ASSUME IndInv, NEW t \in Thread, TryFile(t) PROVE IndInv'
  <1>1. /\ TypeOK /\ CallOK(t) /\ MissesOK(t) /\ pc[t] = "try" /\ owner = "TemplateCache"
        /\ UNCHANGED <<clock, past, changes, owner, cache, todo, hold, calls, spoiled>>
    BY OwnerOf DEF IndInv, TryFile, disk
  <1>2. PICK m \in Seq(0..MaxClock) : m = now[t] /\ DOMAIN m = 1..Len(m) /\ Len(m) \in Nat
    BY <1>1, ThreadTypes
  <1>3. PICK d \in Seq(Name) : d = todo[t] /\ DOMAIN d = 1..Len(d) /\ Len(d) \in Nat
    BY <1>1, ThreadTypes
  <1>4. PICK h \in [id : Nat, doc : Document, type : Types] : h = hold[t] /\ h = Nothing
    <2>1. hold[t] = Nothing
      BY <1>1 DEF CallOK
    <2> QED
      BY <1>1, <2>1, ThreadTypes
  <1>5. PICK n : n = Append(m, clock)
    OBVIOUS
  <1>6. /\ n \in Seq(0..MaxClock) /\ Len(n) = Len(m) + 1 /\ DOMAIN n = 1..(Len(m) + 1)
        /\ \A i \in 1..Len(m) : n[i] = m[i]
        /\ n[Len(m) + 1] = clock
    <2>1. clock \in 0..MaxClock
      BY <1>1 DEF TypeOK
    <2>2. PICK k \in 0..MaxClock : k = clock
      BY <2>1
    <2>3. n \in Seq(0..MaxClock) /\ Len(n) = Len(m) + 1 /\ n[Len(m) + 1] = clock
          /\ \A i \in 1..Len(m) : n[i] = m[i]
      BY <1>5, <2>2, AppendProperties
    <2> QED
      BY <2>3, LenProperties
  <1>7. Goes(t, "search template", n, d, h)
    BY <1>1, <1>2, <1>3, <1>4, <1>5, Stays DEF TryFile, Goes
  <1>8. "search template" \in Location
    BY <1>1 DEF Location, Template
  <1>9. /\ ThreadOK(t)' => IndInv'
        /\ pc'[t] = "search template" /\ now'[t] = n /\ todo'[t] = d /\ hold'[t] = h
        /\ \A name : FileOf(name)' = FileOf(name)
        /\ \A f, v, a : ThereAfter(f, v, a)' <=> ThereAfter(f, v, a)
    <2>1. calls' \in 0..MaxCalls /\ spoiled' \subseteq Thread /\ \A u \in Thread \ {t} : (u \in spoiled' <=> u \in spoiled)
      BY <1>1, Stays
    <2>2. PICK c : c = cache' /\ CacheOK(c) /\ \A i \in DOMAIN c : EntryOK(c[i])
      BY <1>1, Stays
    <2> QED
      BY <1>1, <1>6, <1>7, <1>8, <2>1, <2>2, OneGoes
  <1>10. CallOK(t)'
    <2>1. \A i \in DOMAIN d : FileOf(d[i])' \in DOMAIN past'
      BY <1>1, <1>3, <1>9 DEF CallOK
    <2>2. \A i \in DOMAIN n : n[i] <= clock'
      <3>1. \A i \in 1..Len(m) : m[i] <= clock
        BY <1>1, <1>2 DEF CallOK
      <3>2. \A i \in DOMAIN n : i \in 1..Len(m) \/ i = Len(m) + 1
        <4>1. PICK k \in Nat : k = Len(m) /\ DOMAIN n = 1..(k + 1)
          BY <1>2, <1>6
        <4>2. \A i \in 1..(k + 1) : i \in 1..k \/ i = k + 1
          OBVIOUS
        <4> QED
          BY <4>1, <4>2
      <3>3. clock \in Int
        BY <1>1, ClockTypes
      <3> QED
        BY <1>1, <1>6, <3>1, <3>2, <3>3
    <2>3. Len(n) \in 1..Len(d)
      <3>1. Len(m) < Len(d)
        BY <1>1, <1>2, <1>3 DEF CallOK
      <3> QED
        BY <1>2, <1>3, <1>6, <3>1
    <2> QED
      BY <1>4, <1>9, <2>1, <2>2, <2>3 DEF CallOK, Static
  <1>11. MissesOK(t)'
    <2>1. ASSUME CacheTimeout > 0, t \notin spoiled, NEW i \in DOMAIN n, i < Len(n)
          PROVE  ThereAfter(FileOf(d[i]), Empty, n[i] - CacheTimeout)
      <3>1. i \in 1..Len(m) /\ n[i] = m[i]
        BY <1>2, <1>6, <2>1
      <3> QED
        BY <1>1, <1>2, <1>3, <2>1, <3>1 DEF MissesOK
    <2>2. ASSUME CacheTimeout > 0, t \notin spoiled', NEW i \in DOMAIN n, i < Len(n)
          PROVE  ThereAfter(FileOf(d[i]), Empty, n[i] - CacheTimeout)'
      <3>1. PICK f : f = FileOf(d[i]) /\ f = FileOf(d[i])'
        BY <1>9
      <3>2. ThereAfter(f, Empty, n[i] - CacheTimeout)
        BY <1>1, <2>1, <2>2, <3>1
      <3>3. ThereAfter(f, Empty, n[i] - CacheTimeout)'
        BY <1>9, <3>2
      <3> QED
        BY <3>1, <3>3
    <2> QED
      BY <1>9, <2>2 DEF MissesOK
  <1>12. InsertOK(t)' /\ AnswerOK(t)'
    BY <1>9 DEF InsertOK, AnswerOK
  <1> QED
    BY <1>9, <1>10, <1>11, <1>12 DEF ThreadOK

\* A call that tries a file or has tried one: which one, and since when.
LEMMA TemplateCall ==
  ASSUME IndInv, NEW t \in Thread, pc[t] \in {"search template", "return document"}
  PROVE  /\ owner = "TemplateCache" /\ Tried(t) \in DOMAIN now[t] /\ Tried(t) \in DOMAIN todo[t]
         /\ todo[t][Tried(t)] \in Name /\ FileOf(todo[t][Tried(t)]) \in DOMAIN past
         /\ now[t][Tried(t)] \in 0..MaxClock /\ now[t][Tried(t)] \in Int /\ now[t][Tried(t)] <= clock
  <1>1. TypeOK /\ CallOK(t)
    BY DEF IndInv
  <1>2. owner = "TemplateCache" /\ Tried(t) \in DOMAIN now[t] /\ Tried(t) \in DOMAIN todo[t]
    BY <1>1, OwnerOf, Positions DEF Tried
  <1>3. PICK k : k = Tried(t) /\ k \in DOMAIN now[t] /\ k \in DOMAIN todo[t]
    BY <1>2
  <1>4. todo[t][k] \in Name /\ now[t][k] \in 0..MaxClock /\ now[t][k] \in Int
    BY <1>1, <1>3, ThreadTypes
  <1>5. FileOf(todo[t][k]) \in DOMAIN past /\ now[t][k] <= clock
    BY <1>1, <1>3 DEF CallOK
  <1> QED
    BY <1>2, <1>3, <1>4, <1>5

\* A hit is used, a miss is loaded and inserted, in one section of the mutex.
LEMMA SearchTemplateKeeps == ASSUME IndInv, NEW t \in Thread, SearchTemplate(t) PROVE IndInv'
  <1>1. /\ TypeOK /\ CallOK(t) /\ MissesOK(t) /\ pc[t] = "search template"
        /\ UNCHANGED <<clock, past, changes, owner, now, todo, calls, spoiled>>
    BY DEF IndInv, SearchTemplate, disk
  <1>2. PICK k : k = Tried(t) /\ k \in DOMAIN now[t] /\ k \in DOMAIN todo[t]
    BY <1>1, TemplateCall
  <1>3. PICK key \in Name : key = todo[t][k] /\ FileOf(key) \in DOMAIN past /\ FileOf(key) = key
    BY <1>1, <1>2, TemplateCall DEF FileOf
  <1>4. PICK time \in Int : time = now[t][k] /\ time \in 0..MaxClock /\ time <= clock
    BY <1>1, <1>2, TemplateCall
  <1>5. PICK n \in Seq(0..MaxClock), d \in Seq(Name) : n = now[t] /\ d = todo[t]
    BY <1>1, ThreadTypes
  <1>6. ASSUME NEW doc \in Readings(key)
        PROVE  doc \in Document /\ \A a : ThereAfter(FileOf(key), VersionsOf(doc), a)
    BY <1>1, <1>3, <1>6, ReadingThere
  <1>7. PICK c, h : /\ c = cache' /\ CacheOK(c) /\ \A i \in DOMAIN c : EntryOK(c[i])
                    /\ hold' = [hold EXCEPT ![t] = h] /\ h \in [id : Nat, doc : Document, type : Types]
                    /\ CacheTimeout > 0 => ThereAfter(FileOf(key), VersionsOf(h.doc), time - CacheTimeout)
    <2>1. PICK touched : touched = Touch(cache, key)
      OBVIOUS
    <2>2. CacheOK(touched) /\ From(cache, touched)
      BY <2>1, Stays, TouchedOK
    <2>3. CASE Hit(key, time)
      <3>1. PICK e \in CacheEntry :
              /\ e = Entry(cache, key)
              /\ CacheTimeout > 0 => ThereAfter(FileOf(key), VersionsOf(e.doc), time - CacheTimeout)
        BY <2>3, HitEntry
      <3>2. PICK h : h = Holding(e.id, e.doc, "")
        OBVIOUS
      <3>3. cache' = touched /\ hold' = [hold EXCEPT ![t] = h]
        BY <1>2, <1>3, <1>4, <2>1, <2>3, <3>1, <3>2 DEF SearchTemplate
      <3>4. h \in [id : Nat, doc : Document, type : Types] /\ h.doc = e.doc
        <4>1. e.id \in Nat /\ e.doc \in Document /\ "" \in Types
          BY DEF CacheEntry, Types
        <4> QED
          BY <3>2, <4>1 DEF Holding
      <3>5. \A i \in DOMAIN touched : EntryOK(touched[i])
        BY <2>2, Stays DEF From
      <3>6. CacheTimeout > 0 => ThereAfter(FileOf(key), VersionsOf(h.doc), time - CacheTimeout)
        BY <3>1, <3>4
      <3> QED
        BY <2>2, <3>3, <3>4, <3>5, <3>6
    <2>4. CASE ~Hit(key, time)
      <3>0. PICK doc \in Readings(key) :
               /\ cache' = Insert(touched, NewEntry(key, doc, time), MaxCost)
               /\ hold' = [hold EXCEPT ![t] = Holding(Address, doc, "")]
        BY <1>2, <1>3, <1>4, <2>1, <2>4 DEF SearchTemplate
      <3>a. doc \in Document /\ \A a : ThereAfter(FileOf(key), VersionsOf(doc), a)
        BY <1>6
      <3>1. PICK e : e = NewEntry(key, doc, time)
        OBVIOUS
      <3>2. e \in CacheEntry /\ EntryOK(e) /\ (\A i \in DOMAIN cache : cache[i].id # e.id) /\ Address \in Nat
        BY <1>3, <1>4, <3>a, <3>1, EntryMade
      <3>3. PICK c : c = Insert(touched, e, MaxCost)
        OBVIOUS
      <3>4. PICK h : h = Holding(Address, doc, "")
        OBVIOUS
      <3>5. c = cache' /\ hold' = [hold EXCEPT ![t] = h]
        BY <3>0, <3>1, <3>3, <3>4
      <3>6. \A i \in DOMAIN touched : touched[i].id # e.id /\ EntryOK(touched[i])
        BY <2>2, <3>2, Stays DEF From
      <3>7. CacheOK(c) /\ \A i \in DOMAIN c : c[i] = e \/ \E j \in DOMAIN touched : c[i] = touched[j]
        BY <2>2, <3>2, <3>3, <3>6, InsertedOK
      <3>8. \A i \in DOMAIN c : EntryOK(c[i])
        BY <3>2, <3>6, <3>7
      <3>9. h \in [id : Nat, doc : Document, type : Types] /\ h.doc = doc
        <4>1. "" \in Types
          BY DEF Types
        <4> QED
          BY <3>a, <3>2, <3>4, <4>1 DEF Holding
      <3>10. ThereAfter(FileOf(key), VersionsOf(h.doc), time - CacheTimeout)
        BY <3>a, <3>9
      <3> QED
        BY <3>5, <3>7, <3>8, <3>9, <3>10
    <2> QED
      BY <2>3, <2>4
  <1>8. Goes(t, "return document", n, d, h)
    BY <1>1, <1>5, <1>7, Stays DEF SearchTemplate, Goes
  <1>9. "return document" \in Location
    BY <1>1, OwnerOf DEF Location, Template
  <1>10. /\ ThreadOK(t)' => IndInv'
         /\ pc'[t] = "return document" /\ now'[t] = n /\ todo'[t] = d /\ hold'[t] = h
         /\ \A name : FileOf(name)' = FileOf(name)
         /\ \A f, v, a : ThereAfter(f, v, a)' <=> ThereAfter(f, v, a)
    <2>1. calls' \in 0..MaxCalls /\ spoiled' \subseteq Thread /\ \A u \in Thread \ {t} : (u \in spoiled' <=> u \in spoiled)
      BY <1>1, Stays
    <2> QED
      BY <1>1, <1>7, <1>8, <1>9, <2>1, OneGoes
  <1>11. CallOK(t)'
    <2>1. /\ \A i \in DOMAIN d : FileOf(d[i]) \in DOMAIN past
          /\ \A i \in DOMAIN n : n[i] <= clock
          /\ Len(n) \in 1..Len(d)
      BY <1>1, <1>5 DEF CallOK
    <2> QED
      BY <1>1, <1>10, <2>1 DEF CallOK, Static
  <1>12. MissesOK(t)'
    <2>1. ASSUME CacheTimeout > 0, t \notin spoiled', NEW i \in DOMAIN n, i < Len(n)
          PROVE  ThereAfter(FileOf(d[i]), Empty, n[i] - CacheTimeout)'
      <3>1. ThereAfter(FileOf(d[i]), Empty, n[i] - CacheTimeout)
        BY <1>1, <1>5, <2>1 DEF MissesOK
      <3>2. PICK f : f = FileOf(d[i]) /\ f = FileOf(d[i])'
        BY <1>10
      <3>3. ThereAfter(f, Empty, n[i] - CacheTimeout)'
        BY <1>10, <3>1, <3>2
      <3> QED
        BY <3>2, <3>3
    <2> QED
      BY <1>10, <2>1 DEF MissesOK
  <1>13. AnswerOK(t)'
    <2>1. d[Len(n)] = key /\ n[Len(n)] = time
      BY <1>2, <1>3, <1>4, <1>5 DEF Tried
    <2>2. PICK f : f = FileOf(key) /\ f = FileOf(d[Len(n)])'
      BY <1>10, <2>1
    <2>3. CacheTimeout > 0 => ThereAfter(f, VersionsOf(h.doc), n[Len(n)] - CacheTimeout)'
      BY <1>7, <1>10, <2>1, <2>2
    <2> QED
      BY <1>10, <2>2, <2>3 DEF AnswerOK
  <1>14. InsertOK(t)'
    BY <1>10 DEF InsertOK
  <1> QED
    BY <1>10, <1>11, <1>12, <1>13, <1>14 DEF ThreadOK

\* return entry->document; without one, getTemplate() goes on to the next name.
LEMMA ReturnDocumentKeeps == ASSUME IndInv, NEW t \in Thread, ReturnDocument(t) PROVE IndInv'
  <1>1. /\ TypeOK /\ CallOK(t) /\ MissesOK(t) /\ AnswerOK(t) /\ pc[t] = "return document"
        /\ UNCHANGED <<clock, past, changes, owner, cache, calls>>
    BY DEF IndInv, ReturnDocument, disk
  <1>2. CASE Return(t)
    BY <1>1, <1>2, ReturnKeeps
  <1>3. CASE ~Return(t)
    <2>1. /\ Bytes(hold[t].doc) = 0 \/ Deleted(t)
          /\ Len(now[t]) < Len(todo[t])
          /\ pc' = [pc EXCEPT ![t] = "try"] /\ hold' = [hold EXCEPT ![t] = Nothing]
          /\ spoiled' = IF Deleted(t) \/ hold[t].doc \in Torn THEN spoiled \cup {t} ELSE spoiled
          /\ UNCHANGED <<now, todo>>
      BY <1>3 DEF ReturnDocument, Tried
    <2>2. PICK n \in Seq(0..MaxClock), d \in Seq(Name) : n = now[t] /\ d = todo[t]
      BY <1>1, ThreadTypes
    <2>3. PICK h \in [id : Nat, doc : Document, type : Types] : h = Nothing
      <3>1. 0 \in Nat /\ 0 \in Document /\ "" \in Types
        BY CacheConstants DEF Document, Version, Types
      <3>2. Nothing \in [id : Nat, doc : Document, type : Types]
        BY <3>1 DEF Nothing, Holding
      <3> QED
        BY <3>2
    <2>4. Goes(t, "try", n, d, h)
      BY <2>1, <2>2, <2>3, Stays DEF Goes
    <2>5. "try" \in Location
      BY <1>1, OwnerOf DEF Location, Template
    <2>6. spoiled' \subseteq Thread /\ \A u \in Thread \ {t} : (u \in spoiled' <=> u \in spoiled)
      BY <2>1, Stays
    <2>7. /\ ThreadOK(t)' => IndInv'
          /\ pc'[t] = "try" /\ now'[t] = n /\ todo'[t] = d /\ hold'[t] = h
          /\ \A name : FileOf(name)' = FileOf(name)
          /\ \A f, v, a : ThereAfter(f, v, a)' <=> ThereAfter(f, v, a)
      <3>1. calls' \in 0..MaxCalls
        BY <1>1, Stays
      <3>2. PICK c : c = cache' /\ CacheOK(c) /\ \A i \in DOMAIN c : EntryOK(c[i])
        BY <1>1, Stays
      <3> QED
        BY <1>1, <2>4, <2>5, <2>6, <3>1, <3>2, OneGoes
    <2>8. CallOK(t)'
      <3>1. /\ \A i \in DOMAIN d : FileOf(d[i]) \in DOMAIN past
            /\ \A i \in DOMAIN n : n[i] <= clock
            /\ Len(n) < Len(d)
        BY <1>1, <2>1, <2>2 DEF CallOK
      <3> QED
        BY <1>1, <2>3, <2>7, <3>1 DEF CallOK, Static
    <2>9. MissesOK(t)'
      <3>1. ASSUME CacheTimeout > 0, t \notin spoiled', NEW i \in DOMAIN n
            PROVE  ThereAfter(FileOf(d[i]), Empty, n[i] - CacheTimeout)
        <4>1. Bytes(hold[t].doc) = 0 /\ hold[t].doc \notin Torn /\ t \notin spoiled
          BY <2>1, <3>1
        <4>2. CASE i = Len(n)
          <5>1. ThereAfter(FileOf(d[i]), VersionsOf(hold[t].doc), n[i] - CacheTimeout)
            BY <1>1, <2>2, <3>1, <4>1, <4>2 DEF AnswerOK
          <5>2. hold[t].doc \in Document
            BY <1>1, ThreadTypes
          <5> QED
            BY <4>1, <5>1, <5>2, OfEmpty
        <4>3. CASE i # Len(n)
          <5>1. DOMAIN n = 1..Len(n) /\ Len(n) \in Nat
            BY LenProperties
          <5>2. i < Len(n)
            BY <3>1, <4>3, <5>1
          <5> QED
            BY <1>1, <2>2, <3>1, <4>1, <5>2 DEF MissesOK
        <4> QED
          BY <4>2, <4>3
      <3>2. ASSUME CacheTimeout > 0, t \notin spoiled', NEW i \in DOMAIN n
            PROVE  ThereAfter(FileOf(d[i]), Empty, n[i] - CacheTimeout)'
        <4>1. PICK f : f = FileOf(d[i]) /\ f = FileOf(d[i])'
          BY <2>7
        <4>2. ThereAfter(f, Empty, n[i] - CacheTimeout)'
          BY <2>7, <3>1, <3>2, <4>1
        <4> QED
          BY <4>1, <4>2
      <3> QED
        BY <2>7, <3>2 DEF MissesOK
    <2>10. InsertOK(t)' /\ AnswerOK(t)'
      BY <2>7 DEF InsertOK, AnswerOK
    <2> QED
      BY <2>7, <2>8, <2>9, <2>10 DEF ThreadOK
  <1> QED
    BY <1>2, <1>3

-----------------------------------------------------------------------------
(* The invariant is inductive, and implies what the caches promise. *)

\* Every step keeps the invariant.
LEMMA NextKeeps == IndInv /\ [Next]_vars => IndInv'
  <1> SUFFICES ASSUME IndInv, [Next]_vars PROVE IndInv'
    OBVIOUS
  <1>1. CASE Tick
    BY <1>1, TickKeeps
  <1>2. CASE \E f \in DOMAIN past : ChangeFile(f)
    BY <1>2, ChangeKeeps
  <1>3. ASSUME NEW t \in Thread, \E b \in StaticName : BeginStatic(t, Plain(b)) PROVE IndInv'
    BY <1>3, BeginStaticKeeps
  <1>4. ASSUME NEW t \in Thread, \E b \in TemplateName, l \in Locales : BeginTemplate(t, b, l) PROVE IndInv'
    BY <1>4, BeginTemplateKeeps
  <1>5. ASSUME NEW t \in Thread, SearchStatic(t) \/ ReadStatic(t) \/ InsertStatic(t) \/ AnswerStatic(t)
        PROVE  IndInv'
    BY <1>5, SearchStaticKeeps, ReadStaticKeeps, InsertStaticKeeps, AnswerStaticKeeps
  <1>6. ASSUME NEW t \in Thread, TryFile(t) \/ SearchTemplate(t) \/ ReturnDocument(t) PROVE IndInv'
    BY <1>6, TryFileKeeps, SearchTemplateKeeps, ReturnDocumentKeeps
  <1>7. CASE UNCHANGED vars
    <2>1. UNCHANGED <<clock, past, changes, owner, cache, pc, now, todo, hold, calls, spoiled>>
      BY <1>7 DEF vars, disk
    <2>2. clock' \in Int /\ clock' >= clock /\ TypeOK
      BY <2>1, ClockTypes DEF IndInv
    <2>3. TypeOK'
      BY <2>1, <2>2 DEF TypeOK, OnDisk
    <2>4. EntriesOK' /\ EntriesHonest'
      BY <2>1, <2>2, EntriesSame
    <2>5. ASSUME NEW u \in Thread PROVE ThreadOK(u)'
      <3>1. ThreadOK(u) /\ Same(u)
        BY <2>1 DEF IndInv, ThreadOK, Same
      <3> QED
        BY <2>1, <2>2, <3>1, ThreadKept
    <2> QED
      BY <2>3, <2>4, <2>5 DEF IndInv, ThreadOK
  <1> QED
    BY <1>1, <1>2, <1>3, <1>4, <1>5, <1>6, <1>7 DEF Next

\* IndInv holds in every reachable state: every entry names its file and holds
\* a version that was there since the entry was made, and every thread holds what
\* its place in service() or getTemplate() says, in both caches.
THEOREM Invariance == Spec => []IndInv
  BY InitOK, NextKeeps, PTL DEF Spec

\* Every variable keeps its type; a cache never holds two entries of a key, nor
\* two at the same address, and never costs more than cacheSize, whatever QCache
\* removes to make room.
THEOREM TypeCorrect == Spec => []TypeOK
  <1>1. IndInv => TypeOK
    BY DEF IndInv
  <1> QED
    BY <1>1, Invariance, PTL

\* An entry is never older than it says: its document was in the file when the
\* entry was created, or later.
THEOREM Honest == Spec => []EntriesHonest
  <1>1. IndInv => EntriesHonest
    BY DEF IndInv
  <1> QED
    BY <1>1, Invariance, PTL

\* What service() and getTemplate() answer was in the file less than cacheTime
\* before the call looked, and so were the missing files of preferred locales.
THEOREM Freshness == Spec => []AnswersFresh
  <1>2. \A k \in Nat : \A j \in 1..k : (j = k \/ j < k) /\ (k = 1 => j = 1)
    OBVIOUS
  <1>1. IndInv => AnswersFresh
    <2> SUFFICES ASSUME IndInv, CacheTimeout > 0, NEW t \in Thread,
                        pc[t] \in {"answer static", "return document"}, t \notin spoiled
                 PROVE  /\ FreshUpTo(t, Tried(t))
                        /\ pc[t] = "answer static" /\ hold[t].doc # 0 =>
                               hold[t].type = ContentType(FileOf(Head(todo[t])))
      BY DEF AnswersFresh
    <2>1. TypeOK /\ MissesOK(t) /\ AnswerOK(t)
      BY DEF IndInv
    <2>2. DOMAIN now[t] = 1..Len(now[t]) /\ Len(now[t]) \in Nat
      BY <2>1, ThreadTypes
    <2>3. CASE pc[t] = "answer static"
      <3>1. Len(now[t]) = 1 /\ Head(todo[t]) = todo[t][1]
        BY <2>3, StaticCall
      <3>2. /\ ThereAfter(FileOf(todo[t][1]), VersionsOf(hold[t].doc), now[t][1] - CacheTimeout)
            /\ hold[t].doc # 0 => hold[t].type = ContentType(FileOf(todo[t][1]))
        BY <2>1, <2>3, <3>1 DEF AnswerOK
      <3>3. ASSUME NEW i \in 1..Len(now[t])
            PROVE  ThereAfter(FileOf(todo[t][i]), IF i = Len(now[t]) THEN VersionsOf(hold[t].doc) ELSE Empty,
                              now[t][i] - CacheTimeout)
        <4>1. PICK k \in Nat : k = Len(now[t]) /\ k = 1 /\ i \in 1..k
          BY <2>2, <3>1
        <4>2. i = 1 /\ i = Len(now[t])
          BY <1>2, <4>1
        <4> QED
          BY <3>2, <4>2
      <3> QED
        BY <2>3, <3>1, <3>2, <3>3 DEF FreshUpTo, Tried
    <2>4. CASE pc[t] = "return document"
      <3>1. ASSUME NEW i \in 1..Len(now[t])
            PROVE  ThereAfter(FileOf(todo[t][i]), IF i = Len(now[t]) THEN VersionsOf(hold[t].doc) ELSE Empty,
                              now[t][i] - CacheTimeout)
        <4>1. CASE i = Len(now[t])
          BY <2>1, <2>4, <4>1 DEF AnswerOK
        <4>2. CASE i # Len(now[t])
          <5>1. i < Len(now[t]) /\ i \in DOMAIN now[t]
            <6>1. PICK k \in Nat : k = Len(now[t]) /\ i \in 1..k /\ i # k
              BY <2>2, <4>2
            <6>2. i < k
              BY <1>2, <6>1
            <6> QED
              BY <2>2, <6>1, <6>2
          <5> QED
            BY <2>1, <2>4, <4>2, <5>1 DEF MissesOK
        <4> QED
          BY <4>1, <4>2
      <3> QED
        BY <2>4, <3>1 DEF FreshUpTo, Tried
    <2> QED
      BY <2>3, <2>4
  <1> QED
    BY <1>1, Invariance, PTL

\* StaticFileController never uses a document of an entry that was deleted.
THEOREM Copied == Spec => []StaticFilesCopied
  <1>1. IndInv => StaticFilesCopied
    BY DEF IndInv, StaticFilesCopied, Deleted, CallOK, Static
  <1> QED
    BY <1>1, Invariance, PTL
=============================================================================
