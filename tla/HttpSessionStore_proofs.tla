---------------------- MODULE HttpSessionStore_proofs ----------------------
(***************************************************************************)
(* Proofs that the session store keeps IndInv for any number of workers,   *)
(* clients, sessions and nested calls, and that its safety properties      *)
(* follow from it.                                                         *)
(***************************************************************************)
EXTENDS HttpSessionStore, SequenceTheorems, FiniteSetTheorems, TLAPS

-----------------------------------------------------------------------------
(* The inductive invariant. *)

\* The handles of a request: none before it begins, room for one more while
\* getSession() is called.
StacksOK ==
    \A t \in Worker :
        /\ Len(handles[t]) <= MaxCalls
        /\ pc[t] = "idle" => handles[t] = <<>> /\ client[t] = None
        /\ pc[t] \in {"id", "look"} => Len(handles[t]) < MaxCalls

\* What the timer event has yet to visit is in the map, as it holds the mutex.
TimerOK ==
    /\ mutex # Main => visited = None
    /\ mutex = Main => toVisit \subseteq sessions
    /\ visited \notin toVisit
    /\ visited # None => toDelete[Main] = None

\* The references are finitely many, and counted.
Counted(s) == IsFiniteSet(References(s)) /\ refCount[s] = Cardinality(References(s))
CountsOK == \A s \in Session : Counted(s)

\* Referenced data is alive, data to be deleted is alive, unreferenced, and
\* deleted by one thread; what is alive is one or the other.
ReferencedIsAlive == \A s \in Session : References(s) # {} => data[s] = "alive"
DoomedIsAlive ==
    \A t \in Thread : toDelete[t] # None =>
        data[toDelete[t]] = "alive" /\ References(toDelete[t]) = {}
DeletedOnce ==
    \A t, u \in Thread : t # u /\ toDelete[t] # None => toDelete[t] # toDelete[u]
LivesOK == ReferencedIsAlive /\ DoomedIsAlive /\ DeletedOnce /\ NoLeak

\* A handle of a request whose session is still in the map agrees with the
\* response's cookie, with every later handle, and with what getSessionId() has
\* just found.
CallsAgree(t) ==
    client[t] # None =>
        \A i \in 1..Len(handles[t]) : handles[t][i] \in sessions =>
            /\ respCookie[t] = handles[t][i]
            /\ \A j \in 1..Len(handles[t]) : i <= j => handles[t][j] = handles[t][i]
            /\ pc[t] = "look" => found[t] = handles[t][i]
CallsOK == \A t \in Worker : CallsAgree(t)

\* Times are in the past; the time of access is never older than the last
\* return of getSession(), nor is the one the timer event has read, unless the
\* session was returned since the event began.
TimesOK ==
    /\ \A s \in Session : returned[s] <= lastAccess[s] /\ lastAccess[s] <= clock
    /\ mutex = Main => now <= clock
    /\ visited # None => returned[visited] <= seen \/ now <= returned[visited]

IndInv == TypeOK /\ StacksOK /\ TimerOK /\ CountsOK /\ LivesOK /\ CallsOK /\ TimesOK

-----------------------------------------------------------------------------
(* How the set of references changes. *)

\* What a reference is: a handle on a stack, in the map, or the timer event's ...
LEMMA ReferenceMember ==
  ASSUME NEW s, NEW r
  PROVE  r \in References(s) <=>
            \/ \E t \in Worker, i \in 1..MaxCalls :
                    r = <<t, i>> /\ i <= Len(handles[t]) /\ handles[t][i] = s
            \/ r = <<"map", 0>> /\ s \in sessions
            \/ r = <<"timer", 0>> /\ s = visited
  <1> DEFINE stack == {p \in Worker \X (1..MaxCalls) :
                         p[2] <= Len(handles[p[1]]) /\ handles[p[1]][p[2]] = s}
  <1>1. r \in stack <=> \E t \in Worker, i \in 1..MaxCalls :
                            r = <<t, i>> /\ i <= Len(handles[t]) /\ handles[t][i] = s
    OBVIOUS
  <1>2. r \in References(s) <=>
            \/ r \in stack
            \/ r = <<"map", 0>> /\ s \in sessions
            \/ r = <<"timer", 0>> /\ s = visited
    BY DEF References
  <1> QED
    BY <1>1, <1>2

\* ... also after a step.
LEMMA ReferenceMemberPrimed ==
  ASSUME NEW s, NEW r
  PROVE  r \in References(s)' <=>
            \/ \E t \in Worker, i \in 1..MaxCalls :
                    r = <<t, i>> /\ i <= Len(handles'[t]) /\ handles'[t][i] = s
            \/ r = <<"map", 0>> /\ s \in sessions'
            \/ r = <<"timer", 0>> /\ s = visited'
  <1> DEFINE stack == {p \in Worker \X (1..MaxCalls) :
                         p[2] <= Len(handles'[p[1]]) /\ handles'[p[1]][p[2]] = s}
  <1>1. r \in stack <=> \E t \in Worker, i \in 1..MaxCalls :
                            r = <<t, i>> /\ i <= Len(handles'[t]) /\ handles'[t][i] = s
    OBVIOUS
  <1>2. r \in References(s)' <=>
            \/ r \in stack
            \/ r = <<"map", 0>> /\ s \in sessions'
            \/ r = <<"timer", 0>> /\ s = visited'
    BY DEF References
  <1> QED
    BY <1>1, <1>2

\* Nothing changes.
LEMMA SameReferences ==
  ASSUME UNCHANGED <<handles, sessions, visited>>, NEW s
  PROVE  References(s)' = References(s)
  BY DEF References

\* The place of a reference tells the three kinds apart.
LEMMA PlacesDiffer ==
  /\ \A t, i : i \in 1..MaxCalls => <<t, i>> # <<"map", 0>> /\ <<t, i>> # <<"timer", 0>>
  /\ <<"map", 0>> # <<"timer", 0>>
  BY MaxCallsAssumption

\* A worker gets one more handle.
LEMMA PushedReference ==
  ASSUME TypeOK, NEW t \in Worker, NEW h \in SessionOrNull, Len(handles[t]) < MaxCalls,
         Push(t, h), UNCHANGED <<sessions, visited>>, NEW s \in Session
  PROVE  /\ s = h => References(s)' = References(s) \cup {<<t, Len(handles[t]) + 1>>}
         /\ s = h => <<t, Len(handles[t]) + 1>> \notin References(s)
         /\ s # h => References(s)' = References(s)
  <1> DEFINE n == Len(handles[t]) + 1
  <1>1. handles[t] \in Seq(SessionOrNull) /\ n \in 1..MaxCalls /\ Len(handles[t]) \in Nat
    BY MaxCallsAssumption, LenProperties DEF TypeOK
  <1>2. /\ handles' = [handles EXCEPT ![t] = Append(handles[t], h)]
        /\ handles \in [Worker -> Seq(SessionOrNull)]
    BY DEF Push, TypeOK
  <1>3. /\ handles'[t] = Append(handles[t], h) /\ Len(handles'[t]) = n
        /\ handles'[t][n] = h
        /\ \A i \in 1..Len(handles[t]) : handles'[t][i] = handles[t][i]
        /\ \A u \in Worker : u # t => handles'[u] = handles[u]
    BY <1>1, <1>2, AppendProperties
  <1>4. <<t, n>> \notin References(s)
    <2>1. \A u \in Worker, i \in 1..MaxCalls : <<t, n>> = <<u, i>> => u = t /\ i = n
      OBVIOUS
    <2> QED
      BY <1>1, <2>1, PlacesDiffer, ReferenceMember
  <1>5. ASSUME NEW u \in Worker, NEW i \in 1..MaxCalls
        PROVE  (i <= Len(handles'[u]) /\ handles'[u][i] = s)
                  <=> \/ i <= Len(handles[u]) /\ handles[u][i] = s
                      \/ u = t /\ i = n /\ s = h
    <2>1. CASE u # t
      BY <1>3, <2>1
    <2>2. CASE u = t /\ i = n
      BY <1>1, <1>3, <2>2
    <2>3. CASE u = t /\ i # n
      <3>1. i <= Len(handles'[u]) <=> i <= Len(handles[u])
        BY <1>1, <1>3, <2>3
      <3>2. i <= Len(handles[u]) => handles'[u][i] = handles[u][i]
        BY <1>1, <1>3, <2>3
      <3> QED
        BY <2>3, <3>1, <3>2
    <2> QED
      BY <2>1, <2>2, <2>3
  <1> HIDE DEF n
  <1>6. ASSUME NEW r PROVE r \in References(s)' <=> r \in References(s) \/ (r = <<t, n>> /\ s = h)
    <2>1. (\E u \in Worker, i \in 1..MaxCalls :
              r = <<u, i>> /\ i <= Len(handles'[u]) /\ handles'[u][i] = s)
          <=> \/ \E u \in Worker, i \in 1..MaxCalls :
                    r = <<u, i>> /\ i <= Len(handles[u]) /\ handles[u][i] = s
              \/ r = <<t, n>> /\ s = h
      BY <1>1, <1>5
    <2>2. sessions' = sessions /\ visited' = visited
      OBVIOUS
    <2> QED
      BY <2>1, <2>2, ReferenceMember, ReferenceMemberPrimed
  <1>7. s = h => References(s)' = References(s) \cup {<<t, n>>}
    BY <1>6
  <1>8. s # h => References(s)' = References(s)
    BY <1>6
  <1> QED
    BY <1>4, <1>7, <1>8 DEF n

\* A worker loses its last handle.
LEMMA PoppedReference ==
  ASSUME TypeOK, StacksOK, NEW t \in Worker, handles[t] # <<>>,
         handles' = [handles EXCEPT ![t] = Front(handles[t])],
         UNCHANGED <<sessions, visited>>, NEW s \in Session
  PROVE  /\ s = Last(handles[t]) => References(s)' = References(s) \ {<<t, Len(handles[t])>>}
         /\ s = Last(handles[t]) => <<t, Len(handles[t])>> \in References(s)
         /\ s # Last(handles[t]) => References(s)' = References(s)
  <1> DEFINE n == Len(handles[t])
             h == handles[t][n]
  <1>1. handles[t] \in Seq(SessionOrNull) /\ n \in 1..MaxCalls /\ handles \in [Worker -> Seq(SessionOrNull)]
    BY MaxCallsAssumption, LenProperties, EmptySeq DEF TypeOK, StacksOK
  <1>2. Last(handles[t]) = h
    BY DEF Last
  <1>3. /\ handles'[t] = SubSeq(handles[t], 1, n - 1)
        /\ \A u \in Worker : u # t => handles'[u] = handles[u]
    BY <1>1 DEF Front
  <1>4. /\ Len(handles'[t]) = n - 1
        /\ \A i \in 1..(n - 1) : handles'[t][i] = handles[t][i]
    BY <1>1, <1>3, SubSeqProperties
  <1>5. <<t, n>> \in References(s) <=> s = h
    <2>1. \A u \in Worker, i \in 1..MaxCalls : <<t, n>> = <<u, i>> => u = t /\ i = n
      OBVIOUS
    <2> QED
      BY <1>1, <2>1, PlacesDiffer, ReferenceMember
  <1>6. ASSUME NEW u \in Worker, NEW i \in 1..MaxCalls
        PROVE  (i <= Len(handles'[u]) /\ handles'[u][i] = s)
                  <=> i <= Len(handles[u]) /\ handles[u][i] = s /\ ~(u = t /\ i = n)
    <2>1. CASE u # t
      BY <1>3, <2>1
    <2>2. CASE u = t
      <3>1. i <= Len(handles'[u]) <=> i <= n /\ i # n
        BY <1>1, <1>4, <2>2
      <3>2. i <= n /\ i # n => handles'[u][i] = handles[u][i]
        BY <1>1, <1>4, <2>2
      <3> QED
        BY <2>2, <3>1, <3>2
    <2> QED
      BY <2>1, <2>2
  <1> HIDE DEF n, h
  <1>7. ASSUME NEW r PROVE r \in References(s)' <=> r \in References(s) /\ r # <<t, n>>
    <2>1. (\E u \in Worker, i \in 1..MaxCalls :
              r = <<u, i>> /\ i <= Len(handles'[u]) /\ handles'[u][i] = s)
          <=> /\ \E u \in Worker, i \in 1..MaxCalls :
                    r = <<u, i>> /\ i <= Len(handles[u]) /\ handles[u][i] = s
              /\ r # <<t, n>>
      BY <1>1, <1>6
    <2>2. <<"map", 0>> # <<t, n>> /\ <<"timer", 0>> # <<t, n>>
      BY <1>1, PlacesDiffer
    <2>3. sessions' = sessions /\ visited' = visited
      OBVIOUS
    <2> QED
      BY <2>1, <2>2, <2>3, ReferenceMember, ReferenceMemberPrimed
  <1>8. s = h => References(s)' = References(s) \ {<<t, n>>}
    BY <1>7
  <1>9. s # h => References(s)' = References(s)
    BY <1>5, <1>7
  <1> QED
    BY <1>2, <1>5, <1>8, <1>9 DEF n

\* The map loses a handle.
LEMMA ErasedReference ==
  ASSUME NEW x, sessions' = sessions \ {x}, UNCHANGED <<handles, visited>>, NEW s \in Session
  PROVE  /\ s = x => References(s)' = References(s) \ {<<"map", 0>>}
         /\ s # x => References(s)' = References(s)
  <1>1. ASSUME NEW r
        PROVE  r \in References(s)' <=> r \in References(s) /\ ~(r = <<"map", 0>> /\ s = x)
    BY PlacesDiffer, ReferenceMember, ReferenceMemberPrimed
  <1>2. s = x => References(s)' = References(s) \ {<<"map", 0>>}
    BY <1>1
  <1>3. s # x => References(s)' = References(s)
    BY <1>1
  <1> QED
    BY <1>2, <1>3

\* A session in the map has a reference from it.
LEMMA MapReference ==
  ASSUME NEW s \in sessions
  PROVE  <<"map", 0>> \in References(s)
  BY ReferenceMember

\* The timer event gets its handle ...
LEMMA VisitedReference ==
  ASSUME visited = None, UNCHANGED <<handles, sessions>>, NEW s \in Session
  PROVE  /\ s = visited' => References(s)' = References(s) \cup {<<"timer", 0>>}
         /\ s = visited' => <<"timer", 0>> \notin References(s)
         /\ s # visited' => References(s)' = References(s)
  <1>1. s # visited
    BY NoneAssumption
  <1>2. <<"timer", 0>> \notin References(s)
    BY <1>1, PlacesDiffer, ReferenceMember
  <1>3. ASSUME NEW r
        PROVE  r \in References(s)' <=> r \in References(s) \/ (r = <<"timer", 0>> /\ s = visited')
    BY <1>1, ReferenceMember, ReferenceMemberPrimed
  <1>4. s = visited' => References(s)' = References(s) \cup {<<"timer", 0>>}
    BY <1>3
  <1>5. s # visited' => References(s)' = References(s)
    BY <1>3
  <1> QED
    BY <1>2, <1>4, <1>5

\* ... and loses it.
LEMMA LeftReference ==
  ASSUME visited' = None, UNCHANGED <<handles, sessions>>, NEW s \in Session
  PROVE  /\ s = visited => References(s)' = References(s) \ {<<"timer", 0>>}
         /\ s = visited => <<"timer", 0>> \in References(s)
         /\ s # visited => References(s)' = References(s)
  <1>1. s # visited'
    BY NoneAssumption
  <1>2. s = visited => <<"timer", 0>> \in References(s)
    BY ReferenceMember
  <1>3. ASSUME NEW r
        PROVE  r \in References(s)' <=> r \in References(s) /\ ~(r = <<"timer", 0>> /\ s = visited)
    BY <1>1, PlacesDiffer, ReferenceMember, ReferenceMemberPrimed
  <1>4. s = visited => References(s)' = References(s) \ {<<"timer", 0>>}
    BY <1>3
  <1>5. s # visited => References(s)' = References(s)
    BY <1>3
  <1> QED
    BY <1>2, <1>4, <1>5

\* A worker's first handle becomes a handle of the second's session.
LEMMA AssignedReference ==
  ASSUME TypeOK, StacksOK, NEW t \in Worker, Len(handles[t]) = 2, handles[t][1] # handles[t][2],
         handles' = [handles EXCEPT ![t][1] = handles[t][2]],
         UNCHANGED <<sessions, visited>>, NEW s \in Session
  PROVE  /\ s = handles[t][1] =>
                References(s)' = References(s) \ {<<t, 1>>} /\ <<t, 1>> \in References(s)
         /\ s = handles[t][2] =>
                /\ References(s)' = References(s) \cup {<<t, 1>>} /\ <<t, 1>> \notin References(s)
                /\ <<t, 2>> \in References(s)
         /\ s # handles[t][1] /\ s # handles[t][2] => References(s)' = References(s)
  <1> DEFINE a == handles[t][1]
             b == handles[t][2]
  <1>1. /\ handles[t] \in Seq(SessionOrNull) /\ handles \in [Worker -> Seq(SessionOrNull)]
        /\ 1 \in 1..MaxCalls /\ 2 \in 1..MaxCalls
    <2>1. Len(handles[t]) <= MaxCalls
      BY DEF StacksOK
    <2>2. handles \in [Worker -> Seq(SessionOrNull)]
      BY DEF TypeOK
    <2> QED
      BY <2>1, <2>2, MaxCallsAssumption
  <1>2. /\ handles'[t] = [handles[t] EXCEPT ![1] = b]
        /\ \A u \in Worker : u # t => handles'[u] = handles[u]
    BY <1>1
  <1>3. Len(handles'[t]) = 2 /\ handles'[t][1] = b /\ handles'[t][2] = b
    BY <1>1, <1>2, ExceptSeq
  <1>4. \A u \in Worker, i \in 1..MaxCalls : <<t, 1>> = <<u, i>> => u = t /\ i = 1
    OBVIOUS
  <1>5. \A u \in Worker, i \in 1..MaxCalls : <<t, 2>> = <<u, i>> => u = t /\ i = 2
    OBVIOUS
  <1>6. <<t, 1>> \in References(s) <=> s = a
    BY <1>1, <1>4, PlacesDiffer, ReferenceMember
  <1>7. <<t, 2>> \in References(s) <=> s = b
    <2>1. <<t, 2>> # <<"map", 0>> /\ <<t, 2>> # <<"timer", 0>>
      BY <1>1, PlacesDiffer
    <2>2. <<t, 2>> \in References(s) <=>
              \E u \in Worker, i \in 1..MaxCalls :
                  <<t, 2>> = <<u, i>> /\ i <= Len(handles[u]) /\ handles[u][i] = s
      BY <2>1, ReferenceMember
    <2>3. 2 <= Len(handles[t])
      OBVIOUS
    <2> QED
      BY <1>1, <1>5, <2>2, <2>3
  <1>8. ASSUME NEW u \in Worker, NEW i \in 1..MaxCalls
        PROVE  (i <= Len(handles'[u]) /\ handles'[u][i] = s)
                  <=> IF u = t /\ i = 1 THEN s = b ELSE i <= Len(handles[u]) /\ handles[u][i] = s
    <2>1. CASE u # t
      BY <1>2, <2>1
    <2>2. CASE u = t
      BY <1>3, <2>2
    <2> QED
      BY <2>1, <2>2
  <1> HIDE DEF a, b
  <1>9. ASSUME NEW r
        PROVE  r \in References(s)' <=> IF r = <<t, 1>> THEN s = b ELSE r \in References(s)
    <2>1. (\E u \in Worker, i \in 1..MaxCalls :
              r = <<u, i>> /\ i <= Len(handles'[u]) /\ handles'[u][i] = s)
          <=> IF r = <<t, 1>> THEN s = b
              ELSE \E u \in Worker, i \in 1..MaxCalls :
                        r = <<u, i>> /\ i <= Len(handles[u]) /\ handles[u][i] = s
      BY <1>1, <1>4, <1>8
    <2>2. <<"map", 0>> # <<t, 1>> /\ <<"timer", 0>> # <<t, 1>>
      BY <1>1, PlacesDiffer
    <2>3. sessions' = sessions /\ visited' = visited
      OBVIOUS
    <2> QED
      BY <2>1, <2>2, <2>3, ReferenceMember, ReferenceMemberPrimed
  <1>10. a # b
    BY DEF a, b
  <1>11. s = a => References(s)' = References(s) \ {<<t, 1>>}
    BY <1>9, <1>10
  <1>12. s = b => References(s)' = References(s) \cup {<<t, 1>>}
    BY <1>9
  <1>13. s # a /\ s # b => References(s)' = References(s)
    BY <1>6, <1>9
  <1> QED
    BY <1>6, <1>7, <1>10, <1>11, <1>12, <1>13 DEF a, b

\* A new session: its worker's handle and the map's are the first.
LEMMA CreatedReferences ==
  ASSUME TypeOK, NEW t \in Worker, NEW x \in Session, Len(handles[t]) < MaxCalls,
         Push(t, x), sessions' = sessions \cup {x}, visited' = visited, NEW s \in Session
  PROVE  /\ s = x => References(s)' =
                References(s) \cup {<<t, Len(handles[t]) + 1>>} \cup {<<"map", 0>>}
         /\ s # x => References(s)' = References(s)
  <1> DEFINE n == Len(handles[t]) + 1
  <1>1. handles[t] \in Seq(SessionOrNull) /\ n \in 1..MaxCalls /\ Len(handles[t]) \in Nat
    BY MaxCallsAssumption, LenProperties DEF TypeOK
  <1>2. /\ handles' = [handles EXCEPT ![t] = Append(handles[t], x)]
        /\ handles \in [Worker -> Seq(SessionOrNull)] /\ x \in SessionOrNull
    BY DEF Push, TypeOK, SessionOrNull
  <1>3. /\ Len(handles'[t]) = n /\ handles'[t][n] = x
        /\ \A i \in 1..Len(handles[t]) : handles'[t][i] = handles[t][i]
        /\ \A u \in Worker : u # t => handles'[u] = handles[u]
    BY <1>1, <1>2, AppendProperties
  <1>4. ASSUME NEW u \in Worker, NEW i \in 1..MaxCalls
        PROVE  (i <= Len(handles'[u]) /\ handles'[u][i] = s)
                  <=> \/ i <= Len(handles[u]) /\ handles[u][i] = s
                      \/ u = t /\ i = n /\ s = x
    <2>1. CASE u # t
      BY <1>3, <2>1
    <2>2. CASE u = t /\ i = n
      BY <1>1, <1>3, <2>2
    <2>3. CASE u = t /\ i # n
      <3>1. i <= Len(handles'[u]) <=> i <= Len(handles[u])
        BY <1>1, <1>3, <2>3
      <3>2. i <= Len(handles[u]) => handles'[u][i] = handles[u][i]
        BY <1>1, <1>3, <2>3
      <3> QED
        BY <2>3, <3>1, <3>2
    <2> QED
      BY <2>1, <2>2, <2>3
  <1> HIDE DEF n
  <1>5. ASSUME NEW r
        PROVE  r \in References(s)' <=>
                    r \in References(s) \/ (s = x /\ (r = <<t, n>> \/ r = <<"map", 0>>))
    <2>1. (\E u \in Worker, i \in 1..MaxCalls :
              r = <<u, i>> /\ i <= Len(handles'[u]) /\ handles'[u][i] = s)
          <=> \/ \E u \in Worker, i \in 1..MaxCalls :
                    r = <<u, i>> /\ i <= Len(handles[u]) /\ handles[u][i] = s
              \/ r = <<t, n>> /\ s = x
      BY <1>1, <1>4
    <2> QED
      BY <2>1, ReferenceMember, ReferenceMemberPrimed
  <1>6. s = x => References(s)' = References(s) \cup {<<t, n>>} \cup {<<"map", 0>>}
    BY <1>5
  <1>7. s # x => References(s)' = References(s)
    BY <1>5
  <1> QED
    BY <1>6, <1>7 DEF n

-----------------------------------------------------------------------------
(* Counting. *)

\* Nothing changes.
LEMMA SameCount ==
  ASSUME NEW s \in Session, Counted(s), References(s)' = References(s), refCount'[s] = refCount[s]
  PROVE  Counted(s)'
  BY DEF Counted

\* A handle is copied.
LEMMA OneMore ==
  ASSUME NEW s \in Session, Counted(s), NEW r, r \notin References(s),
         References(s)' = References(s) \cup {r}, refCount'[s] = refCount[s] + 1
  PROVE  Counted(s)'
  BY FS_AddElement DEF Counted

\* A handle is destroyed.
LEMMA OneLess ==
  ASSUME NEW s \in Session, Counted(s), NEW r, r \in References(s),
         References(s)' = References(s) \ {r}, refCount'[s] = refCount[s] - 1
  PROVE  Counted(s)' /\ refCount'[s] \in Nat
  <1>1. IsFiniteSet(References(s)) /\ Cardinality(References(s)) = refCount[s]
    BY DEF Counted
  <1>2. IsFiniteSet(References(s)') /\ Cardinality(References(s)') = refCount[s] - 1
    BY <1>1, FS_RemoveElement
  <1>3. Cardinality(References(s)') \in Nat
    BY <1>2, FS_CardinalityType
  <1> QED
    BY <1>2, <1>3 DEF Counted

\* The handle that is counted down is the last one when the counter was 1.
LEMMA LastOne ==
  ASSUME NEW s \in Session, Counted(s), NEW r, r \in References(s)
  PROVE  refCount[s] = 1 <=> References(s) \ {r} = {}
  <1>1. IsFiniteSet(References(s)) /\ Cardinality(References(s)) = refCount[s]
    BY DEF Counted
  <1>2. /\ IsFiniteSet(References(s) \ {r})
        /\ Cardinality(References(s) \ {r}) = refCount[s] - 1
    BY <1>1, FS_RemoveElement
  <1>3. Cardinality(References(s)) \in Nat
    BY <1>1, FS_CardinalityType
  <1>4. Cardinality(References(s) \ {r}) = 0 <=> References(s) \ {r} = {}
    BY <1>2, FS_EmptySet
  <1> QED
    BY <1>1, <1>2, <1>3, <1>4

-----------------------------------------------------------------------------
(* Lives. *)

\* No handle comes or goes, and no data is deleted.
LEMMA QuietLives ==
  ASSUME CountsOK, LivesOK,
         UNCHANGED <<handles, sessions, visited, data, refCount, toDelete>>
  PROVE  CountsOK' /\ LivesOK'
  <1>1. \A s \in Session : References(s)' = References(s)
    BY SameReferences
  <1>2. CountsOK'
    BY <1>1, SameCount DEF CountsOK
  <1>3. ReferencedIsAlive'
    BY <1>1 DEF LivesOK, ReferencedIsAlive
  <1>4. DoomedIsAlive'
    <2> SUFFICES ASSUME NEW t \in Thread, toDelete[t] # None
                 PROVE  data[toDelete[t]] = "alive" /\ References(toDelete[t])' = {}
      BY DEF DoomedIsAlive
    <2>1. data[toDelete[t]] = "alive" /\ References(toDelete[t]) = {}
      BY DEF LivesOK, DoomedIsAlive
    <2>2. References(toDelete[t])' = References(toDelete[t])
      BY SameReferences
    <2> QED
      BY <2>1, <2>2
  <1>5. DeletedOnce'
    BY DEF LivesOK, DeletedOnce
  <1>6. NoLeak'
    BY <1>1 DEF LivesOK, NoLeak
  <1> QED
    BY <1>2, <1>3, <1>4, <1>5, <1>6 DEF LivesOK

\* Handles come and go, but no session without a handle gets one; thread t takes
\* over the deletion of x if it has dropped the last handle of x.
LEMMA LivesStep ==
  ASSUME TypeOK, LivesOK, data' = data, NEW t \in Thread, NEW x \in SessionOrNull,
         \/ x = None /\ toDelete' = toDelete
         \/ toDelete[t] = None /\ toDelete' = [toDelete EXCEPT ![t] = x],
         \A s \in Session : References(s)' # {} => References(s) # {},
         x # None => References(x) # {} /\ References(x)' = {},
         \A s \in Session : s # x /\ References(s) # {} => References(s)' # {}
  PROVE  LivesOK'
  <1>1. toDelete \in [Thread -> SessionOrNull] /\ SessionOrNull = Session \cup {None}
    BY DEF TypeOK, SessionOrNull
  <1>2. /\ \A u \in Thread : u # t => toDelete'[u] = toDelete[u]
        /\ toDelete'[t] = x \/ (x = None /\ toDelete'[t] = toDelete[t])
        /\ x # None => toDelete[t] = None
    BY <1>1
  <1>3. ReferencedIsAlive'
    BY DEF LivesOK, ReferencedIsAlive
  <1>4. DoomedIsAlive'
    <2>1. ASSUME NEW u \in Thread, NEW d \in Session, toDelete'[u] = d
          PROVE  data'[d] = "alive" /\ References(d)' = {}
      <3>1. CASE toDelete[u] = d
        <4>1. data[d] = "alive" /\ References(d) = {}
          BY <3>1, NoneAssumption DEF LivesOK, DoomedIsAlive
        <4> QED
          BY <4>1
      <3>2. CASE toDelete[u] # d
        <4>1. d = x /\ x # None
          BY <1>2, <2>1, <3>2, NoneAssumption
        <4> QED
          BY <4>1 DEF LivesOK, ReferencedIsAlive
      <3> QED
        BY <3>1, <3>2
    <2>2. \A u \in Thread : toDelete'[u] # None => toDelete'[u] \in Session
      BY <1>1, <1>2
    <2> QED
      BY <2>1, <2>2 DEF DoomedIsAlive
  <1>5. DeletedOnce'
    <2> SUFFICES ASSUME NEW u \in Thread, NEW v \in Thread, u # v, toDelete'[u] # None,
                        toDelete'[u] = toDelete'[v]
                 PROVE  FALSE
      BY DEF DeletedOnce
    <2>1. CASE toDelete'[u] = toDelete[u] /\ toDelete'[v] = toDelete[v]
      BY <2>1 DEF LivesOK, DeletedOnce
    <2>2. CASE toDelete'[u] # toDelete[u]
      <3>1. u = t /\ toDelete'[u] = x /\ x # None
        BY <1>2, <2>2
      <3>2. toDelete[v] = x
        BY <1>2, <3>1
      <3> QED
        BY <3>1, <3>2 DEF LivesOK, DoomedIsAlive
    <2>3. CASE toDelete'[v] # toDelete[v]
      <3>1. v = t /\ toDelete'[v] = x /\ x # None
        BY <1>2, <2>3
      <3>2. toDelete[u] = x
        BY <1>2, <3>1
      <3> QED
        BY <3>1, <3>2 DEF LivesOK, DoomedIsAlive
    <2> QED
      BY <2>1, <2>2, <2>3
  <1>6. NoLeak'
    <2> SUFFICES ASSUME NEW s \in Session, data[s] = "alive", References(s)' = {}
                 PROVE  \E u \in Thread : toDelete'[u] = s
      BY DEF NoLeak
    <2>1. CASE s = x
      BY <1>2, <2>1, NoneAssumption
    <2>2. CASE s # x
      <3>1. PICK u \in Thread : toDelete[u] = s
        BY <2>2 DEF LivesOK, NoLeak
      <3>2. toDelete'[u] = s
        BY <1>2, <3>1, NoneAssumption
      <3> QED
        BY <3>2
    <2> QED
      BY <2>1, <2>2
  <1> QED
    BY <1>3, <1>4, <1>5, <1>6 DEF LivesOK

\* What other workers' requests agree on stays, unless a new session appears.
LEMMA OthersAgree ==
  ASSUME NEW u \in Worker, CallsAgree(u),
         client'[u] = client[u], handles'[u] = handles[u], respCookie'[u] = respCookie[u],
         pc'[u] = pc[u], found'[u] = found[u],
         \A i \in 1..Len(handles[u]) : handles[u][i] \in sessions' => handles[u][i] \in sessions
  PROVE  CallsAgree(u)'
  BY DEF CallsAgree

\* A worker in the middle of its request has at most MaxCalls handles.
LEMMA StacksStep ==
  ASSUME StacksOK, NEW t \in Worker, pc'[t] \in {"touch", "run", "unwind"},
         Len(handles'[t]) <= MaxCalls,
         \A u \in Worker : u # t => pc'[u] = pc[u] /\ handles'[u] = handles[u],
         \A u \in Worker : u # t => client'[u] = client[u]
  PROVE  StacksOK'
  <1> SUFFICES ASSUME NEW u \in Worker
               PROVE  /\ Len(handles'[u]) <= MaxCalls
                      /\ pc'[u] = "idle" => handles'[u] = <<>> /\ client'[u] = None
                      /\ pc'[u] \in {"id", "look"} => Len(handles'[u]) < MaxCalls
    BY DEF StacksOK
  <1>1. CASE u # t
    BY <1>1 DEF StacksOK
  <1>2. CASE u = t
    BY <1>2
  <1> QED
    BY <1>1, <1>2

-----------------------------------------------------------------------------
(* The steps of a worker that touch no handle. *)

\* A request begins without handles.
LEMMA BeginRequestStep ==
  ASSUME IndInv, NEW t \in Worker, NEW k \in Client, BeginRequest(t, k)
  PROVE  IndInv'
  <1> USE DEF BeginRequest, sessionVars, workerVars, timerVars, Goto
  <1>1. TypeOK'
    BY DEF IndInv, TypeOK, PC, SessionOrNull
  <1>2. StacksOK'
    <2>1. \A u \in Worker : u # t => pc'[u] = pc[u] /\ client'[u] = client[u]
      BY DEF IndInv, TypeOK
    <2>2. pc'[t] = "id" /\ Len(handles[t]) < MaxCalls
      BY MaxCallsAssumption, EmptySeq DEF IndInv, TypeOK, StacksOK
    <2> QED
      BY <2>1, <2>2 DEF IndInv, StacksOK
  <1>3. TimerOK'
    BY DEF IndInv, TimerOK
  <1>4. CountsOK' /\ LivesOK'
    BY QuietLives DEF IndInv
  <1>5. CallsOK'
    <2> SUFFICES ASSUME NEW u \in Worker PROVE CallsAgree(u)'
      BY DEF CallsOK
    <2>1. CallsAgree(u)
      BY DEF IndInv, CallsOK
    <2>2. CASE u # t
      BY <2>1, <2>2, OthersAgree DEF IndInv, TypeOK
    <2>3. CASE u = t
      <3>1. handles'[t] = <<>>
        BY DEF IndInv, StacksOK
      <3>2. Len(handles'[t]) = 0
        BY <3>1, EmptySeq
      <3> QED
        BY <2>3, <3>2 DEF CallsAgree
    <2> QED
      BY <2>2, <2>3
  <1>6. TimesOK'
    BY DEF IndInv, TimesOK
  <1> QED
    BY <1>1, <1>2, <1>3, <1>4, <1>5, <1>6 DEF IndInv

\* What getSessionId() finds is the session the request already has.
LEMMA GetSessionIdStep ==
  ASSUME IndInv, NEW t \in Worker, GetSessionId(t)
  PROVE  IndInv'
  <1> USE DEF GetSessionId, sessionVars, workerVars, timerVars, Goto
  <1>1. TypeOK'
    BY DEF IndInv, TypeOK, PC, SessionOrNull, CookieOf
  <1>2. StacksOK'
    BY DEF IndInv, TypeOK, StacksOK, PC
  <1>3. TimerOK'
    BY DEF IndInv, TimerOK
  <1>4. CountsOK' /\ LivesOK'
    BY QuietLives DEF IndInv
  <1>5. CallsOK'
    <2> SUFFICES ASSUME NEW u \in Worker PROVE CallsAgree(u)'
      BY DEF CallsOK
    <2>1. CallsAgree(u)
      BY DEF IndInv, CallsOK
    <2>2. CASE u # t
      BY <2>1, <2>2, OthersAgree DEF IndInv, TypeOK
    <2>3. CASE u = t
      <3> SUFFICES ASSUME client[t] # None, NEW i \in 1..Len(handles[t]), handles[t][i] \in sessions
                   PROVE  found'[t] = handles[t][i]
        BY <2>1, <2>3 DEF CallsAgree
      <3>1. respCookie[t] = handles[t][i] /\ handles[t][i] # None
        BY <2>1, <2>3, NoneAssumption DEF CallsAgree, IndInv, TypeOK
      <3> QED
        BY <3>1 DEF CookieOf, IndInv, TypeOK
    <2> QED
      BY <2>2, <2>3
  <1>6. TimesOK'
    BY DEF IndInv, TimesOK
  <1> QED
    BY <1>1, <1>2, <1>3, <1>4, <1>5, <1>6 DEF IndInv

\* The time of access is renewed.
LEMMA TouchStep ==
  ASSUME IndInv, NEW t \in Worker, Touch(t)
  PROVE  IndInv'
  <1> USE DEF Touch, sessionVars, workerVars, timerVars, Goto, SetLastAccess, Returned
  <1>1. TypeOK'
    BY DEF IndInv, TypeOK, PC, SessionOrNull
  <1>2. StacksOK'
    BY DEF IndInv, TypeOK, StacksOK, PC
  <1>3. TimerOK'
    BY DEF IndInv, TimerOK
  <1>4. CountsOK' /\ LivesOK'
    BY QuietLives DEF IndInv
  <1>5. CallsOK'
    <2> SUFFICES ASSUME NEW u \in Worker PROVE CallsAgree(u)'
      BY DEF CallsOK
    <2>1. CallsAgree(u)
      BY DEF IndInv, CallsOK
    <2>2. CASE u # t
      BY <2>1, <2>2, OthersAgree DEF IndInv, TypeOK
    <2>3. CASE u = t
      BY <2>1, <2>3 DEF CallsAgree, IndInv, TypeOK
    <2> QED
      BY <2>2, <2>3
  <1>6. TimesOK'
    <2>1. /\ lastAccess \in [Session -> 0..MaxClock] /\ returned \in [Session -> 0..MaxClock]
          /\ clock \in 0..MaxClock /\ now \in 0..MaxClock /\ seen \in 0..MaxClock
          /\ visited # None => visited \in Session
      BY DEF IndInv, TypeOK, SessionOrNull
    <2>2. visited # None => now <= clock
      BY DEF IndInv, TimerOK, TimesOK
    <2> QED
      BY <2>1, <2>2, MaxClockAssumption DEF IndInv, TimesOK
  <1> QED
    BY <1>1, <1>2, <1>3, <1>4, <1>5, <1>6 DEF IndInv

\* The page calls getSession() again.
LEMMA CallPageStep ==
  ASSUME IndInv, NEW t \in Worker, CallPage(t)
  PROVE  IndInv'
  <1> USE DEF CallPage, sessionVars, workerVars, timerVars, Goto
  <1>1. TypeOK'
    BY DEF IndInv, TypeOK, PC, SessionOrNull
  <1>2. StacksOK'
    BY DEF IndInv, TypeOK, StacksOK, PC
  <1>3. TimerOK'
    BY DEF IndInv, TimerOK
  <1>4. CountsOK' /\ LivesOK'
    BY QuietLives DEF IndInv
  <1>5. CallsOK'
    <2> SUFFICES ASSUME NEW u \in Worker PROVE CallsAgree(u)'
      BY DEF CallsOK
    <2>1. CallsAgree(u)
      BY DEF IndInv, CallsOK
    <2>2. CASE u # t
      BY <2>1, <2>2, OthersAgree DEF IndInv, TypeOK
    <2>3. CASE u = t
      BY <2>1, <2>3 DEF CallsAgree, IndInv, TypeOK
    <2> QED
      BY <2>2, <2>3
  <1>6. TimesOK'
    BY DEF IndInv, TimesOK
  <1> QED
    BY <1>1, <1>2, <1>3, <1>4, <1>5, <1>6 DEF IndInv

\* The request is over.
LEMMA EndRequestStep ==
  ASSUME IndInv, NEW t \in Worker, EndRequest(t)
  PROVE  IndInv'
  <1> USE DEF EndRequest, sessionVars, workerVars, timerVars, Goto
  <1>1. TypeOK'
    BY DEF IndInv, TypeOK, PC, SessionOrNull
  <1>2. StacksOK'
    BY DEF IndInv, TypeOK, StacksOK, PC
  <1>3. TimerOK'
    BY DEF IndInv, TimerOK
  <1>4. CountsOK' /\ LivesOK'
    BY QuietLives DEF IndInv
  <1>5. CallsOK'
    <2> SUFFICES ASSUME NEW u \in Worker PROVE CallsAgree(u)'
      BY DEF CallsOK
    <2>1. CallsAgree(u)
      BY DEF IndInv, CallsOK
    <2>2. CASE u # t
      BY <2>1, <2>2, OthersAgree DEF IndInv, TypeOK
    <2>3. CASE u = t
      BY <2>3 DEF CallsAgree, IndInv, TypeOK
    <2> QED
      BY <2>2, <2>3
  <1>6. TimesOK'
    BY DEF IndInv, TimesOK
  <1> QED
    BY <1>1, <1>2, <1>3, <1>4, <1>5, <1>6 DEF IndInv

-----------------------------------------------------------------------------
(* The steps of the timer and of time that touch no handle. *)

\* The timer event gets the mutex.
LEMMA TimerBeginStep ==
  ASSUME IndInv, TimerBegin
  PROVE  IndInv'
  <1> USE DEF TimerBegin, sessionVars, workerVars, timerVars, Goto
  <1>1. TypeOK'
    BY DEF IndInv, TypeOK, PC, SessionOrNull
  <1>2. StacksOK'
    BY DEF IndInv, TypeOK, StacksOK, PC
  <1>3. TimerOK'
    BY MainAssumption, NoneAssumption DEF IndInv, TimerOK, TypeOK
  <1>4. CountsOK' /\ LivesOK'
    BY QuietLives DEF IndInv
  <1>5. CallsOK'
    BY DEF IndInv, CallsOK, CallsAgree
  <1>6. TimesOK'
    BY MaxClockAssumption, MainAssumption DEF IndInv, TimesOK, TimerOK, TypeOK
  <1> QED
    BY <1>1, <1>2, <1>3, <1>4, <1>5, <1>6 DEF IndInv

\* The timer event releases the mutex.
LEMMA TimerEndStep ==
  ASSUME IndInv, TimerEnd
  PROVE  IndInv'
  <1> USE DEF TimerEnd, sessionVars, workerVars, timerVars, Goto
  <1>1. TypeOK'
    BY MaxClockAssumption DEF IndInv, TypeOK, PC, SessionOrNull
  <1>2. StacksOK'
    BY DEF IndInv, TypeOK, StacksOK, PC
  <1>3. TimerOK'
    BY MainAssumption, NoneAssumption DEF IndInv, TimerOK, TypeOK
  <1>4. CountsOK' /\ LivesOK'
    BY QuietLives DEF IndInv
  <1>5. CallsOK'
    BY DEF IndInv, CallsOK, CallsAgree
  <1>6. TimesOK'
    BY MaxClockAssumption, MainAssumption DEF IndInv, TimesOK, TimerOK, TypeOK
  <1> QED
    BY <1>1, <1>2, <1>3, <1>4, <1>5, <1>6 DEF IndInv

\* Time passes.
LEMMA TimePassesStep ==
  ASSUME IndInv, TimePasses
  PROVE  IndInv'
  <1> USE DEF TimePasses, sessionVars, workerVars, timerVars, Goto, Tick
  <1>1. TypeOK'
    BY MaxClockAssumption DEF IndInv, TypeOK, PC, SessionOrNull
  <1>2. StacksOK'
    BY DEF IndInv, TypeOK, StacksOK, PC
  <1>3. TimerOK'
    BY DEF IndInv, TimerOK
  <1>4. CountsOK' /\ LivesOK'
    BY QuietLives DEF IndInv
  <1>5. CallsOK'
    BY DEF IndInv, CallsOK, CallsAgree
  <1>6. TimesOK'
    BY MaxClockAssumption DEF IndInv, TimesOK, TypeOK
  <1> QED
    BY <1>1, <1>2, <1>3, <1>4, <1>5, <1>6 DEF IndInv

-----------------------------------------------------------------------------
(* The steps that make handles. *)

\* A worker has got a handle to h, which is null or in the map, and nothing else
\* about handles has changed.
LEMMA CopyPushed ==
  ASSUME IndInv, NEW t \in Worker, NEW h \in SessionOrNull, h # None => h \in sessions,
         Len(handles[t]) < MaxCalls, Copy(h), Push(t, h),
         UNCHANGED <<data, sessions, visited, toDelete>>
  PROVE  /\ refCount' \in [Session -> Nat] /\ handles' \in [Worker -> Seq(SessionOrNull)]
         /\ CountsOK' /\ LivesOK'
         /\ Len(handles'[t]) = Len(handles[t]) + 1
         /\ handles'[t][Len(handles[t]) + 1] = h
         /\ \A i \in 1..Len(handles[t]) : handles'[t][i] = handles[t][i]
         /\ \A u \in Worker : u # t => handles'[u] = handles[u]
  <1>1. /\ handles \in [Worker -> Seq(SessionOrNull)] /\ refCount \in [Session -> Nat]
        /\ SessionOrNull = Session \cup {None}
    BY DEF IndInv, TypeOK, SessionOrNull
  <1>2. refCount' \in [Session -> Nat]
    BY <1>1 DEF Copy
  <1>3. /\ handles'[t] = Append(handles[t], h) /\ handles' \in [Worker -> Seq(SessionOrNull)]
        /\ \A u \in Worker : u # t => handles'[u] = handles[u]
    BY <1>1 DEF Push
  <1>4. /\ Len(handles'[t]) = Len(handles[t]) + 1
        /\ handles'[t][Len(handles[t]) + 1] = h
        /\ \A i \in 1..Len(handles[t]) : handles'[t][i] = handles[t][i]
    BY <1>1, <1>3, AppendProperties
  <1>5. ASSUME NEW s \in Session PROVE Counted(s)'
    <2>1. Counted(s)
      BY DEF IndInv, CountsOK
    <2>2. CASE s = h
      <3>1. /\ References(s)' = References(s) \cup {<<t, Len(handles[t]) + 1>>}
            /\ <<t, Len(handles[t]) + 1>> \notin References(s)
        BY <2>2, PushedReference DEF IndInv
      <3>2. refCount'[s] = refCount[s] + 1
        BY <2>2 DEF Copy
      <3> QED
        BY <2>1, <3>1, <3>2, OneMore
    <2>3. CASE s # h
      <3>1. References(s)' = References(s)
        BY <2>3, PushedReference DEF IndInv
      <3>2. refCount'[s] = refCount[s]
        BY <2>3 DEF Copy
      <3> QED
        BY <2>1, <3>1, <3>2, SameCount
    <2> QED
      BY <2>2, <2>3
  <1>6. ASSUME NEW s \in Session PROVE References(s)' # {} <=> References(s) # {}
    <2>1. CASE s = h
      <3>1. <<"map", 0>> \in References(s)
        BY <2>1, MapReference, NoneAssumption
      <3>2. References(s) \subseteq References(s)'
        BY <2>1, PushedReference DEF IndInv
      <3> QED
        BY <3>1, <3>2
    <2>2. CASE s # h
      BY <2>2, PushedReference DEF IndInv
    <2> QED
      BY <2>1, <2>2
  <1>7. LivesOK'
    <2>1. t \in Thread /\ None \in SessionOrNull
      BY DEF Thread, SessionOrNull
    <2> QED
      BY <1>6, <2>1, LivesStep DEF IndInv
  <1> QED
    BY <1>2, <1>3, <1>4, <1>5, <1>7 DEF CountsOK

\* getSession(id) has found the session or not.
LEMMA GetSessionByIdStep ==
  ASSUME IndInv, NEW t \in Worker, NEW id \in Session, GetSessionById(t, id)
  PROVE  IndInv'
  <1> USE DEF GetSessionById, timerVars, Goto
  <1>1. PICK h \in SessionOrNull : (h # None => h \in sessions) /\ Copy(h) /\ Push(t, h)
    BY DEF SessionOrNull
  <1>2. Len(handles[t]) = 0 /\ Len(handles[t]) < MaxCalls /\ client[t] = None
    BY MaxCallsAssumption, EmptySeq DEF IndInv, StacksOK
  <1>3. /\ refCount' \in [Session -> Nat] /\ handles' \in [Worker -> Seq(SessionOrNull)]
        /\ CountsOK' /\ LivesOK'
        /\ Len(handles'[t]) = Len(handles[t]) + 1
        /\ \A u \in Worker : u # t => handles'[u] = handles[u]
    BY <1>1, <1>2, CopyPushed
  <1>4. /\ pc'[t] = "touch" /\ pc' \in [Worker -> PC]
        /\ \A u \in Worker : u # t => pc'[u] = pc[u]
    BY DEF IndInv, TypeOK, PC
  <1>5. TypeOK'
    BY <1>3, <1>4 DEF IndInv, TypeOK
  <1>6. StacksOK'
    <2>1. Len(handles'[t]) <= MaxCalls
      BY <1>2, <1>3, MaxCallsAssumption
    <2> QED
      BY <1>3, <1>4, <2>1, StacksStep DEF IndInv
  <1>7. TimerOK'
    BY DEF IndInv, TimerOK
  <1>8. CallsOK'
    <2> SUFFICES ASSUME NEW u \in Worker PROVE CallsAgree(u)'
      BY DEF CallsOK
    <2>1. CASE u # t
      BY <1>3, <1>4, <2>1, OthersAgree DEF IndInv, CallsOK
    <2>2. CASE u = t
      BY <1>2, <2>2 DEF CallsAgree
    <2> QED
      BY <2>1, <2>2
  <1>9. TimesOK'
    BY DEF IndInv, TimesOK
  <1> QED
    BY <1>3, <1>5, <1>6, <1>7, <1>8, <1>9 DEF IndInv

\* getSession() has found the session again.
LEMMA FoundAgainStep ==
  ASSUME IndInv, NEW t \in Worker, GetSession(t), FoundAgain(t)
  PROVE  IndInv'
  <1> USE DEF GetSession, FoundAgain, Unlock, timerVars, Goto
  <1> DEFINE h == found[t]
             n == Len(handles[t])
  <1>1. h \in sessions /\ h \in SessionOrNull /\ n < MaxCalls /\ n \in Nat
    BY LenProperties DEF IndInv, TypeOK, StacksOK
  <1>2. /\ refCount' \in [Session -> Nat] /\ handles' \in [Worker -> Seq(SessionOrNull)]
        /\ CountsOK' /\ LivesOK'
        /\ Len(handles'[t]) = n + 1 /\ handles'[t][n + 1] = h
        /\ \A i \in 1..n : handles'[t][i] = handles[t][i]
        /\ \A u \in Worker : u # t => handles'[u] = handles[u]
    BY <1>1, CopyPushed
  <1>3. /\ pc'[t] = "touch" /\ pc' \in [Worker -> PC] /\ respCookie'[t] = h
        /\ respCookie' \in [Worker -> SessionOrNull]
        /\ \A u \in Worker : u # t => pc'[u] = pc[u] /\ respCookie'[u] = respCookie[u]
    BY <1>1 DEF IndInv, TypeOK, PC
  <1>4. TypeOK'
    BY <1>2, <1>3 DEF IndInv, TypeOK
  <1>5. StacksOK'
    <2>1. Len(handles'[t]) <= MaxCalls
      BY <1>1, <1>2, MaxCallsAssumption
    <2> QED
      BY <1>2, <1>3, <2>1, StacksStep DEF IndInv
  <1>6. TimerOK'
    BY DEF IndInv, TimerOK
  <1>7. CallsOK'
    <2> SUFFICES ASSUME NEW u \in Worker PROVE CallsAgree(u)'
      BY DEF CallsOK
    <2>1. CASE u # t
      BY <1>2, <1>3, <2>1, OthersAgree DEF IndInv, CallsOK
    <2>2. CASE u = t
      <3> SUFFICES ASSUME client[t] # None, NEW i \in 1..(n + 1), handles'[t][i] \in sessions
                   PROVE  /\ h = handles'[t][i]
                          /\ \A j \in 1..(n + 1) : i <= j => handles'[t][j] = handles'[t][i]
        BY <1>2, <1>3, <2>2 DEF CallsAgree
      <3>1. CASE i = n + 1
        BY <1>1, <1>2, <3>1
      <3>2. CASE i \in 1..n
        <4>1. /\ h = handles[t][i]
              /\ \A j \in 1..n : i <= j => handles[t][j] = handles[t][i]
          BY <1>2, <3>2 DEF IndInv, CallsOK, CallsAgree
        <4>2. handles'[t][i] = handles[t][i] /\ handles'[t][n + 1] = handles[t][i]
          BY <1>2, <3>2, <4>1
        <4>3. ASSUME NEW j \in 1..n, i <= j PROVE handles'[t][j] = handles[t][i]
          BY <1>2, <4>1, <4>3
        <4>4. \A j \in 1..(n + 1) : j = n + 1 \/ j \in 1..n
          BY <1>1
        <4> QED
          BY <4>1, <4>2, <4>3, <4>4
      <3> QED
        BY <1>1, <3>1, <3>2
    <2> QED
      BY <2>1, <2>2
  <1>8. TimesOK'
    BY DEF IndInv, TimesOK
  <1> QED
    BY <1>2, <1>4, <1>5, <1>6, <1>7, <1>8 DEF IndInv

\* getSession() has not found the session, and may not create one.
LEMMA NullSessionStep ==
  ASSUME IndInv, NEW t \in Worker, GetSession(t), NullSession(t)
  PROVE  IndInv'
  <1> USE DEF GetSession, NullSession, Unlock, timerVars, sessionVars, Goto
  <1> DEFINE n == Len(handles[t])
  <1>1. None \in SessionOrNull /\ n < MaxCalls /\ n \in Nat /\ Copy(None)
    <2>1. n < MaxCalls /\ n \in Nat /\ refCount \in [Session -> Nat]
      BY LenProperties DEF IndInv, TypeOK, StacksOK
    <2>2. refCount = [x \in Session |-> IF x = None THEN refCount[x] + 1 ELSE refCount[x]]
      BY <2>1, NoneAssumption
    <2> QED
      BY <2>1, <2>2 DEF Copy, SessionOrNull
  <1>2. /\ handles' \in [Worker -> Seq(SessionOrNull)]
        /\ CountsOK' /\ LivesOK'
        /\ Len(handles'[t]) = n + 1 /\ handles'[t][n + 1] = None
        /\ \A i \in 1..n : handles'[t][i] = handles[t][i]
        /\ \A u \in Worker : u # t => handles'[u] = handles[u]
    BY <1>1, CopyPushed
  <1>3. /\ pc'[t] = "run" /\ pc' \in [Worker -> PC]
        /\ \A u \in Worker : u # t => pc'[u] = pc[u]
    BY DEF IndInv, TypeOK, PC
  <1>4. TypeOK'
    BY <1>2, <1>3 DEF IndInv, TypeOK
  <1>5. StacksOK'
    <2>1. Len(handles'[t]) <= MaxCalls
      BY <1>1, <1>2, MaxCallsAssumption
    <2> QED
      BY <1>2, <1>3, <2>1, StacksStep DEF IndInv
  <1>6. TimerOK'
    BY DEF IndInv, TimerOK
  <1>7. CallsOK'
    <2> SUFFICES ASSUME NEW u \in Worker PROVE CallsAgree(u)'
      BY DEF CallsOK
    <2>1. CASE u # t
      BY <1>2, <1>3, <2>1, OthersAgree DEF IndInv, CallsOK
    <2>2. CASE u = t
      <3> SUFFICES ASSUME client[t] # None, NEW i \in 1..(n + 1), handles'[t][i] \in sessions
                   PROVE  FALSE
        BY <1>2, <2>2 DEF CallsAgree
      <3>1. handles'[t][i] # None
        BY NoneAssumption DEF IndInv, TypeOK
      <3>2. i \in 1..n
        BY <1>1, <1>2, <3>1
      <3>3. found[t] = handles[t][i]
        BY <1>2, <3>2 DEF IndInv, CallsOK, CallsAgree
      <3> QED
        BY <1>2, <3>2, <3>3
    <2> QED
      BY <2>1, <2>2
  <1>8. TimesOK'
    BY DEF IndInv, TimesOK
  <1> QED
    BY <1>2, <1>4, <1>5, <1>6, <1>7, <1>8 DEF IndInv

\* A handle of a worker is a reference.
LEMMA HandleReference ==
  ASSUME IndInv, NEW u \in Worker, NEW i \in 1..Len(handles[u])
  PROVE  <<u, i>> \in References(handles[u][i]) /\ handles[u][i] \in SessionOrNull
  <1>1. handles[u] \in Seq(SessionOrNull) /\ Len(handles[u]) <= MaxCalls /\ Len(handles[u]) \in Nat
    BY LenProperties DEF IndInv, TypeOK, StacksOK
  <1>2. handles[u][i] \in SessionOrNull
    BY <1>1, ElementOfSeq
  <1>3. i \in 1..MaxCalls /\ i <= Len(handles[u])
    BY <1>1, MaxCallsAssumption
  <1> QED
    BY <1>2, <1>3, ReferenceMember

\* getSession() has created a session.
LEMMA CreateSessionStep ==
  ASSUME IndInv, NEW t \in Worker, GetSession(t), CreateSession(t)
  PROVE  IndInv'
  <1> USE DEF GetSession, Unlock, timerVars, Goto
  <1> DEFINE n == Len(handles[t])
  <1>1. PICK x \in Session :
            /\ ConstructAndInsert(x) /\ sessions' = sessions \cup {x} /\ Push(t, x)
            /\ respCookie' = [respCookie EXCEPT ![t] = x] /\ Returned(x)
    BY DEF CreateSession
  <1>2. found[t] \notin sessions /\ pc[t] = "look" /\ pc' = [pc EXCEPT ![t] = "run"]
    BY DEF CreateSession
  <1>3. n < MaxCalls /\ n \in Nat /\ handles[t] \in Seq(SessionOrNull)
    BY <1>2, LenProperties DEF IndInv, TypeOK, StacksOK
  <1>4. visited = None /\ mutex = None
    BY MainAssumption DEF IndInv, TimerOK
  <1>5. data[x] = "unborn" /\ References(x) = {} /\ x \notin sessions
    <2>1. data[x] = "unborn" /\ References(x) = {}
      BY <1>1 DEF ConstructAndInsert, IndInv, LivesOK, ReferencedIsAlive
    <2> QED
      BY <2>1, MapReference
  <1>6. \A u \in Worker : \A i \in 1..Len(handles[u]) : handles[u][i] # x
    BY <1>5, HandleReference
  <1>7. /\ handles' \in [Worker -> Seq(SessionOrNull)]
        /\ handles'[t] = Append(handles[t], x)
        /\ \A u \in Worker : u # t => handles'[u] = handles[u]
    BY <1>1 DEF Push, IndInv, TypeOK, SessionOrNull
  <1>8. /\ Len(handles'[t]) = n + 1 /\ handles'[t][n + 1] = x
        /\ \A i \in 1..n : handles'[t][i] = handles[t][i]
    BY <1>3, <1>7, AppendProperties DEF SessionOrNull
  <1>9. /\ pc'[t] = "run" /\ pc' \in [Worker -> PC] /\ respCookie'[t] = x
        /\ respCookie' \in [Worker -> SessionOrNull]
        /\ \A u \in Worker : u # t => pc'[u] = pc[u] /\ respCookie'[u] = respCookie[u]
    BY <1>1, <1>2 DEF IndInv, TypeOK, PC, SessionOrNull
  <1>10. /\ data' = [data EXCEPT ![x] = "alive"] /\ refCount' = [refCount EXCEPT ![x] = 2]
         /\ lastAccess' = [lastAccess EXCEPT ![x] = clock]
         /\ returned' = [s \in Session |-> IF s = x THEN clock ELSE returned[s]]
    BY <1>1 DEF ConstructAndInsert, Returned
  <1>11. ASSUME NEW s \in Session
         PROVE  /\ s = x => References(s)' = {<<t, n + 1>>, <<"map", 0>>}
                /\ s # x => References(s)' = References(s)
    <2>1. /\ s = x => References(s)' =
                 References(s) \cup {<<t, Len(handles[t]) + 1>>} \cup {<<"map", 0>>}
          /\ s # x => References(s)' = References(s)
      BY <1>1, <1>3, CreatedReferences DEF IndInv
    <2> QED
      BY <1>5, <2>1
  <1>12. TypeOK'
    BY <1>1, <1>7, <1>9, <1>10 DEF IndInv, TypeOK, Data
  <1>13. StacksOK'
    <2>1. Len(handles'[t]) <= MaxCalls
      BY <1>3, <1>8, MaxCallsAssumption
    <2> QED
      BY <1>7, <1>9, <2>1, StacksStep DEF IndInv
  <1>14. TimerOK'
    BY <1>1, <1>4, MainAssumption DEF IndInv, TimerOK
  <1>15. CountsOK'
    <2> SUFFICES ASSUME NEW s \in Session PROVE Counted(s)'
      BY DEF CountsOK
    <2>1. CASE s = x
      <3>1. <<t, n + 1>> \notin {<<"map", 0>>}
        <4>1. n + 1 \in 1..MaxCalls
          BY <1>3, MaxCallsAssumption
        <4> QED
          BY <4>1, PlacesDiffer
      <3>2. IsFiniteSet({<<"map", 0>>}) /\ Cardinality({<<"map", 0>>}) = 1
        BY FS_Singleton
      <3>3. References(s)' = {<<"map", 0>>} \cup {<<t, n + 1>>}
        BY <1>11, <2>1
      <3>4. /\ IsFiniteSet({<<"map", 0>>} \cup {<<t, n + 1>>})
            /\ Cardinality({<<"map", 0>>} \cup {<<t, n + 1>>}) = 1 + 1
        BY <3>1, <3>2, FS_AddElement
      <3>5. refCount'[s] = 2
        BY <1>10, <2>1 DEF IndInv, TypeOK
      <3> QED
        BY <3>3, <3>4, <3>5 DEF Counted
    <2>2. CASE s # x
      <3>1. refCount'[s] = refCount[s]
        BY <1>10, <2>2 DEF IndInv, TypeOK
      <3> QED
        BY <1>11, <2>2, <3>1, SameCount DEF IndInv, CountsOK
    <2> QED
      BY <2>1, <2>2
  <1>16. LivesOK'
    <2>1. /\ data'[x] = "alive"
          /\ \A s \in Session : s # x => data'[s] = data[s] /\ References(s)' = References(s)
      BY <1>10, <1>11 DEF IndInv, TypeOK
    <2>2. toDelete \in [Thread -> SessionOrNull] /\ toDelete' = toDelete
      BY DEF IndInv, TypeOK
    <2>3. ReferencedIsAlive'
      BY <2>1 DEF IndInv, LivesOK, ReferencedIsAlive
    <2>4. DoomedIsAlive'
      <3> SUFFICES ASSUME NEW u \in Thread, toDelete[u] # None
                   PROVE  data'[toDelete[u]] = "alive" /\ References(toDelete[u])' = {}
        BY <2>2 DEF DoomedIsAlive
      <3>1. /\ data[toDelete[u]] = "alive" /\ References(toDelete[u]) = {}
            /\ toDelete[u] \in Session
        BY <2>2 DEF IndInv, LivesOK, DoomedIsAlive, SessionOrNull
      <3>2. toDelete[u] # x
        BY <1>5, <3>1
      <3> QED
        BY <2>1, <3>1, <3>2
    <2>5. DeletedOnce'
      BY <2>2 DEF IndInv, LivesOK, DeletedOnce
    <2>6. NoLeak'
      <3> SUFFICES ASSUME NEW s \in Session, data'[s] = "alive", References(s)' = {}
                   PROVE  \E u \in Thread : toDelete'[u] = s
        BY DEF NoLeak
      <3>1. s # x
        BY <1>11
      <3> QED
        BY <2>1, <2>2, <3>1 DEF IndInv, LivesOK, NoLeak
    <2> QED
      BY <2>3, <2>4, <2>5, <2>6 DEF LivesOK
  <1>17. CallsOK'
    <2> SUFFICES ASSUME NEW u \in Worker PROVE CallsAgree(u)'
      BY DEF CallsOK
    <2>1. CASE u # t
      BY <1>1, <1>6, <1>7, <1>9, <2>1, OthersAgree DEF IndInv, CallsOK
    <2>2. CASE u = t
      <3> SUFFICES ASSUME client[t] # None, NEW i \in 1..(n + 1), handles'[t][i] \in sessions'
                   PROVE  i = n + 1
        <4>1. \A j \in 1..(n + 1) : n + 1 <= j => j = n + 1
          BY <1>3
        <4> QED
          BY <1>8, <1>9, <2>2, <4>1 DEF CallsAgree
      <3>1. CASE i \in 1..n
        <4>1. handles[t][i] \in sessions
          BY <1>1, <1>6, <1>8, <3>1
        <4>2. found[t] = handles[t][i]
          BY <1>2, <3>1, <4>1 DEF IndInv, CallsOK, CallsAgree
        <4> QED
          BY <1>2, <4>1, <4>2
      <3> QED
        BY <1>3, <3>1
    <2> QED
      BY <2>1, <2>2
  <1>18. TimesOK'
    <2>1. /\ \A s \in Session : s # x => lastAccess'[s] = lastAccess[s] /\ returned'[s] = returned[s]
          /\ lastAccess'[x] = clock /\ returned'[x] = clock /\ clock \in Nat
      BY <1>10, MaxClockAssumption DEF IndInv, TypeOK
    <2> QED
      BY <1>4, <2>1, MainAssumption DEF IndInv, TimesOK
  <1> QED
    BY <1>12, <1>13, <1>14, <1>15, <1>16, <1>17, <1>18 DEF IndInv

-----------------------------------------------------------------------------
(* The steps that drop handles. *)

\* A worker assigns one of its handles to the other.
LEMMA AssignHandleStep ==
  ASSUME IndInv, NEW t \in Worker, AssignHandle(t)
  PROVE  IndInv'
  <1> USE DEF AssignHandle, timerVars
  <1>1. /\ refCount \in [Session -> Nat] /\ handles \in [Worker -> Seq(SessionOrNull)]
        /\ handles[t] \in Seq(SessionOrNull) /\ Len(handles[t]) = 2
    BY DEF IndInv, TypeOK
  <1>2. PICK a \in SessionOrNull, b \in SessionOrNull :
            a = handles[t][1] /\ b = handles[t][2] /\ a # b
    <2>1. 1 \in 1..Len(handles[t]) /\ 2 \in 1..Len(handles[t])
      BY <1>1
    <2> QED
      BY <1>1, <2>1, ElementOfSeq
  <1>3. /\ handles'[t] = [handles[t] EXCEPT ![1] = b]
        /\ \A u \in Worker : u # t => handles'[u] = handles[u]
    BY <1>1, <1>2
  <1>4. /\ Len(handles'[t]) = 2 /\ handles'[t][1] = b /\ handles'[t][2] = b
        /\ handles'[t] \in Seq(SessionOrNull)
    <2>1. 1 \in 1..Len(handles[t]) /\ 2 \in 1..Len(handles[t])
      BY <1>1
    <2>2. /\ Len(handles'[t]) = Len(handles[t]) /\ handles'[t] \in Seq(SessionOrNull)
          /\ \A j \in 1..Len(handles[t]) : handles'[t][j] = IF j = 1 THEN b ELSE handles[t][j]
      BY <1>1, <1>3, <2>1, ExceptSeq
    <2> QED
      BY <1>1, <1>2, <2>1, <2>2
  <1>5. ASSUME NEW s \in Session
        PROVE  /\ s = a => References(s)' = References(s) \ {<<t, 1>>} /\ <<t, 1>> \in References(s)
               /\ s = b => /\ References(s)' = References(s) \cup {<<t, 1>>} /\ <<t, 1>> \notin References(s)
                           /\ <<t, 2>> \in References(s)
               /\ s # a /\ s # b => References(s)' = References(s)
    BY <1>2, AssignedReference DEF IndInv
  <1>6. ASSUME NEW s \in Session
        PROVE  /\ s = a => refCount'[s] = refCount[s] - 1
               /\ s = b => refCount'[s] = refCount[s] + 1
               /\ s # a /\ s # b => refCount'[s] = refCount[s]
    BY <1>1, <1>2 DEF Reassign
  <1>7. ASSUME NEW s \in Session PROVE Counted(s)' /\ refCount'[s] \in Nat
    <2>1. Counted(s) /\ refCount[s] \in Nat
      BY <1>1 DEF IndInv, CountsOK
    <2>2. CASE s = a
      BY <1>5, <1>6, <2>1, <2>2, OneLess
    <2>3. CASE s = b
      BY <1>5, <1>6, <2>1, <2>3, OneMore
    <2>4. CASE s # a /\ s # b
      BY <1>5, <1>6, <2>1, <2>4, SameCount
    <2> QED
      BY <2>2, <2>3, <2>4
  <1>8. refCount' \in [Session -> Nat]
    BY <1>7 DEF Reassign
  <1>9. PICK x \in SessionOrNull : x = IF LastReference(a) THEN a ELSE None
    BY DEF SessionOrNull
  <1>10. toDelete' = [toDelete EXCEPT ![t] = x] /\ toDelete[t] = None
    BY <1>2, <1>9
  <1>11. /\ x # None => x = a /\ a \in Session /\ refCount[a] = 1
         /\ \A s \in Session : s = a /\ s # x => refCount[s] # 1
    BY <1>9, NoneAssumption DEF LastReference, SessionOrNull
  <1>12. TypeOK'
    <2>1. lastAccess' \in [Session -> 0..MaxClock]
      BY DEF Reassign, IndInv, TypeOK
    <2>2. handles' \in [Worker -> Seq(SessionOrNull)]
      BY <1>1, <1>3, <1>4
    <2>3. toDelete' \in [Thread -> SessionOrNull]
      BY <1>9, <1>10 DEF IndInv, TypeOK
    <2> QED
      BY <1>8, <2>1, <2>2, <2>3 DEF IndInv, TypeOK
  <1>13. StacksOK'
    BY <1>1, <1>3, <1>4, StacksStep DEF IndInv, StacksOK
  <1>14. TimerOK'
    <2>1. t # Main
      BY MainAssumption
    <2> QED
      BY <2>1 DEF IndInv, TimerOK, TypeOK
  <1>15. CountsOK'
    BY <1>7 DEF CountsOK
  <1>16. LivesOK'
    <2>1. t \in Thread
      BY DEF Thread
    <2>2. ASSUME NEW s \in Session, References(s)' # {} PROVE References(s) # {}
      BY <1>5, <2>2
    <2>3. ASSUME x # None PROVE References(x) # {} /\ References(x)' = {}
      <3>1. Counted(a) /\ <<t, 1>> \in References(a) /\ References(a)' = References(a) \ {<<t, 1>>}
        BY <1>5, <1>11, <2>3 DEF CountsOK, IndInv
      <3> QED
        BY <1>11, <2>3, <3>1, LastOne
    <2>4. ASSUME NEW s \in Session, s # x, References(s) # {} PROVE References(s)' # {}
      <3>1. CASE s = a
        <4>1. Counted(s) /\ refCount[s] # 1
          BY <1>11, <2>4, <3>1 DEF IndInv, CountsOK
        <4> QED
          BY <1>5, <3>1, <4>1, LastOne
      <3>2. CASE s # a
        BY <1>5, <2>4, <3>2
      <3> QED
        BY <3>1, <3>2
    <2> QED
      BY <1>9, <1>10, <2>1, <2>2, <2>3, <2>4, LivesStep DEF IndInv
  <1>17. CallsOK'
    <2> SUFFICES ASSUME NEW u \in Worker PROVE CallsAgree(u)'
      BY DEF CallsOK
    <2>1. CASE u # t
      BY <1>3, <2>1, OthersAgree DEF IndInv, CallsOK
    <2>2. CASE u = t
      <3>1. client[t] # None /\ b \in sessions => respCookie[t] = b
        <4>1. 2 \in 1..Len(handles[t])
          BY <1>1
        <4> QED
          BY <1>2, <4>1 DEF IndInv, CallsOK, CallsAgree
      <3>2. \A i \in 1..Len(handles'[t]) : handles'[t][i] = b
        BY <1>4
      <3> QED
        BY <2>2, <3>1, <3>2 DEF CallsAgree
    <2> QED
      BY <2>1, <2>2
  <1>18. TimesOK'
    <2>1. /\ \A s \in Session : lastAccess'[s] = clock \/ lastAccess'[s] = lastAccess[s]
          /\ lastAccess \in [Session -> 0..MaxClock] /\ returned \in [Session -> 0..MaxClock]
          /\ clock \in 0..MaxClock
      BY DEF Reassign, IndInv, TypeOK
    <2> QED
      BY <2>1, MaxClockAssumption DEF IndInv, TimesOK
  <1> QED
    BY <1>12, <1>13, <1>14, <1>15, <1>16, <1>17, <1>18 DEF IndInv

\* removeSession() takes the session out of the map: the handle it was called
\* with remains.
LEMMA RemoveSessionStep ==
  ASSUME IndInv, NEW t \in Worker, RemoveSession(t)
  PROVE  IndInv'
  <1> USE DEF RemoveSession, workerVars, timerVars
  <1>1. PICK h \in sessions : h = Last(handles[t])
    OBVIOUS
  <1>2. /\ sessions' = sessions \ {h} /\ h \in Session /\ refCount \in [Session -> Nat]
        /\ refCount' = [s \in Session |-> IF s = h THEN refCount[s] - 1 ELSE refCount[s]]
    BY <1>1 DEF Release, IndInv, TypeOK
  <1>3. <<t, Len(handles[t])>> \in References(h) /\ <<t, Len(handles[t])>> # <<"map", 0>>
    <2>1. handles[t] \in Seq(SessionOrNull) /\ Len(handles[t]) <= MaxCalls
      BY DEF IndInv, TypeOK, StacksOK
    <2>2. Len(handles[t]) \in 1..Len(handles[t]) /\ Len(handles[t]) \in 1..MaxCalls
      BY <2>1, LenProperties, EmptySeq, MaxCallsAssumption
    <2>3. h = handles[t][Len(handles[t])]
      BY <1>1 DEF Last
    <2> QED
      BY <2>2, <2>3, HandleReference, PlacesDiffer
  <1>4. ASSUME NEW s \in Session
        PROVE  /\ s = h => /\ References(s)' = References(s) \ {<<"map", 0>>}
                           /\ <<"map", 0>> \in References(s)
               /\ s # h => References(s)' = References(s)
    BY <1>1, <1>2, ErasedReference, MapReference
  <1>5. ASSUME NEW s \in Session PROVE Counted(s)' /\ refCount'[s] \in Nat
    <2>1. Counted(s) /\ refCount[s] \in Nat
      BY <1>2 DEF IndInv, CountsOK
    <2>2. CASE s = h
      BY <1>2, <1>4, <2>1, <2>2, OneLess
    <2>3. CASE s # h
      BY <1>2, <1>4, <2>1, <2>3, SameCount
    <2> QED
      BY <2>2, <2>3
  <1>6. TypeOK'
    <2>1. refCount' \in [Session -> Nat]
      BY <1>2, <1>5
    <2> QED
      BY <1>2, <2>1 DEF IndInv, TypeOK
  <1>7. StacksOK'
    BY DEF IndInv, StacksOK
  <1>8. TimerOK'
    BY MainAssumption DEF IndInv, TimerOK
  <1>9. CountsOK'
    BY <1>5 DEF CountsOK
  <1>10. LivesOK'
    <2>1. t \in Thread /\ None \in SessionOrNull
      BY DEF Thread, SessionOrNull
    <2>2. \A s \in Session : References(s)' # {} <=> References(s) # {}
      BY <1>3, <1>4
    <2> QED
      BY <2>1, <2>2, LivesStep DEF IndInv
  <1>11. CallsOK'
    BY <1>2, OthersAgree DEF IndInv, CallsOK
  <1>12. TimesOK'
    BY DEF IndInv, TimesOK
  <1> QED
    BY <1>6, <1>7, <1>8, <1>9, <1>10, <1>11, <1>12 DEF IndInv

\* A handle goes out of scope.
LEMMA DropHandleStep ==
  ASSUME IndInv, NEW t \in Worker, DropHandle(t)
  PROVE  IndInv'
  <1> USE DEF DropHandle, Goto, timerVars
  <1> DEFINE n == Len(handles[t])
  <1>1. /\ refCount \in [Session -> Nat] /\ handles \in [Worker -> Seq(SessionOrNull)]
        /\ handles[t] \in Seq(SessionOrNull) /\ n \in 1..MaxCalls /\ n <= MaxCalls
    BY MaxCallsAssumption, LenProperties, EmptySeq DEF IndInv, TypeOK, StacksOK
  <1>2. PICK h \in SessionOrNull : h = Last(handles[t])
    BY <1>1, ElementOfSeq DEF Last
  <1>3. PICK x \in SessionOrNull : x = IF LastReference(h) THEN h ELSE None
    BY DEF SessionOrNull
  <1>4. toDelete' = [toDelete EXCEPT ![t] = x] /\ toDelete[t] = None
    BY <1>2, <1>3
  <1>5. /\ x # None => x = h /\ h \in Session /\ refCount[h] = 1
        /\ \A s \in Session : s = h /\ s # x => refCount[s] # 1
    BY <1>3, NoneAssumption DEF LastReference, SessionOrNull
  <1>6. refCount' = [s \in Session |-> IF s = h THEN refCount[s] - 1 ELSE refCount[s]]
    BY <1>2 DEF Release
  <1>7. /\ handles'[t] = SubSeq(handles[t], 1, n - 1)
        /\ \A u \in Worker : u # t => handles'[u] = handles[u]
    BY <1>1 DEF Front
  <1>8. /\ Len(handles'[t]) = n - 1 /\ handles'[t] \in Seq(SessionOrNull)
        /\ \A i \in 1..(n - 1) : handles'[t][i] = handles[t][i]
    <2>1. \A i \in 1..(n - 1) : handles[t][i] \in SessionOrNull
      BY <1>1, ElementOfSeq
    <2>2. handles'[t] \in Seq(SessionOrNull)
      <3> DEFINE m == n - 1
      <3>1. m \in Int
        BY <1>1
      <3> HIDE DEF m
      <3>2. SubSeq(handles[t], 1, m) \in Seq(SessionOrNull)
        <4>1. \A i \in 1..m : handles[t][i] \in SessionOrNull
          BY <2>1 DEF m
        <4> QED
          BY <3>1, <4>1, SubSeqProperties
      <3> QED
        BY <1>7, <3>2 DEF m
    <2>3. /\ Len(handles'[t]) = n - 1
          /\ \A i \in 1..(n - 1) : handles'[t][i] = handles[t][i]
      BY <1>1, <1>7, <2>1, SubSeqProperties
    <2> QED
      BY <2>2, <2>3
  <1>9. ASSUME NEW s \in Session
        PROVE  /\ s = h => References(s)' = References(s) \ {<<t, n>>} /\ <<t, n>> \in References(s)
               /\ s # h => References(s)' = References(s)
    BY <1>2, PoppedReference DEF IndInv
  <1>10. ASSUME NEW s \in Session PROVE Counted(s)' /\ refCount'[s] \in Nat
    <2>1. Counted(s) /\ refCount[s] \in Nat
      BY <1>1 DEF IndInv, CountsOK
    <2>2. CASE s = h
      BY <1>6, <1>9, <2>1, <2>2, OneLess
    <2>3. CASE s # h
      BY <1>6, <1>9, <2>1, <2>3, SameCount
    <2> QED
      BY <2>2, <2>3
  <1>11. /\ pc'[t] = "unwind" /\ pc' \in [Worker -> PC]
         /\ \A u \in Worker : u # t => pc'[u] = pc[u]
    BY DEF IndInv, TypeOK, PC
  <1>12. TypeOK'
    <2>1. refCount' \in [Session -> Nat]
      BY <1>6, <1>10
    <2>2. handles' \in [Worker -> Seq(SessionOrNull)]
      BY <1>1, <1>7, <1>8
    <2>3. toDelete' \in [Thread -> SessionOrNull]
      BY <1>4 DEF IndInv, TypeOK
    <2> QED
      BY <1>11, <2>1, <2>2, <2>3 DEF IndInv, TypeOK
  <1>13. StacksOK'
    <2>1. Len(handles'[t]) <= MaxCalls
      BY <1>1, <1>8, MaxCallsAssumption
    <2> QED
      BY <1>7, <1>11, <2>1, StacksStep DEF IndInv
  <1>14. TimerOK'
    <2>1. t # Main
      BY MainAssumption
    <2> QED
      BY <2>1 DEF IndInv, TimerOK, TypeOK
  <1>15. CountsOK'
    BY <1>10 DEF CountsOK
  <1>16. LivesOK'
    <2>1. t \in Thread
      BY DEF Thread
    <2>2. ASSUME NEW s \in Session, References(s)' # {} PROVE References(s) # {}
      BY <1>9, <2>2
    <2>3. ASSUME x # None PROVE References(x) # {} /\ References(x)' = {}
      <3>1. Counted(h) /\ <<t, n>> \in References(h) /\ References(h)' = References(h) \ {<<t, n>>}
        BY <1>5, <1>9, <2>3 DEF IndInv, CountsOK
      <3> QED
        BY <1>5, <2>3, <3>1, LastOne
    <2>4. ASSUME NEW s \in Session, s # x, References(s) # {} PROVE References(s)' # {}
      <3>1. CASE s = h
        <4>1. Counted(s) /\ refCount[s] # 1
          BY <1>5, <2>4, <3>1 DEF IndInv, CountsOK
        <4> QED
          BY <1>9, <3>1, <4>1, LastOne
      <3>2. CASE s # h
        BY <1>9, <2>4, <3>2
      <3> QED
        BY <3>1, <3>2
    <2> QED
      BY <1>4, <2>1, <2>2, <2>3, <2>4, LivesStep DEF IndInv
  <1>17. CallsOK'
    <2> SUFFICES ASSUME NEW u \in Worker PROVE CallsAgree(u)'
      BY DEF CallsOK
    <2>1. CallsAgree(u)
      BY DEF IndInv, CallsOK
    <2>2. CASE u # t
      BY <1>7, <1>11, <2>1, <2>2, OthersAgree
    <2>3. CASE u = t
      <3>1. 1..Len(handles'[t]) \subseteq 1..n /\ 1..Len(handles'[t]) = 1..(n - 1)
        BY <1>1, <1>8
      <3>2. \A i \in 1..Len(handles'[t]) : i \in 1..n /\ handles'[t][i] = handles[t][i]
        BY <1>8, <3>1
      <3> QED
        BY <1>11, <2>1, <2>3, <3>2 DEF CallsAgree
    <2> QED
      BY <2>2, <2>3
  <1>18. TimesOK'
    BY DEF IndInv, TimesOK
  <1> QED
    BY <1>12, <1>13, <1>14, <1>15, <1>16, <1>17, <1>18 DEF IndInv

\* Data is deleted.
LEMMA DeleteDataStep ==
  ASSUME IndInv, NEW t \in Thread, DeleteData(t)
  PROVE  IndInv'
  <1> USE DEF DeleteData, workerVars, timerVars
  <1>1. PICK d \in Session : d = toDelete[t]
    BY DEF IndInv, TypeOK, SessionOrNull
  <1>2. /\ data[d] = "alive" /\ References(d) = {}
        /\ \A u \in Thread : u # t => toDelete[u] # d
    <2>1. toDelete[t] # None
      OBVIOUS
    <2> QED
      BY <1>1, <2>1 DEF IndInv, LivesOK, DoomedIsAlive, DeletedOnce
  <1>3. /\ data'[d] = "deleted" /\ data' \in [Session -> Data]
        /\ \A s \in Session : s # d => data'[s] = data[s]
    BY <1>1 DEF Delete, IndInv, TypeOK, Data
  <1>4. /\ toDelete \in [Thread -> SessionOrNull] /\ toDelete' \in [Thread -> SessionOrNull]
        /\ toDelete'[t] = None /\ \A u \in Thread : u # t => toDelete'[u] = toDelete[u]
    BY DEF IndInv, TypeOK, SessionOrNull
  <1>5. \A s \in Session : References(s)' = References(s)
    BY SameReferences
  <1>6. TypeOK'
    BY <1>3, <1>4 DEF IndInv, TypeOK
  <1>7. StacksOK'
    BY DEF IndInv, StacksOK
  <1>8. TimerOK'
    <2>1. Main \in Thread
      BY DEF Thread
    <2> QED
      BY <1>4, <2>1 DEF IndInv, TimerOK
  <1>9. CountsOK'
    BY <1>5, SameCount DEF IndInv, CountsOK
  <1>10. LivesOK'
    <2>1. ReferencedIsAlive'
      BY <1>2, <1>3, <1>5 DEF IndInv, LivesOK, ReferencedIsAlive
    <2>2. DoomedIsAlive'
      <3> SUFFICES ASSUME NEW u \in Thread, NEW e \in Session, toDelete'[u] = e
                   PROVE  data'[e] = "alive" /\ References(e)' = {}
        <4>1. \A u \in Thread : toDelete'[u] # None => toDelete'[u] \in Session
          BY <1>4 DEF SessionOrNull
        <4> QED
          BY <4>1 DEF DoomedIsAlive
      <3>1. u # t /\ toDelete[u] = e /\ e # None
        BY <1>4, NoneAssumption
      <3>2. e # d /\ data[e] = "alive" /\ References(e) = {}
        BY <1>2, <3>1 DEF IndInv, LivesOK, DoomedIsAlive
      <3> QED
        BY <1>3, <1>5, <3>2
    <2>3. DeletedOnce'
      BY <1>4 DEF IndInv, LivesOK, DeletedOnce
    <2>4. NoLeak'
      <3> SUFFICES ASSUME NEW s \in Session, data'[s] = "alive", References(s)' = {}
                   PROVE  \E u \in Thread : toDelete'[u] = s
        BY DEF NoLeak
      <3>1. s # d /\ data[s] = "alive" /\ References(s) = {}
        BY <1>3, <1>5
      <3>2. PICK u \in Thread : toDelete[u] = s
        BY <3>1 DEF IndInv, LivesOK, NoLeak
      <3> QED
        BY <1>1, <1>4, <3>1, <3>2
    <2> QED
      BY <2>1, <2>2, <2>3, <2>4 DEF LivesOK
  <1>11. CallsOK'
    BY OthersAgree DEF IndInv, CallsOK
  <1>12. TimesOK'
    BY DEF IndInv, TimesOK
  <1> QED
    BY <1>6, <1>7, <1>8, <1>9, <1>10, <1>11, <1>12 DEF IndInv

-----------------------------------------------------------------------------
(* The steps of the timer event that concern handles. *)

\* While the timer event has a handle, it has the mutex.
LEMMA TimerHasMutex ==
  ASSUME IndInv, visited # None
  PROVE  mutex = Main /\ mutex # None /\ visited \in Session
  BY MainAssumption DEF IndInv, TypeOK, TimerOK, SessionOrNull

\* It copies the handle of the map ...
LEMMA TimerVisitStep ==
  ASSUME IndInv, TimerVisit
  PROVE  IndInv'
  <1> USE DEF TimerVisit, workerVars
  <1>1. PICK x \in toVisit :
            Copy(x) /\ visited' = x /\ seen' = lastAccess[x] /\ toVisit' = toVisit \ {x}
    OBVIOUS
  <1>2. x \in sessions /\ x \in Session /\ refCount \in [Session -> Nat]
    BY DEF IndInv, TypeOK, TimerOK
  <1>3. refCount' = [s \in Session |-> IF s = x THEN refCount[s] + 1 ELSE refCount[s]]
    BY <1>1 DEF Copy
  <1>4. ASSUME NEW s \in Session
        PROVE  /\ s = x => /\ References(s)' = References(s) \cup {<<"timer", 0>>}
                           /\ <<"timer", 0>> \notin References(s)
                           /\ <<"map", 0>> \in References(s)
               /\ s # x => References(s)' = References(s)
    BY <1>1, <1>2, VisitedReference, MapReference
  <1>5. TypeOK'
    BY <1>1, <1>2, <1>3 DEF IndInv, TypeOK, SessionOrNull
  <1>6. StacksOK'
    BY DEF IndInv, StacksOK
  <1>7. TimerOK'
    BY <1>1 DEF IndInv, TimerOK
  <1>8. CountsOK'
    <2> SUFFICES ASSUME NEW s \in Session PROVE Counted(s)'
      BY DEF CountsOK
    <2>1. Counted(s)
      BY DEF IndInv, CountsOK
    <2>2. CASE s = x
      BY <1>2, <1>3, <1>4, <2>1, <2>2, OneMore
    <2>3. CASE s # x
      BY <1>3, <1>4, <2>1, <2>3, SameCount
    <2> QED
      BY <2>2, <2>3
  <1>9. LivesOK'
    <2>1. Main \in Thread /\ None \in SessionOrNull
      BY DEF Thread, SessionOrNull
    <2>2. \A s \in Session : References(s)' # {} <=> References(s) # {}
      BY <1>4
    <2> QED
      BY <2>1, <2>2, LivesStep DEF IndInv
  <1>10. CallsOK'
    BY OthersAgree DEF IndInv, CallsOK
  <1>11. TimesOK'
    BY <1>1, <1>2 DEF IndInv, TimesOK
  <1> QED
    BY <1>5, <1>6, <1>7, <1>8, <1>9, <1>10, <1>11 DEF IndInv

\* ... erases it ...
LEMMA TimerEraseStep ==
  ASSUME IndInv, TimerErase
  PROVE  IndInv'
  <1> USE DEF TimerErase, workerVars, timerVars
  <1>1. PICK x \in Session : x = visited /\ x # None
    BY NoneAssumption DEF IndInv, TypeOK
  <1>2. /\ sessions' = sessions \ {x} /\ x \in sessions /\ refCount \in [Session -> Nat]
        /\ refCount' = [s \in Session |-> IF s = x THEN refCount[s] - 1 ELSE refCount[s]]
    BY <1>1 DEF Release, IndInv, TypeOK
  <1>3. <<"timer", 0>> \in References(x) /\ <<"timer", 0>> # <<"map", 0>>
    BY <1>1, ReferenceMember, PlacesDiffer
  <1>4. ASSUME NEW s \in Session
        PROVE  /\ s = x => /\ References(s)' = References(s) \ {<<"map", 0>>}
                           /\ <<"map", 0>> \in References(s)
               /\ s # x => References(s)' = References(s)
    BY <1>2, ErasedReference, MapReference
  <1>5. ASSUME NEW s \in Session PROVE Counted(s)' /\ refCount'[s] \in Nat
    <2>1. Counted(s) /\ refCount[s] \in Nat
      BY <1>2 DEF IndInv, CountsOK
    <2>2. CASE s = x
      BY <1>2, <1>4, <2>1, <2>2, OneLess
    <2>3. CASE s # x
      BY <1>2, <1>4, <2>1, <2>3, SameCount
    <2> QED
      BY <2>2, <2>3
  <1>6. TypeOK'
    <2>1. refCount' \in [Session -> Nat]
      BY <1>2, <1>5
    <2> QED
      BY <1>2, <2>1 DEF IndInv, TypeOK
  <1>7. StacksOK'
    BY DEF IndInv, StacksOK
  <1>8. TimerOK'
    BY <1>1, <1>2 DEF IndInv, TimerOK
  <1>9. CountsOK'
    BY <1>5 DEF CountsOK
  <1>10. LivesOK'
    <2>1. Main \in Thread /\ None \in SessionOrNull
      BY DEF Thread, SessionOrNull
    <2>2. \A s \in Session : References(s)' # {} <=> References(s) # {}
      BY <1>3, <1>4
    <2> QED
      BY <2>1, <2>2, LivesStep DEF IndInv
  <1>11. CallsOK'
    BY <1>2, OthersAgree DEF IndInv, CallsOK
  <1>12. TimesOK'
    BY DEF IndInv, TimesOK
  <1> QED
    BY <1>6, <1>7, <1>8, <1>9, <1>10, <1>11, <1>12 DEF IndInv

\* ... and lets go of its own.
LEMMA TimerDropStep ==
  ASSUME IndInv, TimerDrop
  PROVE  IndInv'
  <1> USE DEF TimerDrop, workerVars
  <1>1. PICK h \in Session : h = visited /\ h # None
    BY NoneAssumption DEF IndInv, TypeOK, SessionOrNull
  <1>2. PICK x \in SessionOrNull : x = IF LastReference(h) THEN h ELSE None
    BY DEF SessionOrNull
  <1>3. /\ toDelete' = [toDelete EXCEPT ![Main] = x] /\ toDelete[Main] = None
        /\ refCount \in [Session -> Nat]
        /\ refCount' = [s \in Session |-> IF s = h THEN refCount[s] - 1 ELSE refCount[s]]
    BY <1>1, <1>2 DEF Release, IndInv, TimerOK, TypeOK
  <1>4. /\ x # None => x = h /\ refCount[h] = 1
        /\ \A s \in Session : s = h /\ s # x => refCount[s] # 1
    BY <1>1, <1>2 DEF LastReference
  <1>5. ASSUME NEW s \in Session
        PROVE  /\ s = h => /\ References(s)' = References(s) \ {<<"timer", 0>>}
                           /\ <<"timer", 0>> \in References(s)
               /\ s # h => References(s)' = References(s)
    BY <1>1, LeftReference
  <1>6. ASSUME NEW s \in Session PROVE Counted(s)' /\ refCount'[s] \in Nat
    <2>1. Counted(s) /\ refCount[s] \in Nat
      BY <1>3 DEF IndInv, CountsOK
    <2>2. CASE s = h
      BY <1>3, <1>5, <2>1, <2>2, OneLess
    <2>3. CASE s # h
      BY <1>3, <1>5, <2>1, <2>3, SameCount
    <2> QED
      BY <2>2, <2>3
  <1>7. TypeOK'
    <2>1. refCount' \in [Session -> Nat]
      BY <1>3, <1>6
    <2>2. toDelete' \in [Thread -> SessionOrNull]
      BY <1>3 DEF IndInv, TypeOK
    <2>3. visited' \in SessionOrNull /\ seen' \in 0..MaxClock
      BY MaxClockAssumption DEF SessionOrNull
    <2> QED
      BY <2>1, <2>2, <2>3 DEF IndInv, TypeOK
  <1>8. StacksOK'
    BY DEF IndInv, StacksOK
  <1>9. TimerOK'
    BY NoneAssumption DEF IndInv, TimerOK, TypeOK
  <1>10. CountsOK'
    BY <1>6 DEF CountsOK
  <1>11. LivesOK'
    <2>1. Main \in Thread
      BY DEF Thread
    <2>2. ASSUME NEW s \in Session, References(s)' # {} PROVE References(s) # {}
      BY <1>5, <2>2
    <2>3. ASSUME x # None PROVE References(x) # {} /\ References(x)' = {}
      <3>1. /\ Counted(h) /\ <<"timer", 0>> \in References(h)
            /\ References(h)' = References(h) \ {<<"timer", 0>>}
        BY <1>5 DEF IndInv, CountsOK
      <3> QED
        BY <1>4, <2>3, <3>1, LastOne
    <2>4. ASSUME NEW s \in Session, s # x, References(s) # {} PROVE References(s)' # {}
      <3>1. CASE s = h
        <4>1. Counted(s) /\ refCount[s] # 1
          BY <1>4, <2>4, <3>1 DEF IndInv, CountsOK
        <4> QED
          BY <1>5, <3>1, <4>1, LastOne
      <3>2. CASE s # h
        BY <1>5, <2>4, <3>2
      <3> QED
        BY <3>1, <3>2
    <2> QED
      BY <1>3, <2>1, <2>2, <2>3, <2>4, LivesStep DEF IndInv
  <1>12. CallsOK'
    BY OthersAgree DEF IndInv, CallsOK
  <1>13. TimesOK'
    BY DEF IndInv, TimesOK
  <1> QED
    BY <1>7, <1>8, <1>9, <1>10, <1>11, <1>12, <1>13 DEF IndInv

-----------------------------------------------------------------------------
(* The invariant is inductive. *)

\* At the beginning there are no sessions and no handles.
LEMMA InitIndInv ==
  ASSUME Init
  PROVE  IndInv
  <1> USE DEF Init, SessionInit
  <1>1. \A t \in Worker : handles[t] = <<>> /\ Len(handles[t]) = 0
    BY EmptySeq
  <1>2. ASSUME NEW s \in Session PROVE References(s) = {}
    <2>1. s # None
      BY NoneAssumption
    <2>2. ASSUME NEW u \in Worker, NEW i \in 1..MaxCalls PROVE ~(i <= Len(handles[u]))
      BY <1>1, MaxCallsAssumption
    <2> QED
      BY <2>1, <2>2, ReferenceMember
  <1>3. TypeOK
    <2>1. <<>> \in Seq(SessionOrNull)
      BY EmptySeq
    <2> QED
      BY <2>1, MaxClockAssumption DEF TypeOK, Data, PC, SessionOrNull
  <1>4. StacksOK
    BY <1>1, MaxCallsAssumption DEF StacksOK
  <1>5. TimerOK
    BY MainAssumption DEF TimerOK
  <1>6. CountsOK
    BY <1>2, FS_EmptySet DEF CountsOK, Counted
  <1>7. LivesOK
    BY <1>2 DEF LivesOK, ReferencedIsAlive, DoomedIsAlive, DeletedOnce, NoLeak
  <1>8. CallsOK
    BY DEF CallsOK, CallsAgree
  <1>9. TimesOK
    BY MainAssumption DEF TimesOK
  <1> QED
    BY <1>3, <1>4, <1>5, <1>6, <1>7, <1>8, <1>9 DEF IndInv

\* Every step keeps IndInv, by the lemma of its action.
LEMMA NextIndInv ==
  ASSUME IndInv, [Next]_vars
  PROVE  IndInv'
  <1>1. CASE UNCHANGED vars
    <2> USE <1>1 DEF vars, sessionVars, workerVars, timerVars
    <2>1. TypeOK' /\ StacksOK' /\ TimerOK' /\ TimesOK'
      BY DEF IndInv, TypeOK, StacksOK, TimerOK, TimesOK
    <2>2. CountsOK' /\ LivesOK'
      BY QuietLives DEF IndInv
    <2>3. CallsOK'
      BY DEF IndInv, CallsOK, CallsAgree
    <2> QED
      BY <2>1, <2>2, <2>3 DEF IndInv
  <1>2. CASE Arrivals
    BY <1>2, BeginRequestStep, GetSessionByIdStep DEF Arrivals
  <1>3. ASSUME NEW t \in Worker, GetSession(t) PROVE IndInv'
    BY <1>3, FoundAgainStep, CreateSessionStep, NullSessionStep DEF GetSession
  <1>4. ASSUME NEW t \in Worker, DeleteData(t) PROVE IndInv'
    BY <1>4, DeleteDataStep DEF Thread
  <1>5. ASSUME NEW t \in Worker, WorkerStep(t) PROVE IndInv'
    BY <1>3, <1>4, <1>5, GetSessionIdStep, TouchStep, CallPageStep, AssignHandleStep,
       RemoveSessionStep, DropHandleStep, EndRequestStep DEF WorkerStep
  <1>6. CASE TimerBegin
    BY <1>6, TimerBeginStep
  <1>7. CASE TimerStep
    <2>1. Main \in Thread
      BY DEF Thread
    <2> QED
      BY <1>7, <2>1, TimerVisitStep, TimerEraseStep, TimerDropStep, DeleteDataStep,
         TimerEndStep DEF TimerStep
  <1>8. CASE TimePasses
    BY <1>8, TimePassesStep
  <1> QED
    BY <1>1, <1>2, <1>5, <1>6, <1>7, <1>8 DEF Next

\* IndInv holds in every reachable state of the session store.
THEOREM Inductive == Spec => []IndInv
  <1>1. Init => IndInv
    BY InitIndInv
  <1>2. IndInv /\ [Next]_vars => IndInv'
    BY NextIndInv
  <1> QED
    BY <1>1, <1>2, PTL DEF Spec

-----------------------------------------------------------------------------
(* The properties. *)

\* Every variable of the session store keeps its type; in particular no counter
\* of handles is ever counted below zero (httpsession.cpp:62, 81).
THEOREM TypeCorrect == Spec => []TypeOK
  <1>1. IndInv => TypeOK
    BY DEF IndInv
  <1> QED
    BY <1>1, Inductive, PTL

\* refCount of a session's data is the number of handles to it, whatever
\* workers and the timer event copy, assign and destroy (httpsession.cpp:36, 51,
\* 62, 81).
THEOREM CountsHandles == Spec => []RefCountIsExact
  <1>1. IndInv => RefCountIsExact
    BY DEF IndInv, CountsOK, Counted, RefCountIsExact
  <1> QED
    BY <1>1, Inductive, PTL

\* No handle refers to deleted data, and no data is deleted twice
\* (httpsession.cpp:70, 89).
THEOREM HandlesStayValid == Spec => []NoUseAfterDelete
  <1>1. IndInv => NoUseAfterDelete
    BY DEF IndInv, LivesOK, ReferencedIsAlive, DoomedIsAlive, DeletedOnce, NoUseAfterDelete
  <1> QED
    BY <1>1, Inductive, PTL

\* Session data nobody has a handle to is being deleted: nothing is leaked
\* (httpsession.cpp:68, 87).
THEOREM NothingLeaks == Spec => []NoLeak
  <1>1. IndInv => NoLeak
    BY DEF IndInv, LivesOK
  <1> QED
    BY <1>1, Inductive, PTL

\* All getSession() calls of one request answer the same session while it is in
\* the map (httpsessionstore.cpp:17-80).
THEOREM CallsAgreeOnSession == Spec => []OneSessionPerRequest
  <1>1. IndInv => OneSessionPerRequest
    <2> SUFFICES ASSUME IndInv, NEW t \in Worker, client[t] # None, Len(handles[t]) = 2,
                        handles[t][1] \in sessions
                 PROVE  handles[t][2] = handles[t][1]
      BY DEF OneSessionPerRequest
    <2>1. 1 \in 1..Len(handles[t]) /\ 2 \in 1..Len(handles[t]) /\ 1 <= 2
      OBVIOUS
    <2> QED
      BY <2>1 DEF IndInv, CallsOK, CallsAgree
  <1> QED
    BY <1>1, Inductive, PTL

\* sessionTimerEvent() erases only sessions that getSession() has not returned
\* for expirationTime, or has returned since the event began
\* (httpsessionstore.cpp:105-119).
THEOREM ErasesUnused == Spec => ExpiresWhenUnused
  <1>1. ASSUME IndInv, [Next]_vars, NEW s \in sessions \ sessions', mutex = Main
        PROVE  now - returned[s] > ExpirationTime \/ returned[s] >= now
    <2>1. TimerErase
      <3>1. ASSUME NEW t \in Worker, RemoveSession(t) PROVE FALSE
        BY <1>1, <3>1, MainAssumption DEF RemoveSession
      <3>2. ASSUME NEW t \in Worker, GetSession(t) PROVE FALSE
        BY <1>1, <3>2, MainAssumption DEF GetSession
      <3> QED
        BY <1>1, <3>1, <3>2
           DEF Next, vars, Arrivals, WorkerStep, TimerStep, BeginRequest, GetSessionById,
               GetSessionId, Touch, CallPage, AssignHandle, DropHandle, DeleteData, EndRequest,
               TimerBegin, TimerVisit, TimerDrop, TimerEnd, TimePasses
    <2>2. s = visited /\ visited # None /\ now - seen > ExpirationTime /\ s \in Session
      BY <1>1, <2>1, TimerHasMutex, NoneAssumption DEF TimerErase, Expired, IndInv, TypeOK
    <2>3. returned[s] <= seen \/ now <= returned[s]
      BY <1>1, <2>2 DEF IndInv, TimesOK
    <2>4. now \in Nat /\ seen \in Nat /\ returned[s] \in Nat
      BY <1>1, <2>2, MaxClockAssumption DEF IndInv, TypeOK
    <2> QED
      BY <2>2, <2>3, <2>4, ExpirationAssumption
  <1>2. IndInv /\ [Next]_vars =>
            [\A s \in sessions \ sessions' : mutex = Main =>
                now - returned[s] > ExpirationTime \/ returned[s] >= now]_vars
    BY <1>1
  <1> QED
    BY <1>2, Inductive, PTL DEF Spec, ExpiresWhenUnused
=============================================================================
