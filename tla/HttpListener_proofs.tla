------------------------ MODULE HttpListener_proofs ------------------------
(***************************************************************************)
(* Proofs that the listener, its pool and the connection handlers keep     *)
(* IndInv for any number of handlers, connections and pieces, that the     *)
(* safety properties of HttpListener follow from it, that the listener     *)
(* admits and refuses connections as Admission says, and that cleanup()    *)
(* keeps minThreads idle handlers.                                         *)
(***************************************************************************)
EXTENDS HttpListener, SequenceTheorems, FiniteSetTheorems, TLAPS

-----------------------------------------------------------------------------
(* The pool as a sequence without repetitions. *)

\* Removing the element at i leaves the other elements, each once.
LEMMA RemoveAtProperties ==
  ASSUME NEW S, NEW s \in Seq(S), NEW i \in 1..Len(s),
         \A j, k \in DOMAIN s : s[j] = s[k] => j = k
  PROVE  /\ RemoveAt(s, i) \in Seq(S)
         /\ Len(RemoveAt(s, i)) = Len(s) - 1
         /\ \A j, k \in DOMAIN RemoveAt(s, i) :
                RemoveAt(s, i)[j] = RemoveAt(s, i)[k] => j = k
         /\ ToSet(RemoveAt(s, i)) = ToSet(s) \ {s[i]}
  <1> DEFINE a == SubSeq(s, 1, i - 1)
             b == SubSeq(s, i + 1, Len(s))
             r == RemoveAt(s, i)
  <1>1. /\ a \in Seq(S) /\ Len(a) = i - 1
        /\ \A j \in 1..(i - 1) : a[j] = s[j]
    BY SubSeqProperties, LenProperties
  <1>2. /\ b \in Seq(S) /\ Len(b) = Len(s) - i
        /\ \A j \in 1..(Len(s) - i) : b[j] = s[i + j]
    BY SubSeqProperties, LenProperties
  <1>3. r = a \o b
    BY DEF RemoveAt
  <1> HIDE DEF a, b, r
  <1>4. /\ r \in Seq(S) /\ Len(r) = Len(s) - 1
        /\ \A j \in 1..(Len(s) - 1) : r[j] = IF j < i THEN s[j] ELSE s[j + 1]
    <2>1. /\ r \in Seq(S) /\ Len(r) = (i - 1) + (Len(s) - i)
          /\ \A j \in 1..((i - 1) + (Len(s) - i)) :
                r[j] = IF j <= i - 1 THEN a[j] ELSE b[j - (i - 1)]
      <3>1. /\ a \o b \in Seq(S) /\ Len(a \o b) = Len(a) + Len(b)
            /\ \A j \in 1..(Len(a) + Len(b)) :
                  (a \o b)[j] = IF j <= Len(a) THEN a[j] ELSE b[j - Len(a)]
        BY <1>1, <1>2, ConcatProperties
      <3> QED
        BY <1>1, <1>2, <1>3, <3>1
    <2>2. Len(s) \in Nat
      BY LenProperties
    <2>3. ASSUME NEW j \in 1..(Len(s) - 1)
          PROVE  r[j] = IF j < i THEN s[j] ELSE s[j + 1]
      <3>1. CASE j < i
        <4>1. j \in 1..(i - 1) /\ j <= i - 1 /\ j \in 1..((i - 1) + (Len(s) - i))
          BY <2>2, <3>1
        <4>2. r[j] = a[j] /\ a[j] = s[j]
          BY <1>1, <2>1, <4>1
        <4> QED
          BY <3>1, <4>2
      <3>2. CASE ~(j < i)
        <4>1. j - (i - 1) \in 1..(Len(s) - i) /\ i + (j - (i - 1)) = j + 1
          BY <2>2, <3>2
        <4>2. r[j] = b[j - (i - 1)]
          BY <2>1, <2>2, <3>2
        <4> QED
          BY <1>2, <3>2, <4>1, <4>2
      <3> QED
        BY <3>1, <3>2
    <2> QED
      BY <2>1, <2>2, <2>3
  <1>5. DOMAIN r = 1..(Len(s) - 1) /\ DOMAIN s = 1..Len(s) /\ Len(s) \in Nat
    BY <1>4, LenProperties
  <1>6. \A j, k \in DOMAIN r : r[j] = r[k] => j = k
    <2> SUFFICES ASSUME NEW j \in DOMAIN r, NEW k \in DOMAIN r, r[j] = r[k] PROVE j = k
      OBVIOUS
    <2>1. PICK p \in DOMAIN s : r[j] = s[p] /\ p = IF j < i THEN j ELSE j + 1
      BY <1>4, <1>5
    <2>2. PICK q \in DOMAIN s : r[k] = s[q] /\ q = IF k < i THEN k ELSE k + 1
      BY <1>4, <1>5
    <2>3. p = q
      BY <2>1, <2>2
    <2> QED
      BY <1>5, <2>1, <2>2, <2>3
  <1>7. ToSet(r) = ToSet(s) \ {s[i]}
    <2>1. \A j \in DOMAIN r : r[j] \in ToSet(s) /\ r[j] # s[i]
      BY <1>4, <1>5 DEF ToSet
    <2>2. ASSUME NEW j \in DOMAIN s, s[j] # s[i] PROVE s[j] \in ToSet(r)
      <3>1. CASE j < i
        <4>1. j \in DOMAIN r /\ r[j] = s[j]
          BY <3>1, <1>4, <1>5
        <4> QED
          BY <4>1 DEF ToSet
      <3>2. CASE j > i
        <4>1. j - 1 \in DOMAIN r /\ r[j - 1] = s[j]
          BY <3>2, <1>4, <1>5
        <4> QED
          BY <4>1 DEF ToSet
      <3> QED
        BY <2>2, <3>1, <3>2, <1>5
    <2> QED
      BY <2>1, <2>2 DEF ToSet
  <1> QED
    BY <1>4, <1>6, <1>7 DEF r

LEMMA RemoveFirstIsTail ==
  ASSUME NEW S, NEW s \in Seq(S), s # <<>>
  PROVE  RemoveAt(s, 1) = Tail(s)
  <1>1. Tail(s) = SubSeq(s, 2, Len(s)) /\ Tail(s) \in Seq(S)
    BY TailIsSubSeq, HeadTailProperties
  <1>2. SubSeq(s, 1, 0) = <<>>
    BY SubSeqEmpty
  <1> QED
    BY <1>1, <1>2, ConcatEmptySeq DEF RemoveAt

\* Appending a handler that is not in the pool yet.
LEMMA AppendProperty ==
  ASSUME NEW S, NEW s \in Seq(S), NEW e \in S, e \notin ToSet(s),
         \A j, k \in DOMAIN s : s[j] = s[k] => j = k
  PROVE  /\ Append(s, e) \in Seq(S) /\ Len(Append(s, e)) = Len(s) + 1
         /\ \A j, k \in DOMAIN Append(s, e) : Append(s, e)[j] = Append(s, e)[k] => j = k
         /\ ToSet(Append(s, e)) = ToSet(s) \cup {e}
  <1> DEFINE r == Append(s, e)
  <1>1. /\ r \in Seq(S) /\ Len(r) = Len(s) + 1 /\ Len(s) \in Nat
        /\ \A j \in 1..Len(s) : r[j] = s[j]
        /\ r[Len(s) + 1] = e
    BY AppendProperties, LenProperties
  <1> HIDE DEF r
  <1>2. DOMAIN r = 1..(Len(s) + 1) /\ DOMAIN s = 1..Len(s)
    BY <1>1, LenProperties
  <1>3. \A j \in DOMAIN s : s[j] # e
    BY DEF ToSet
  <1>4. \A j, k \in DOMAIN r : r[j] = r[k] => j = k
    BY <1>1, <1>2, <1>3
  <1>5. ToSet(r) = ToSet(s) \cup {e}
    <2>1. ToSet(r) \subseteq ToSet(s) \cup {e}
      BY <1>1, <1>2 DEF ToSet
    <2>2. \A j \in DOMAIN s : j \in DOMAIN r /\ r[j] = s[j]
      BY <1>1, <1>2
    <2>3. Len(s) + 1 \in DOMAIN r
      BY <1>1, <1>2
    <2> QED
      BY <1>1, <2>1, <2>2, <2>3 DEF ToSet
  <1> QED
    BY <1>1, <1>4, <1>5 DEF r

LEMMA SameValueSameFunction ==
  ASSUME NEW S, NEW T, NEW f \in [S -> T], NEW x \in S, NEW e, f[x] = e
  PROVE  [f EXCEPT ![x] = e] = f
  OBVIOUS

-----------------------------------------------------------------------------
(* Frames: what a step leaves alone. *)

SameHandler(g) ==
    /\ pc'[g] = pc[g] /\ busy'[g] = busy[g] /\ inbox'[g] = inbox[g] /\ sock'[g] = sock[g]
    /\ timer'[g] = timer[g] /\ expired'[g] = expired[g] /\ request'[g] = request[g]

\* A step of one handler keeps the facts about the others.
LEMMA OthersKeepHandlerOK ==
  ASSUME NEW h \in Handler, \A g \in Handler : HandlerOK(g),
         \A g \in Handler : g # h => SameHandler(g),
         HandlerOK(h)'
  PROVE  \A g \in Handler : HandlerOK(g)'
  BY DEF HandlerOK, SameHandler, InEventLoop

\* A step of the thread of a handler that is in the pool keeps the objects
\* outside the pool pristine.
LEMMA OthersStayPristine ==
  ASSUME NEW h \in Handler, OutsideIsPristine, pc[h] # "ended", pool' = pool,
         \A g \in Handler : g # h => SameHandler(g)
  PROVE  OutsideIsPristine'
  BY DEF OutsideIsPristine, Pristine, SameHandler, InPool

\* The connection of a handler is closed.
LEMMA DisconnectedKeepsConnections ==
  ASSUME TypeOK, ConnectionsHeld, NEW h \in Handler, sock[h] # None,
         sock' = [sock EXCEPT ![h] = None], inbox' = inbox,
         status' = [status EXCEPT ![sock[h]] = "closed"]
  PROVE  ConnectionsHeld'
  <1> USE DEF TypeOK, HandlerTypeOK, PeerTypeOK, ConnectionsHeld
  <1>1. sock[h] \in Conn /\ status[sock[h]] = "open"
    BY DEF StatusOfHeld
  <1>2. StatusOfHeld'
    BY <1>1 DEF StatusOfHeld, HolderIsUnique
  <1>3. HeldOfStatus'
    BY <1>1 DEF HeldOfStatus
  <1>4. HolderIsUnique'
    BY DEF HolderIsUnique
  <1> QED
    BY <1>2, <1>3, <1>4

\* The connection posted to a handler is dropped with the handler.
LEMMA DroppedKeepsConnections ==
  ASSUME TypeOK, ConnectionsHeld, NEW h \in Handler, NEW c \in Conn,
         inbox[h] = <<c>>, sock[h] = None, sock' = sock,
         inbox' = [inbox EXCEPT ![h] = <<>>],
         status' = [status EXCEPT ![c] = "dropped"]
  PROVE  ConnectionsHeld'
  <1>1. /\ inbox \in [Handler -> Seq(Conn)] /\ sock \in [Handler -> Conn \cup {None}]
        /\ status \in [Conn -> Status]
    BY DEF TypeOK, HandlerTypeOK, PeerTypeOK
  <1>2. StatusOfHeld /\ HeldOfStatus /\ HolderIsUnique
    BY DEF ConnectionsHeld
  <1>3. /\ inbox'[h] = <<>> /\ status'[c] = "dropped" /\ status[c] = "queued"
        /\ \A g \in Handler : g # h => inbox'[g] = inbox[g] /\ inbox[g] # <<c>>
        /\ \A g \in Handler : sock[g] # c
        /\ \A d \in Conn : d # c => status'[d] = status[d] /\ inbox[h] # <<d>>
    <2>1. status[c] = "queued"
      BY <1>2 DEF StatusOfHeld
    <2>2. \A g \in Handler : g # h => inbox[g] # <<c>>
      BY <1>2 DEF HolderIsUnique
    <2>3. \A g \in Handler : sock[g] # c
      BY <1>2, <2>1, NoneAssumption DEF StatusOfHeld
    <2>4. \A d \in Conn : <<c>> = <<d>> => c = d
      OBVIOUS
    <2> QED
      BY <1>1, <2>1, <2>2, <2>3, <2>4
  <1>4. StatusOfHeld'
    <2>1. ASSUME NEW g \in Handler, NEW d \in Conn, inbox'[g] = <<d>>
          PROVE  status'[d] = "queued"
      <3>1. g # h
        BY <1>3, <2>1
      <3>2. d # c
        BY <1>3, <2>1, <3>1
      <3> QED
        BY <1>2, <1>3, <2>1, <3>1, <3>2 DEF StatusOfHeld
    <2>2. ASSUME NEW g \in Handler, sock[g] # None
          PROVE  status'[sock[g]] = "open"
      <3>1. sock[g] \in Conn /\ sock[g] # c
        BY <1>1, <1>3, <2>2
      <3> QED
        BY <1>2, <1>3, <2>2, <3>1 DEF StatusOfHeld
    <2> QED
      BY <2>1, <2>2 DEF StatusOfHeld
  <1>5. HeldOfStatus'
    <2> SUFFICES ASSUME NEW d \in Conn
                 PROVE  /\ status'[d] = "queued" => \E g \in Handler : inbox'[g] = <<d>>
                        /\ status'[d] = "open" => \E g \in Handler : sock[g] = d
      BY DEF HeldOfStatus
    <2>1. CASE d = c
      BY <1>3, <2>1
    <2>2. CASE d # c
      <3>1. status'[d] = status[d] /\ inbox[h] # <<d>>
        BY <1>3, <2>2
      <3>2. ASSUME status[d] = "queued" PROVE \E g \in Handler : inbox'[g] = <<d>>
        <4>1. PICK g \in Handler : inbox[g] = <<d>>
          BY <1>2, <3>2 DEF HeldOfStatus
        <4>2. inbox'[g] = <<d>>
          BY <1>3, <3>1, <4>1
        <4> QED
          BY <4>2
      <3>3. status[d] = "open" => \E g \in Handler : sock[g] = d
        BY <1>2 DEF HeldOfStatus
      <3> QED
        BY <3>1, <3>2, <3>3
    <2> QED
      BY <2>1, <2>2
  <1>6. HolderIsUnique'
    <2>1. ASSUME NEW f \in Handler, NEW g \in Handler, NEW d \in Conn,
                 inbox'[f] = <<d>>, inbox'[g] = <<d>>
          PROVE  f = g
      <3>1. f # h /\ g # h
        BY <1>3, <2>1
      <3> QED
        BY <1>2, <1>3, <2>1, <3>1 DEF HolderIsUnique
    <2>2. \A f, g \in Handler : sock[f] = sock[g] /\ sock[f] # None => f = g
      BY <1>2 DEF HolderIsUnique
    <2> QED
      BY <2>1, <2>2 DEF HolderIsUnique
  <1> QED
    BY <1>4, <1>5, <1>6 DEF ConnectionsHeld

LEMMA SameHolders ==
  ASSUME HolderIsUnique, UNCHANGED <<inbox, sock>>
  PROVE  HolderIsUnique'
  BY DEF HolderIsUnique

LEMMA SameConnections ==
  ASSUME ConnectionsHeld, UNCHANGED <<inbox, sock, status>>
  PROVE  ConnectionsHeld'
  BY DEF ConnectionsHeld, StatusOfHeld, HeldOfStatus, HolderIsUnique

\* What a step of a handler's thread has to show.
LEMMA WorkerFrame ==
  ASSUME IndInv, NEW h \in Handler, pc[h] # "ended",
         UNCHANGED <<doomed, pool, listening, closes>>,
         \A g \in Handler : g # h => SameHandler(g),
         busy[h] \/ ~busy'[h],
         HandlerTypeOK', PeerTypeOK', HandlerOK(h)', ConnectionsHeld'
  PROVE  IndInv'
  <1>1. TypeOK' /\ PoolInjective'
    BY DEF IndInv, TypeOK, PoolInjective
  <1>2. OutsideIsPristine'
    BY OthersStayPristine DEF IndInv
  <1>3. (\A g \in Handler : HandlerOK(g))'
    BY OthersKeepHandlerOK DEF IndInv
  <1>4. \A g \in Handler : ~busy[g] => ~busy'[g]
    BY DEF SameHandler
  <1>5. InPool \subseteq Handler
    BY DEF IndInv, TypeOK, InPool, ToSet
  <1>6. DoomedInPool'
    BY <1>4, <1>5 DEF IndInv, DoomedInPool, InPool
  <1> QED
    BY <1>1, <1>2, <1>3, <1>6 DEF IndInv

\* disconnectFromHost(), with a connection or without.
LEMMA DisconnectFromHostEffect ==
  ASSUME IndInv, NEW h \in Handler, DisconnectFromHost(h), inbox' = inbox
  PROVE  /\ \A g \in Handler : g # h =>
                /\ sock'[g] = sock[g] /\ timer'[g] = timer[g] /\ busy'[g] = busy[g]
         /\ sock'[h] = None
         /\ busy'[h] = (busy[h] /\ sock[h] = None)
         /\ timer'[h] = (timer[h] /\ sock[h] = None)
         /\ sock' \in [Handler -> Conn \cup {None}]
         /\ busy' \in [Handler -> BOOLEAN] /\ timer' \in [Handler -> BOOLEAN]
         /\ status' \in [Conn -> Status]
         /\ ConnectionsHeld'
  <1> USE DEF IndInv, TypeOK, HandlerTypeOK, PeerTypeOK, DisconnectFromHost
  <1>1. CASE sock[h] = None
    BY <1>1, SameConnections
  <1>2. CASE sock[h] # None
    <2>1. Disconnected(h) /\ sock[h] \in Conn
      BY <1>2
    <2>2. ConnectionsHeld'
      BY <1>2, <2>1, DisconnectedKeepsConnections DEF Disconnected
    <2> QED
      BY <1>2, <2>1, <2>2 DEF Disconnected, FreeHandler, Status
  <1> QED
    BY <1>1, <1>2

-----------------------------------------------------------------------------
LEMMA InitIndInv == Init => IndInv
  <1> SUFFICES ASSUME Init PROVE IndInv
    OBVIOUS
  <1> USE DEF Init, HandlerInit, PeerInit
  <1>1. TypeOK
    BY MaxPiecesAssumption, MaxThreadsAssumption, MaxClosesAssumption
    DEF TypeOK, HandlerTypeOK, PeerTypeOK, PC, Status
  <1>2. PoolInjective /\ DoomedInPool
    BY DEF PoolInjective, DoomedInPool
  <1>3. OutsideIsPristine
    BY DEF OutsideIsPristine, Pristine
  <1>4. \A h \in Handler : HandlerOK(h)
    BY DEF HandlerOK, InEventLoop
  <1>5. ConnectionsHeld
    BY DEF ConnectionsHeld, StatusOfHeld, HeldOfStatus, HolderIsUnique
  <1> QED
    BY <1>1, <1>2, <1>3, <1>4, <1>5 DEF IndInv

-----------------------------------------------------------------------------
(* The thread of a handler. *)

LEMMA HandleConnectionStep ==
  ASSUME IndInv, NEW h \in Handler, HandleConnection(h), UNCHANGED poolVars
  PROVE  IndInv'
  <1> USE DEF IndInv, TypeOK, HandlerTypeOK, PeerTypeOK
  <1>1. PICK c \in Conn : inbox[h] = <<c>> /\ sock[h] = None /\ busy[h]
    BY DEF HandlerOK, HandleConnection
  <1>2. /\ inbox' = [inbox EXCEPT ![h] = <<>>]
        /\ busy' = [busy EXCEPT ![h] = TRUE]
        /\ UNCHANGED <<pc, expired, doomed, unread, sent, hungup, pool, listening, closes>>
        /\ pc[h] = "loop" /\ ~expired[h] /\ status[c] = "queued"
    BY <1>1 DEF HandleConnection, InEventLoop, poolVars, ConnectionsHeld, StatusOfHeld
  <1>3. \A g \in Handler : g # h => inbox[g] # <<c>>
    BY <1>1 DEF ConnectionsHeld, HolderIsUnique
  <1>4. \A g \in Handler : sock[g] # c
    BY <1>2, NoneAssumption DEF ConnectionsHeld, StatusOfHeld
  <1>5. CASE /\ sock' = [sock EXCEPT ![h] = None]
             /\ status' = [status EXCEPT ![c] = "stuck"]
             /\ UNCHANGED <<timer, request>>
    <2>1. HandlerTypeOK' /\ PeerTypeOK'
      BY <1>2, <1>5 DEF Status
    <2>2. \A g \in Handler : g # h => SameHandler(g)
      BY <1>2, <1>5 DEF SameHandler
    <2>3. HandlerOK(h)'
      BY <1>1, <1>2, <1>5 DEF HandlerOK, InEventLoop
    <2>4. StatusOfHeld'
      BY <1>1, <1>2, <1>3, <1>4, <1>5 DEF ConnectionsHeld, StatusOfHeld
    <2>5. HeldOfStatus'
      <3> SUFFICES ASSUME NEW d \in Conn
                   PROVE  /\ status'[d] = "queued" => \E g \in Handler : inbox'[g] = <<d>>
                          /\ status'[d] = "open" => \E g \in Handler : sock'[g] = d
        BY DEF HeldOfStatus
      <3>1. d # c => status'[d] = status[d] /\ inbox[h] # <<d>> /\ sock[h] # d
        BY <1>1, <1>5, NoneAssumption
      <3>2. status'[c] = "stuck"
        BY <1>5
      <3> QED
        BY <1>2, <1>5, <3>1, <3>2 DEF ConnectionsHeld, HeldOfStatus
    <2>6. HolderIsUnique'
      BY <1>1, <1>2, <1>3, <1>4, <1>5 DEF ConnectionsHeld, HolderIsUnique
    <2> QED
      BY <1>1, <1>2, <2>1, <2>2, <2>3, <2>4, <2>5, <2>6, WorkerFrame DEF ConnectionsHeld
  <1>6. CASE /\ sock' = [sock EXCEPT ![h] = c]
             /\ status' = [status EXCEPT ![c] = "open"]
             /\ timer' = [timer EXCEPT ![h] = TRUE]
             /\ request' = [request EXCEPT ![h] = {}]
    <2>1. HandlerTypeOK' /\ PeerTypeOK'
      BY <1>2, <1>6 DEF Status
    <2>2. \A g \in Handler : g # h => SameHandler(g)
      BY <1>2, <1>6 DEF SameHandler
    <2>3. HandlerOK(h)'
      BY <1>1, <1>2, <1>6 DEF HandlerOK, InEventLoop
    <2>4. StatusOfHeld'
      BY <1>1, <1>2, <1>3, <1>4, <1>6 DEF ConnectionsHeld, StatusOfHeld
    <2>5. HeldOfStatus'
      <3> SUFFICES ASSUME NEW d \in Conn
                   PROVE  /\ status'[d] = "queued" => \E g \in Handler : inbox'[g] = <<d>>
                          /\ status'[d] = "open" => \E g \in Handler : sock'[g] = d
        BY DEF HeldOfStatus
      <3>1. d # c => status'[d] = status[d] /\ inbox[h] # <<d>> /\ sock[h] # d
        BY <1>1, <1>6, NoneAssumption
      <3>2. status'[c] = "open" /\ sock'[h] = c
        BY <1>6
      <3> QED
        BY <1>2, <1>6, <3>1, <3>2 DEF ConnectionsHeld, HeldOfStatus
    <2>6. HolderIsUnique'
      BY <1>1, <1>2, <1>3, <1>4, <1>6 DEF ConnectionsHeld, HolderIsUnique
    <2> QED
      BY <1>1, <1>2, <2>1, <2>2, <2>3, <2>4, <2>5, <2>6, WorkerFrame DEF ConnectionsHeld
  <1> QED
    BY <1>1, <1>5, <1>6 DEF HandleConnection, DeletePreviousRequest

LEMMA PeerGoneStep ==
  ASSUME IndInv, NEW h \in Handler, PeerGone(h), UNCHANGED poolVars
  PROVE  IndInv'
  <1> USE DEF PeerGone, poolVars
  <1>1. DisconnectFromHost(h)
    BY DEF DisconnectFromHost
  <1>2. HandlerTypeOK' /\ PeerTypeOK'
    BY <1>1, DisconnectFromHostEffect DEF IndInv, TypeOK, HandlerTypeOK, PeerTypeOK
  <1>3. \A g \in Handler : g # h => SameHandler(g)
    BY <1>1, DisconnectFromHostEffect DEF SameHandler
  <1>4. HandlerOK(h)'
    BY <1>1, DisconnectFromHostEffect DEF IndInv, HandlerOK, InEventLoop
  <1> QED
    BY <1>1, <1>2, <1>3, <1>4, DisconnectFromHostEffect, WorkerFrame

LEMMA ReadStep ==
  ASSUME IndInv, NEW h \in Handler, Read(h), UNCHANGED poolVars
  PROVE  IndInv'
  <1> USE DEF Read, poolVars
  <1>1. sock[h] \in Conn
    BY DEF IndInv, TypeOK, HandlerTypeOK
  <1>2. HandlerTypeOK' /\ PeerTypeOK'
    <2>1. HandlerTypeOK'
      BY <1>1 DEF IndInv, TypeOK, HandlerTypeOK, PC, StartTimer
    <2>2. unread[sock[h]] - 1 \in Nat
      <3>1. unread[sock[h]] \in Nat /\ unread[sock[h]] > 0
        BY <1>1 DEF IndInv, TypeOK, PeerTypeOK
      <3> QED
        BY <3>1
    <2>3. PeerTypeOK'
      BY <1>1, <2>2 DEF IndInv, TypeOK, PeerTypeOK
    <2> QED
      BY <2>1, <2>3
  <1>3. \A g \in Handler : g # h => SameHandler(g)
    BY DEF IndInv, TypeOK, HandlerTypeOK, SameHandler, StartTimer
  <1>4. request'[h] = {sock[h]}
    BY <1>1 DEF IndInv, TypeOK, HandlerTypeOK, HandlerOK
  <1>5. HandlerOK(h)'
    BY <1>1, <1>4 DEF IndInv, TypeOK, HandlerTypeOK, HandlerOK, InEventLoop, StartTimer
  <1>6. ConnectionsHeld'
    BY SameConnections DEF IndInv
  <1> QED
    BY <1>2, <1>3, <1>5, <1>6, WorkerFrame

LEMMA RespondStep ==
  ASSUME IndInv, NEW h \in Handler, Respond(h), UNCHANGED poolVars
  PROVE  IndInv'
  <1> USE DEF Respond, KeepAlive, StartTimer, poolVars, connVars
  <1>1. HandlerTypeOK' /\ PeerTypeOK'
    BY DEF IndInv, TypeOK, HandlerTypeOK, PeerTypeOK, PC
  <1>2. \A g \in Handler : g # h => SameHandler(g)
    BY DEF IndInv, TypeOK, HandlerTypeOK, SameHandler
  <1>3. HandlerOK(h)'
    BY DEF IndInv, TypeOK, HandlerTypeOK, HandlerOK, InEventLoop
  <1>4. ConnectionsHeld'
    BY SameConnections DEF IndInv
  <1> QED
    BY <1>1, <1>2, <1>3, <1>4, WorkerFrame

LEMMA FlushedStep ==
  ASSUME IndInv, NEW h \in Handler, Flushed(h), UNCHANGED poolVars
  PROVE  IndInv'
  <1> USE DEF Flushed, poolVars
  <1>1. HandlerTypeOK' /\ PeerTypeOK'
    BY DisconnectFromHostEffect DEF IndInv, TypeOK, HandlerTypeOK, PeerTypeOK, PC
  <1>2. \A g \in Handler : g # h => SameHandler(g)
    BY DisconnectFromHostEffect DEF SameHandler, IndInv, TypeOK, HandlerTypeOK
  <1>3. HandlerOK(h)'
    BY DisconnectFromHostEffect DEF IndInv, TypeOK, HandlerTypeOK, HandlerOK, InEventLoop
  <1> QED
    BY <1>1, <1>2, <1>3, DisconnectFromHostEffect, WorkerFrame

LEMMA ReadTimeoutStep ==
  ASSUME IndInv, NEW h \in Handler, ReadTimeout(h), UNCHANGED poolVars
  PROVE  IndInv'
  <1> USE DEF ReadTimeout, InEventLoop, poolVars, connVars
  <1>1. HandlerTypeOK' /\ PeerTypeOK'
    BY DEF IndInv, TypeOK, HandlerTypeOK, PeerTypeOK
  <1>2. \A g \in Handler : g # h => SameHandler(g)
    BY DEF IndInv, TypeOK, HandlerTypeOK, SameHandler
  <1>3. HandlerOK(h)'
    BY DEF IndInv, TypeOK, HandlerTypeOK, HandlerOK
  <1>4. ConnectionsHeld'
    BY SameConnections DEF IndInv
  <1> QED
    BY <1>1, <1>2, <1>3, <1>4, WorkerFrame

LEMMA ReadTimeoutFlushedStep ==
  ASSUME IndInv, NEW h \in Handler, ReadTimeoutFlushed(h), UNCHANGED poolVars
  PROVE  IndInv'
  <1> USE DEF ReadTimeoutFlushed, poolVars
  <1>1. HandlerTypeOK' /\ PeerTypeOK'
    BY DisconnectFromHostEffect DEF IndInv, TypeOK, HandlerTypeOK, PeerTypeOK
  <1>2. \A g \in Handler : g # h => SameHandler(g)
    BY DisconnectFromHostEffect DEF SameHandler, IndInv, TypeOK, HandlerTypeOK
  <1>3. HandlerOK(h)'
    BY DisconnectFromHostEffect DEF IndInv, TypeOK, HandlerTypeOK, HandlerOK, InEventLoop
  <1> QED
    BY <1>1, <1>2, <1>3, DisconnectFromHostEffect, WorkerFrame

LEMMA ThreadDoneStep ==
  ASSUME IndInv, NEW h \in Handler, ThreadDone(h), UNCHANGED poolVars
  PROVE  IndInv'
  <1> USE DEF ThreadDone, poolVars
  <1>1. /\ sock'[h] = None /\ (busy'[h] => busy[h])
        /\ timer' = [timer EXCEPT ![h] = FALSE] /\ pc' = [pc EXCEPT ![h] = "ended"]
        /\ ~busy'[h] => inbox[h] = <<>>
    BY DEF Disconnected, FreeHandler, IndInv, TypeOK, HandlerTypeOK, HandlerOK
  <1>2. HandlerTypeOK' /\ PeerTypeOK'
    <2>1. sock' \in [Handler -> Conn \cup {None}] /\ status' \in [Conn -> Status]
      BY DEF Disconnected, IndInv, TypeOK, HandlerTypeOK, PeerTypeOK, Status
    <2>2. busy' \in [Handler -> BOOLEAN]
      BY DEF Disconnected, FreeHandler, IndInv, TypeOK, HandlerTypeOK
    <2> QED
      BY <1>1, <2>1, <2>2 DEF IndInv, TypeOK, HandlerTypeOK, PeerTypeOK, PC
  <1>3. \A g \in Handler : g # h => SameHandler(g)
    BY <1>1 DEF Disconnected, FreeHandler, SameHandler, IndInv, TypeOK, HandlerTypeOK
  <1>4. HandlerOK(h)'
    BY <1>1 DEF IndInv, TypeOK, HandlerTypeOK, HandlerOK, InEventLoop
  <1>5. ConnectionsHeld'
    BY SameConnections, DisconnectedKeepsConnections DEF Disconnected, IndInv
  <1>6. pc[h] # "ended" /\ (busy[h] \/ ~busy'[h])
    BY <1>1 DEF InEventLoop
  <1> QED
    BY <1>2, <1>3, <1>4, <1>5, <1>6, WorkerFrame

-----------------------------------------------------------------------------
(* The clients. *)

LEMMA PeerStep ==
  ASSUME IndInv, NEW c \in Conn, Send(c) \/ HangUp(c), UNCHANGED poolVars
  PROVE  IndInv'
  <1> USE DEF Send, HangUp, poolVars, handlerVars
  <1>1. TypeOK'
    <2>1. sent[c] \in 0..MaxPieces /\ unread[c] \in Nat
      BY DEF IndInv, TypeOK, PeerTypeOK
    <2>2. sent' \in [Conn -> 0..MaxPieces]
      <3>1. sent[c] < MaxPieces => sent[c] + 1 \in 0..MaxPieces
        BY <2>1, MaxPiecesAssumption
      <3> QED
        BY <3>1 DEF IndInv, TypeOK, PeerTypeOK
    <2>3. unread' \in [Conn -> Nat]
      <3>1. unread[c] + 1 \in Nat
        BY <2>1
      <3> QED
        BY <3>1 DEF IndInv, TypeOK, PeerTypeOK
    <2>4. hungup' \in [Conn -> BOOLEAN] /\ status' \in [Conn -> Status]
      BY DEF IndInv, TypeOK, PeerTypeOK
    <2>5. HandlerTypeOK'
      BY DEF IndInv, TypeOK, HandlerTypeOK
    <2> QED
      BY <2>2, <2>3, <2>4, <2>5 DEF IndInv, TypeOK, PeerTypeOK
  <1>2. PoolInjective' /\ OutsideIsPristine' /\ DoomedInPool'
    BY DEF IndInv, PoolInjective, OutsideIsPristine, Pristine, DoomedInPool, InPool
  <1>3. (\A h \in Handler : HandlerOK(h))'
    BY DEF IndInv, HandlerOK, InEventLoop
  <1>4. ConnectionsHeld'
    BY SameConnections DEF IndInv
  <1> QED
    BY <1>1, <1>2, <1>3, <1>4 DEF IndInv

-----------------------------------------------------------------------------
(* The main thread. *)

\* A free handler, in the pool or about to be, is given a new connection.
LEMMA AssignKeeps ==
  ASSUME IndInv, NEW h \in Handler, NEW c \in Conn, ~busy[h], status[c] = "outside",
         Assign(h, c), pc' \in [Handler -> PC],
         pc'[h] = "ended" => pc[h] = "ended",
         \A g \in Handler : g # h => pc'[g] = pc[g],
         request' = request \/ request' = [request EXCEPT ![h] = {}],
         UNCHANGED <<doomed, unread, sent, hungup>>
  PROVE  /\ HandlerTypeOK' /\ PeerTypeOK'
         /\ (\A g \in Handler : HandlerOK(g))'
         /\ ConnectionsHeld'
         /\ \A g \in Handler : g # h => SameHandler(g)
  <1> USE DEF IndInv, TypeOK, HandlerTypeOK, PeerTypeOK
  <1>1. inbox[h] = <<>> /\ sock[h] = None
    BY DEF HandlerOK
  <1>2. /\ inbox' = [inbox EXCEPT ![h] = <<c>>]
        /\ busy' = [busy EXCEPT ![h] = TRUE]
        /\ status' = [status EXCEPT ![c] = "queued"]
        /\ UNCHANGED <<sock, timer, expired>>
    BY <1>1 DEF Assign, SetBusy
  <1>3. HandlerTypeOK' /\ PeerTypeOK'
    <2>1. request' \in [Handler -> SUBSET Conn]
      OBVIOUS
    <2>2. inbox' \in [Handler -> Seq(Conn)]
      <3>1. <<c>> \in Seq(Conn)
        OBVIOUS
      <3> QED
        BY <1>2, <3>1
    <2>3. busy' \in [Handler -> BOOLEAN] /\ UNCHANGED <<sock, timer, expired, doomed>>
      BY <1>2
    <2>4. HandlerTypeOK'
      BY <2>1, <2>2, <2>3
    <2>5. PeerTypeOK'
      BY <1>2 DEF Status
    <2> QED
      BY <2>4, <2>5
  <1>4. \A g \in Handler : g # h => SameHandler(g)
    BY <1>2 DEF SameHandler
  <1>5. HandlerOK(h)'
    BY <1>1, <1>2 DEF HandlerOK, InEventLoop
  <1>6. \A g \in Handler : inbox[g] # <<c>> /\ sock[g] # c
    BY NoneAssumption DEF ConnectionsHeld, StatusOfHeld
  <1>7. StatusOfHeld'
    BY <1>1, <1>2, <1>6 DEF ConnectionsHeld, StatusOfHeld
  <1>8. HeldOfStatus'
    <2> SUFFICES ASSUME NEW d \in Conn
                 PROVE  /\ status'[d] = "queued" => \E g \in Handler : inbox'[g] = <<d>>
                        /\ status'[d] = "open" => \E g \in Handler : sock'[g] = d
      BY DEF HeldOfStatus
    <2>1. d # c => status'[d] = status[d] /\ inbox[h] # <<d>>
      BY <1>1, <1>2
    <2>2. status'[c] = "queued" /\ inbox'[h] = <<c>>
      BY <1>2
    <2> QED
      BY <1>2, <2>1, <2>2 DEF ConnectionsHeld, HeldOfStatus
  <1>9. HolderIsUnique'
    <2>1. HolderIsUnique /\ sock' = sock /\ inbox \in [Handler -> Seq(Conn)]
      BY <1>2 DEF ConnectionsHeld
    <2>2. \A g \in Handler : inbox'[g] = IF g = h THEN <<c>> ELSE inbox[g]
      BY <1>2, <2>1
    <2>3. ASSUME NEW f \in Handler, NEW g \in Handler, NEW d \in Conn, inbox'[f] = <<d>>, inbox'[g] = <<d>>
          PROVE  f = g
      <3>1. d = c => f = h /\ g = h
        BY <1>6, <2>2, <2>3
      <3>2. ASSUME d # c, NEW k \in Handler, inbox'[k] = <<d>> PROVE inbox[k] = <<d>>
        <4>1. <<c>> # <<d>>
          BY <3>2
        <4> QED
          BY <2>2, <3>2, <4>1, Zenon
      <3>3. d # c => inbox[f] = <<d>> /\ inbox[g] = <<d>>
        BY <2>3, <3>2
      <3> QED
        BY <2>1, <3>1, <3>3 DEF HolderIsUnique
    <2>4. \A f, g \in Handler : sock'[f] = sock'[g] /\ sock'[f] # None => f = g
      BY <2>1, Zenon DEF HolderIsUnique
    <2>5. \A f, g \in Handler : \A d \in Conn : inbox'[f] = <<d>> /\ inbox'[g] = <<d>> => f = g
      BY <2>3, Zenon
    <2> QED
      BY <2>4, <2>5, Zenon DEF HolderIsUnique
  <1> QED
    BY <1>3, <1>4, <1>5, <1>7, <1>8, <1>9, OthersKeepHandlerOK DEF ConnectionsHeld

LEMMA AssignIdleStep ==
  ASSUME IndInv, NEW c \in Conn, IncomingConnection(c), AssignIdle(c)
  PROVE  IndInv'
  <1> USE DEF IncomingConnection
  <1>1. PICK i \in IdleIndices : Assign(pool[i], c) /\ UNCHANGED <<pc, request, pool>>
    BY DEF AssignIdle
  <1> DEFINE h == pool[i]
  <1>2. h \in Handler /\ h \in InPool /\ ~busy[h]
    BY DEF IdleIndices, Idle, InPool, ToSet, IndInv, TypeOK
  <1> HIDE DEF h
  <1>3. /\ HandlerTypeOK' /\ PeerTypeOK'
        /\ (\A g \in Handler : HandlerOK(g))'
        /\ ConnectionsHeld'
        /\ \A g \in Handler : g # h => SameHandler(g)
    <2>1. Assign(h, c) /\ pc' = pc /\ pc \in [Handler -> PC]
      BY <1>1 DEF h, IndInv, TypeOK, HandlerTypeOK
    <2>2. request' = request
      BY <1>1
    <2> QED
      BY <1>2, <2>1, <2>2, AssignKeeps
  <1>4. TypeOK' /\ PoolInjective'
    BY <1>1, <1>3 DEF IndInv, TypeOK, PoolInjective
  <1>5. OutsideIsPristine' /\ DoomedInPool'
    BY <1>1, <1>2, <1>3
    DEF IndInv, OutsideIsPristine, Pristine, SameHandler, DoomedInPool, InPool, MainReady
  <1> QED
    BY <1>3, <1>4, <1>5 DEF IndInv

LEMMA AssignNewStep ==
  ASSUME IndInv, NEW c \in Conn, IncomingConnection(c), AssignNew(c)
  PROVE  IndInv'
  <1> USE DEF IncomingConnection
  <1>1. PICK h \in Handler \ InPool :
           /\ Assign(h, c) /\ pc' = [pc EXCEPT ![h] = "loop"] /\ pool' = Append(pool, h)
           /\ request' = [request EXCEPT ![h] = {}]
    BY DEF AssignNew
  <1>2. ~busy[h]
    BY DEF IndInv, OutsideIsPristine, Pristine
  <1>3. /\ HandlerTypeOK' /\ PeerTypeOK'
        /\ (\A g \in Handler : HandlerOK(g))'
        /\ ConnectionsHeld'
        /\ \A g \in Handler : g # h => SameHandler(g)
    <2>1. /\ pc' \in [Handler -> PC] /\ pc'[h] = "loop"
          /\ \A g \in Handler : g # h => pc'[g] = pc[g]
      BY <1>1 DEF IndInv, TypeOK, HandlerTypeOK, PC
    <2> QED
      BY <1>1, <1>2, <2>1, AssignKeeps
  <1>4. pool \in Seq(Handler) /\ h \notin ToSet(pool)
    BY DEF IndInv, TypeOK, InPool
  <1>5. /\ pool' \in Seq(Handler) /\ Len(pool') = Len(pool) + 1
        /\ PoolInjective' /\ InPool' = InPool \cup {h}
    BY <1>1, <1>4, AppendProperty DEF IndInv, PoolInjective, InPool
  <1>6. Len(pool') <= MaxThreads
    BY <1>4, <1>5, LenProperties, MaxThreadsAssumption DEF AssignNew, RoomInPool
  <1>7. TypeOK'
    BY <1>3, <1>5, <1>6 DEF IndInv, TypeOK
  <1>8. OutsideIsPristine' /\ DoomedInPool'
    BY <1>3, <1>5
    DEF IndInv, OutsideIsPristine, Pristine, SameHandler, DoomedInPool, MainReady
  <1> QED
    BY <1>3, <1>5, <1>7, <1>8 DEF IndInv

LEMMA RefuseStep ==
  ASSUME IndInv, NEW c \in Conn, IncomingConnection(c), Refuse(c)
  PROVE  IndInv'
  <1> USE DEF IncomingConnection, Refuse, handlerVars
  <1>1. TypeOK'
    BY DEF IndInv, TypeOK, HandlerTypeOK, PeerTypeOK, Status
  <1>2. PoolInjective' /\ OutsideIsPristine' /\ DoomedInPool'
    BY DEF IndInv, PoolInjective, OutsideIsPristine, Pristine, DoomedInPool, InPool
  <1>3. (\A h \in Handler : HandlerOK(h))'
    BY DEF IndInv, HandlerOK, InEventLoop
  <1>4. ConnectionsHeld'
    <2> USE DEF IndInv, TypeOK, HandlerTypeOK, PeerTypeOK, ConnectionsHeld
    <2>1. status' = [status EXCEPT ![c] = "refused"] /\ status[c] = "outside"
          /\ inbox' = inbox /\ sock' = sock
      OBVIOUS
    <2>2. \A g \in Handler : inbox[g] # <<c>> /\ sock[g] # c
      BY <2>1, NoneAssumption DEF StatusOfHeld
    <2>3. StatusOfHeld'
      BY <2>1, <2>2 DEF StatusOfHeld
    <2>4. HeldOfStatus'
      BY <2>1 DEF HeldOfStatus
    <2>5. HolderIsUnique'
      BY <2>1, SameHolders
    <2> QED
      BY <2>3, <2>4, <2>5
  <1> QED
    BY <1>1, <1>2, <1>3, <1>4 DEF IndInv

\* cleanup(), close() and listen() touch neither the handlers nor the pool.
LEMMA ListenerStep ==
  ASSUME IndInv, Cleanup \/ Close \/ Listen
  PROVE  IndInv'
  <1> USE DEF Cleanup, Close, Listen, handlerVars, connVars, poolVars
  <1>1. UNCHANGED <<handlerVars, connVars, pool>>
    OBVIOUS
  <1>2. pool \in Seq(Handler) /\ \A i \in DOMAIN pool : pool[i] \in InPool \cap Handler
    BY DEF IndInv, TypeOK, InPool, ToSet
  <1>3. TypeOK'
    <2>1. doomed' \in Seq(Handler)
      <3>1. \A g \in Handler : <<g>> \in Seq(Handler)
        OBVIOUS
      <3>2. doomed \in Seq(Handler)
        BY DEF IndInv, TypeOK, HandlerTypeOK
      <3>3. CASE Cleanup
        <4>1. PICK i \in DOMAIN pool : doomed' = <<pool[i]>>
          BY <3>3
        <4> QED
          BY <1>2, <3>1, <4>1
      <3>4. CASE Close
        BY <1>2, <3>4
      <3>5. CASE Listen
        BY <3>2, <3>5
      <3> QED
        BY <3>3, <3>4, <3>5
    <2>2. listening' \in BOOLEAN /\ closes' \in 0..MaxCloses
      <3>1. closes \in 0..MaxCloses /\ listening \in BOOLEAN
        BY DEF IndInv, TypeOK
      <3>2. closes < MaxCloses => closes + 1 \in 0..MaxCloses
        BY <3>1, MaxClosesAssumption
      <3>3. closes' \in 0..MaxCloses
        BY <3>1, <3>2
      <3>4. listening' \in BOOLEAN
        BY <3>1
      <3> QED
        BY <3>3, <3>4
    <2> QED
      BY <1>1, <2>1, <2>2 DEF IndInv, TypeOK, HandlerTypeOK, PeerTypeOK
  <1>4. PoolInjective' /\ OutsideIsPristine'
    BY <1>1 DEF IndInv, PoolInjective, OutsideIsPristine, Pristine, InPool
  <1>5. DoomedInPool'
    <2>1. CASE Cleanup
      BY <1>2, <2>1 DEF IndInv, DoomedInPool, InPool, Excess, Idle
    <2>2. CASE Close
      BY <2>2 DEF DoomedInPool
    <2>3. CASE Listen
      BY <2>3 DEF DoomedInPool, MainReady
    <2> QED
      BY <2>1, <2>2, <2>3
  <1>6. (\A h \in Handler : HandlerOK(h))'
    BY <1>1 DEF IndInv, HandlerOK, InEventLoop
  <1>7. ConnectionsHeld'
    BY <1>1, SameConnections DEF IndInv
  <1> QED
    BY <1>3, <1>4, <1>5, <1>6, <1>7 DEF IndInv

LEMMA DestroyHandlerStep ==
  ASSUME IndInv, DestroyHandler
  PROVE  IndInv'
  <1> USE DEF DestroyHandler, IndInv
  <1>0. PICK h \in Handler : h = Head(doomed)
    BY DEF TypeOK, HandlerTypeOK
  <1>1. pc[h] = "ended" /\ sock[h] = None /\ ~timer[h] /\ ~expired[h]
    BY <1>0 DEF HandlerOK, WaitReturns
  <1>2. PICK i \in DOMAIN pool : pool[i] = h /\ pool' = RemoveAt(pool, i)
    BY <1>0
  <1>3. /\ pc' = [pc EXCEPT ![h] = "ended"] /\ busy' = [busy EXCEPT ![h] = FALSE]
        /\ inbox' = [inbox EXCEPT ![h] = <<>>]
        /\ status' = [c \in Conn |-> IF c \in ToSet(inbox[h]) THEN "dropped" ELSE status[c]]
        /\ doomed' = Tail(doomed) /\ doomed # <<>>
        /\ UNCHANGED <<sock, timer, expired, request, unread, sent, hungup, listening, closes>>
    BY <1>0
  <1> USE DEF TypeOK, HandlerTypeOK, PeerTypeOK
  <1>4. i \in 1..Len(pool) /\ pool \in Seq(Handler)
    OBVIOUS
  <1>5. /\ pool' \in Seq(Handler) /\ Len(pool') = Len(pool) - 1
        /\ PoolInjective' /\ InPool' = InPool \ {h}
    <2>1. \A j, k \in DOMAIN pool : pool[j] = pool[k] => j = k
      BY DEF PoolInjective
    <2>2. /\ RemoveAt(pool, i) \in Seq(Handler) /\ Len(RemoveAt(pool, i)) = Len(pool) - 1
          /\ \A j, k \in DOMAIN RemoveAt(pool, i) :
                RemoveAt(pool, i)[j] = RemoveAt(pool, i)[k] => j = k
          /\ ToSet(RemoveAt(pool, i)) = ToSet(pool) \ {pool[i]}
      BY <1>4, <2>1, RemoveAtProperties
    <2> QED
      BY <1>2, <2>2 DEF PoolInjective, InPool
  <1>6. HandlerTypeOK' /\ PeerTypeOK'
    <2>1. pc' \in [Handler -> PC] /\ busy' \in [Handler -> BOOLEAN]
      BY <1>3 DEF PC
    <2>2. inbox' \in [Handler -> Seq(Conn)]
      BY <1>3
    <2>3. doomed' \in Seq(Handler)
      BY <1>3
    <2>4. HandlerTypeOK'
      BY <1>3, <2>1, <2>2, <2>3
    <2>5. PeerTypeOK'
      BY <1>3 DEF Status
    <2> QED
      BY <2>4, <2>5
  <1>7. TypeOK'
    <2>1. Len(pool') <= MaxThreads
      BY <1>4, <1>5, LenProperties, MaxThreadsAssumption
    <2> QED
      BY <1>3, <1>5, <1>6, <2>1
  <1>8. \A g \in Handler : g # h => SameHandler(g)
    BY <1>3 DEF SameHandler
  <1>9. OutsideIsPristine'
    <2>1. Pristine(h)'
      BY <1>1, <1>3 DEF Pristine
    <2>2. ASSUME NEW g \in Handler, g \notin InPool, g # h PROVE Pristine(g)'
      <3>1. Pristine(g)
        BY <2>2 DEF OutsideIsPristine
      <3>2. SameHandler(g)
        BY <1>8, <2>2
      <3> QED
        BY <3>1, <3>2 DEF Pristine, SameHandler
    <2> QED
      BY <1>5, <2>1, <2>2 DEF OutsideIsPristine
  <1>10. (\A g \in Handler : HandlerOK(g))'
    <2>1. HandlerOK(h)'
      BY <1>1, <1>3 DEF HandlerOK, InEventLoop
    <2> QED
      BY <1>1, <1>8, <2>1, OthersKeepHandlerOK
  <1>11. ConnectionsHeld'
    <2>1. CASE inbox[h] = <<>>
      <3>1. ToSet(inbox[h]) = {}
        BY <2>1 DEF ToSet
      <3>2. inbox' = inbox
        <4>1. inbox \in [Handler -> Seq(Conn)]
          OBVIOUS
        <4>2. [inbox EXCEPT ![h] = <<>>] = inbox
          BY <2>1, <4>1, SameValueSameFunction
        <4> QED
          BY <1>3, <4>2
      <3>3. status' = status
        BY <1>3, <3>1
      <3> QED
        BY <1>3, <3>2, <3>3, SameConnections
    <2>2. CASE inbox[h] # <<>>
      <3>1. PICK c \in Conn : inbox[h] = <<c>>
        BY <1>1, <2>2 DEF HandlerOK
      <3>2. ToSet(inbox[h]) = {c}
        BY <3>1 DEF ToSet
      <3>3. status' = [status EXCEPT ![c] = "dropped"]
        BY <1>3, <3>2
      <3> QED
        BY <1>1, <1>3, <3>1, <3>3, DroppedKeepsConnections
    <2> QED
      BY <2>1, <2>2
  <1>12. DoomedInPool'
    <2>1. CASE listening
      <3>1. PICK g \in InPool : doomed = <<g>>
        BY <1>3, <2>1 DEF DoomedInPool
      <3> QED
        BY <1>3, <2>1, <3>1 DEF DoomedInPool
    <2>2. CASE ~listening
      <3>1. doomed = pool
        BY <2>2 DEF DoomedInPool
      <3>2. 1 \in DOMAIN pool /\ pool[1] = h
        BY <1>0, <1>3, <1>4, <3>1, LenProperties
      <3>3. i = 1
        BY <1>2, <3>2 DEF PoolInjective
      <3> QED
        BY <1>2, <1>3, <1>4, <2>2, <3>1, <3>3, RemoveFirstIsTail DEF DoomedInPool
    <2> QED
      BY <2>1, <2>2
  <1> QED
    BY <1>5, <1>7, <1>9, <1>10, <1>11, <1>12

-----------------------------------------------------------------------------
\* IndInv is inductive.
LEMMA NextIndInv == IndInv /\ [Next]_vars => IndInv'
  <1> SUFFICES ASSUME IndInv, [Next]_vars PROVE IndInv'
    OBVIOUS
  <1>1. ASSUME NEW h \in Handler, Worker(h), UNCHANGED poolVars PROVE IndInv'
    BY <1>1, HandleConnectionStep, PeerGoneStep, ReadStep, RespondStep, FlushedStep,
       ReadTimeoutStep, ReadTimeoutFlushedStep, ThreadDoneStep DEF Worker
  <1>2. ASSUME NEW c \in Conn, Send(c) \/ HangUp(c), UNCHANGED poolVars PROVE IndInv'
    BY <1>2, PeerStep
  <1>3. ASSUME NEW c \in Conn, IncomingConnection(c) PROVE IndInv'
    BY <1>3, AssignIdleStep, AssignNewStep, RefuseStep DEF IncomingConnection
  <1>4. ASSUME Cleanup \/ Close \/ Listen PROVE IndInv'
    BY <1>4, ListenerStep
  <1>5. ASSUME DestroyHandler PROVE IndInv'
    BY <1>5, DestroyHandlerStep
  <1>6. CASE UNCHANGED vars
    <2> USE DEF vars, handlerVars, connVars, poolVars
    <2>1. TypeOK' /\ PoolInjective' /\ OutsideIsPristine' /\ DoomedInPool'
      BY <1>6 DEF IndInv, TypeOK, HandlerTypeOK, PeerTypeOK, PoolInjective, OutsideIsPristine,
                  Pristine, DoomedInPool, InPool
    <2>2. (\A h \in Handler : HandlerOK(h))'
      BY <1>6 DEF IndInv, HandlerOK, InEventLoop
    <2>3. ConnectionsHeld'
      BY <1>6, SameConnections DEF IndInv
    <2> QED
      BY <2>1, <2>2, <2>3 DEF IndInv
  <1> QED
    BY <1>1, <1>2, <1>3, <1>4, <1>5, <1>6 DEF Next, Main, Peers

\* IndInv holds of every behaviour, whatever the number of handlers,
\* connections and closes.
THEOREM Invariance == Spec => []IndInv
  BY InitIndInv, NextIndInv, PTL DEF Spec

-----------------------------------------------------------------------------
\* Type correctness, with at most MaxThreads handlers in the pool.
THEOREM TypeCorrect == Spec => []TypeOK
  <1>1. IndInv => TypeOK
    BY DEF IndInv
  <1> QED
    BY <1>1, Invariance, PTL

\* getConnectionHandler() never finds a handler that still has a connection.
THEOREM FreeHandlersIdle == Spec => []FreeHandlersAreIdle
  <1>1. IndInv => FreeHandlersAreIdle
    BY DEF IndInv, HandlerOK, FreeHandlersAreIdle, Held, ToSet
  <1> QED
    BY <1>1, Invariance, PTL

\* A handler has one connection at most and a connection one handler at most.
THEOREM OneConnection == Spec => []OneConnectionPerHandler
  <1>1. IndInv => OneConnectionPerHandler
    <2> SUFFICES ASSUME IndInv PROVE OneConnectionPerHandler
      OBVIOUS
    <2>1. ASSUME NEW h \in Handler
          PROVE  Len(inbox[h]) <= 1 /\ (inbox[h] # <<>> => sock[h] = None)
      <3>1. CASE inbox[h] = <<>>
        BY <3>1
      <3>2. CASE inbox[h] # <<>>
        <4>1. PICK c \in Conn : inbox[h] = <<c>> /\ sock[h] = None
          BY <3>2 DEF IndInv, HandlerOK
        <4>2. Len(<<c>>) = 1
          OBVIOUS
        <4> QED
          BY <4>1, <4>2
      <3> QED
        BY <3>1, <3>2
    <2>2. ASSUME NEW g \in Handler, NEW h \in Handler, NEW c,
                 c \in Held(g), c \in Held(h)
          PROVE  g = h
      <3>1. \A k \in {g, h} : c \in Held(k) =>
               \/ c \in Conn /\ inbox[k] = <<c>> /\ status[c] = "queued"
               \/ c \in Conn /\ sock[k] = c /\ sock[k] # None /\ status[c] = "open"
        BY DEF IndInv, TypeOK, HandlerTypeOK, HandlerOK, Held, ToSet, ConnectionsHeld,
               StatusOfHeld
      <3> QED
        BY <2>2, <3>1 DEF IndInv, ConnectionsHeld, HolderIsUnique
    <2> QED
      BY <2>1, <2>2 DEF OneConnectionPerHandler
  <1> QED
    BY <1>1, Invariance, PTL

\* A silent client always has a read timer running against it.
THEOREM ReadersTimed == Spec => []ReaderIsTimed
  <1>1. IndInv => ReaderIsTimed
    BY DEF IndInv, HandlerOK, ReaderIsTimed
  <1> QED
    BY <1>1, Invariance, PTL

\* No request is put together from the bytes of two clients.
THEOREM OneClientPerRequest == Spec => []RequestOfOneClient
  <1>1. IndInv => RequestOfOneClient
    <2> SUFFICES ASSUME IndInv, NEW h \in Handler
                 PROVE  /\ Cardinality(request[h]) <= 1
                        /\ sock[h] # None => request[h] \subseteq {sock[h]}
      BY DEF RequestOfOneClient
    <2>1. request[h] = {} \/ \E c \in request[h] : request[h] = {c}
      BY DEF IndInv, HandlerOK
    <2>2. Cardinality(request[h]) \in {0, 1}
      BY <2>1, FS_EmptySet, FS_Singleton
    <2> QED
      BY <2>2 DEF IndInv, HandlerOK
  <1> QED
    BY <1>1, Invariance, PTL

\* cleanup() deletes only handlers that have no connection.
THEOREM CleanupSafe == Spec => []CleanupSparesConnections
  <1>1. IndInv => CleanupSparesConnections
    <2> SUFFICES ASSUME IndInv, NEW h \in Handler, Quitting(h), listening
                 PROVE  Held(h) = {}
      BY DEF CleanupSparesConnections
    <2>1. ~busy[h]
      BY DEF IndInv, DoomedInPool, Quitting
    <2> QED
      BY <2>1 DEF IndInv, HandlerOK, Held, ToSet
  <1> QED
    BY <1>1, Invariance, PTL

\* When close() has returned no thread and no connection is left.
THEOREM CloseComplete == Spec => []CloseLeavesNothing
  <1>1. IndInv => CloseLeavesNothing
    <2> SUFFICES ASSUME IndInv, MainReady, ~listening
                 PROVE  /\ pool = <<>>
                        /\ \A h \in Handler : Pristine(h)
                        /\ \A c \in Conn : status[c] \notin {"queued", "open"}
      BY DEF CloseLeavesNothing
    <2>1. pool = <<>>
      BY DEF IndInv, DoomedInPool, MainReady
    <2>2. \A h \in Handler : Pristine(h)
      BY <2>1 DEF IndInv, OutsideIsPristine, InPool, ToSet
    <2>3. \A c \in Conn : status[c] \notin {"queued", "open"}
      BY <2>2, NoneAssumption DEF IndInv, ConnectionsHeld, HeldOfStatus, Pristine
    <2> QED
      BY <2>1, <2>2, <2>3
  <1> QED
    BY <1>1, Invariance, PTL

-----------------------------------------------------------------------------
(* Counting the handlers of the pool. *)

\* The handlers of the pool that isBusy() is false or true of.
IdleSet == {h \in InPool : ~busy[h]}
BusySet == {h \in InPool : busy[h]}

\* A sequence without repetitions counts its elements, and those of them that b
\* is false of.
LEMMA CountInSequence ==
  ASSUME NEW S, NEW p \in Seq(S), NEW b, \A i, j \in DOMAIN p : p[i] = p[j] => i = j
  PROVE  /\ IsFiniteSet(ToSet(p)) /\ Cardinality(ToSet(p)) = Len(p)
         /\ IsFiniteSet({i \in DOMAIN p : ~b[p[i]]})
         /\ Cardinality({i \in DOMAIN p : ~b[p[i]]}) = Cardinality({x \in ToSet(p) : ~b[x]})
  <1> DEFINE I == {i \in DOMAIN p : ~b[p[i]]}
             X == {x \in ToSet(p) : ~b[x]}
             f == [i \in I |-> p[i]]
  <1>1. DOMAIN p = 1..Len(p) /\ Len(p) \in Nat
    BY LenProperties
  <1>2. IsFiniteSet(1..Len(p)) /\ Cardinality(1..Len(p)) = Len(p)
    BY <1>1, FS_Interval
  <1>3. p \in Bijection(1..Len(p), ToSet(p))
    <2>1. p \in [1..Len(p) -> ToSet(p)]
      BY <1>1 DEF ToSet
    <2> QED
      BY <1>1, <2>1 DEF Bijection, Injection, IsInjective, Surjection, ToSet
  <1>4. IsFiniteSet(ToSet(p)) /\ Cardinality(ToSet(p)) = Len(p)
    BY <1>2, <1>3, FS_Bijection DEF ExistsBijection
  <1>5. IsFiniteSet(I)
    BY <1>1, <1>2, FS_Subset
  <1>6. f \in Bijection(I, X)
    <2>1. f \in [I -> X]
      BY DEF ToSet
    <2>2. \A i, j \in I : f[i] = f[j] => i = j
      OBVIOUS
    <2>3. \A x \in X : \E i \in I : f[i] = x
      BY DEF ToSet
    <2> HIDE DEF f, I, X
    <2> QED
      BY <2>1, <2>2, <2>3 DEF Bijection, Injection, IsInjective, Surjection
  <1>7. Cardinality(X) = Cardinality(I)
    BY <1>5, <1>6, FS_Bijection DEF ExistsBijection
  <1> QED
    BY <1>4, <1>5, <1>7

\* The pool has as many handlers as it is long, and IdleIndices counts the idle
\* ones of them.
LEMMA PoolCount ==
  ASSUME IndInv
  PROVE  /\ IsFiniteSet(InPool) /\ Cardinality(InPool) = Len(pool)
         /\ IsFiniteSet(IdleIndices) /\ Cardinality(IdleIndices) = Cardinality(IdleSet)
         /\ IsFiniteSet(IdleSet) /\ IsFiniteSet(BusySet)
  <1>1. pool \in Seq(Handler) /\ \A i, j \in DOMAIN pool : pool[i] = pool[j] => i = j
    BY DEF IndInv, TypeOK, PoolInjective
  <1>2. /\ IsFiniteSet(InPool) /\ Cardinality(InPool) = Len(pool)
        /\ IsFiniteSet(IdleIndices) /\ Cardinality(IdleIndices) = Cardinality(IdleSet)
    BY <1>1, CountInSequence DEF InPool, IdleIndices, Idle, IdleSet
  <1>3. IdleSet \subseteq InPool /\ BusySet \subseteq InPool
    BY DEF IdleSet, BusySet
  <1> QED
    BY <1>2, <1>3, FS_Subset

\* The same after a step.
LEMMA PoolCountPrimed ==
  ASSUME IndInv'
  PROVE  /\ IsFiniteSet(IdleSet') /\ IsFiniteSet(IdleIndices')
         /\ Cardinality(IdleIndices') = Cardinality(IdleSet')
  <1>1. pool' \in Seq(Handler) /\ \A i, j \in DOMAIN pool' : pool'[i] = pool'[j] => i = j
    BY DEF IndInv, TypeOK, PoolInjective
  <1>2. /\ IsFiniteSet(InPool') /\ IsFiniteSet(IdleIndices')
        /\ Cardinality(IdleIndices') = Cardinality(IdleSet')
    BY <1>1, CountInSequence DEF InPool, IdleIndices, Idle, IdleSet
  <1>3. IdleSet' \subseteq InPool'
    BY DEF IdleSet
  <1> QED
    BY <1>2, <1>3, FS_Subset

-----------------------------------------------------------------------------
(* cleanup() keeps minThreads idle handlers. *)

\* While cleanup() waits for the thread of the handler it deletes, more than
\* minThreads handlers are idle.
SpareIdle == listening /\ doomed # <<>> => Cardinality(IdleIndices) > MinThreads

\* A step of a handler or a client makes no idle handler busy.
LEMMA IdleStayIdle ==
  ASSUME IndInv, Peers \/ \E h \in Handler : Worker(h)
  PROVE  /\ \A h \in Handler : ~busy[h] => ~busy'[h]
         /\ doomed' = doomed
  <1>1. busy \in [Handler -> BOOLEAN]
    BY DEF IndInv, TypeOK, HandlerTypeOK
  <1>2. CASE Peers
    BY <1>2 DEF Peers, Send, HangUp, handlerVars
  <1>3. ASSUME NEW h \in Handler, HandleConnection(h)
        PROVE  (\A g \in Handler : ~busy[g] => ~busy'[g]) /\ doomed' = doomed
    <2>1. busy[h]
      BY <1>3 DEF HandleConnection, IndInv, HandlerOK
    <2> QED
      BY <1>1, <1>3, <2>1 DEF HandleConnection
  <1>4. ASSUME NEW h \in Handler, Worker(h), ~HandleConnection(h)
        PROVE  (\A g \in Handler : ~busy[g] => ~busy'[g]) /\ doomed' = doomed
    <2>1. (busy' = busy \/ busy' = [busy EXCEPT ![h] = FALSE]) /\ doomed' = doomed
      BY <1>4 DEF Worker, PeerGone, Read, Respond, Flushed, ReadTimeout, ReadTimeoutFlushed,
                  ThreadDone, Disconnected, DisconnectFromHost, FreeHandler, connVars
    <2> QED
      BY <1>1, <2>1
  <1> QED
    BY <1>2, <1>3, <1>4

\* cleanup() found more than minThreads idle handlers, and a destructor that
\* ends leaves the main thread ready.
LEMMA SpareIdleStep ==
  ASSUME IndInv, IndInv', SpareIdle, [Next]_vars
  PROVE  SpareIdle'
  <1>1. CASE UNCHANGED vars
    BY <1>1 DEF vars, handlerVars, connVars, poolVars, SpareIdle, IdleIndices, Idle
  <1>2. CASE Cleanup
    <2>1. PICK i \in DOMAIN pool : Excess(i)
      BY <1>2 DEF Cleanup
    <2>2. {j \in IdleIndices : j <= i} \subseteq IdleIndices /\ IsFiniteSet(IdleIndices)
      BY PoolCount
    <2>3. /\ Cardinality({j \in IdleIndices : j <= i}) <= Cardinality(IdleIndices)
          /\ IsFiniteSet({j \in IdleIndices : j <= i})
      BY <2>2, FS_Subset
    <2>4. Cardinality({j \in IdleIndices : j <= i}) > MinThreads
      BY <2>1 DEF Excess, IdleUpTo
    <2>5. Cardinality(IdleIndices) > MinThreads
      BY <2>2, <2>3, <2>4, FS_CardinalityType, MinThreadsAssumption
    <2>6. IdleIndices' = IdleIndices
      BY <1>2 DEF Cleanup, handlerVars, poolVars, IdleIndices, Idle
    <2> QED
      BY <2>5, <2>6 DEF SpareIdle
  <1>3. CASE Close \/ Listen
    BY <1>3 DEF Close, Listen, MainReady, SpareIdle
  <1>4. CASE DestroyHandler
    <2> SUFFICES ASSUME listening, doomed # <<>> PROVE doomed' = <<>>
      BY <1>4 DEF DestroyHandler, SpareIdle
    <2>1. PICK h \in InPool : doomed = <<h>>
      BY DEF IndInv, DoomedInPool
    <2> QED
      BY <1>4, <2>1 DEF DestroyHandler
  <1>5. CASE \E c \in Conn : IncomingConnection(c)
    BY <1>5 DEF IncomingConnection, MainReady, SpareIdle
  <1>6. CASE (Peers \/ \E h \in Handler : Worker(h)) /\ UNCHANGED poolVars
    <2>1. /\ \A h \in Handler : ~busy[h] => ~busy'[h]
          /\ doomed' = doomed /\ pool' = pool /\ listening' = listening
      BY <1>6, IdleStayIdle DEF poolVars
    <2>2. DOMAIN pool = 1..Len(pool) /\ \A i \in DOMAIN pool : pool[i] \in Handler
      BY ElementOfSeq, LenProperties DEF IndInv, TypeOK
    <2>3. IdleIndices \subseteq IdleIndices'
      BY <2>1, <2>2 DEF IdleIndices, Idle
    <2>4. IsFiniteSet(IdleIndices)  /\ IsFiniteSet(IdleIndices')
      BY PoolCount, PoolCountPrimed
    <2>5. Cardinality(IdleIndices) <= Cardinality(IdleIndices')
      BY <2>3, <2>4, FS_Subset
    <2> QED
      BY <2>1, <2>4, <2>5, FS_CardinalityType, MinThreadsAssumption DEF SpareIdle
  <1> QED
    BY <1>1, <1>2, <1>3, <1>4, <1>5, <1>6 DEF Next, Main

\* When a cleanup() that deleted a handler ends, minThreads handlers are idle
\* (httpconnectionhandlerpool.cpp:118-138).
THEOREM MinimumKept == Spec => CleanupKeepsMinimum
  <1>1. Init => SpareIdle
    BY DEF Init, HandlerInit, SpareIdle
  <1>2. ASSUME IndInv, IndInv', SpareIdle, [Next]_vars, ~MainReady, MainReady', listening
        PROVE  IdleHandlers' >= MinThreads
    <2>1. DestroyHandler
      <3>1. ~((Peers \/ \E h \in Handler : Worker(h)) /\ UNCHANGED poolVars)
        BY <1>2, IdleStayIdle DEF MainReady
      <3>2. ~UNCHANGED vars
        BY <1>2 DEF vars, MainReady
      <3> QED
        BY <1>2, <3>1, <3>2 DEF Next, Main, Cleanup, Close, Listen, IncomingConnection, MainReady
    <2>2. PICK h \in InPool : doomed = <<h>> /\ ~busy[h]
      BY <1>2 DEF IndInv, DoomedInPool, MainReady
    <2>3. PICK i \in DOMAIN pool : pool[i] = h /\ pool' = RemoveAt(pool, i)
      BY <2>1, <2>2 DEF DestroyHandler
    <2>4. ToSet(pool') = ToSet(pool) \ {h}
      <3>1. pool \in Seq(Handler) /\ \A j, k \in DOMAIN pool : pool[j] = pool[k] => j = k
        BY <1>2 DEF IndInv, TypeOK, PoolInjective
      <3>2. i \in 1..Len(pool)
        BY <3>1, LenProperties
      <3> QED
        BY <2>3, <3>1, <3>2, RemoveAtProperties
    <2>5. busy' = [busy EXCEPT ![h] = FALSE] /\ busy \in [Handler -> BOOLEAN]
      BY <1>2, <2>1, <2>2 DEF DestroyHandler, IndInv, TypeOK, HandlerTypeOK
    <2>6. InPool \subseteq Handler
      BY ElementOfSeq, LenProperties, <1>2 DEF IndInv, TypeOK, InPool, ToSet
    <2>7. IdleSet' = IdleSet \ {h} /\ h \in IdleSet
      BY <2>2, <2>4, <2>5, <2>6 DEF IdleSet, InPool
    <2>8. Cardinality(IdleSet') = Cardinality(IdleSet) - 1 /\ Cardinality(IdleSet) \in Nat
      BY <1>2, <2>7, PoolCount, FS_RemoveElement, FS_CardinalityType
    <2>9. Cardinality(IdleSet) > MinThreads
      BY <1>2, PoolCount DEF SpareIdle, MainReady
    <2> QED
      BY <1>2, <2>8, <2>9, PoolCountPrimed, MinThreadsAssumption DEF IdleHandlers
  <1>3. IndInv /\ IndInv' /\ SpareIdle /\ [Next]_vars => SpareIdle'
    BY SpareIdleStep
  <1>4. IndInv /\ IndInv' /\ SpareIdle /\ [Next]_vars =>
            [~MainReady /\ MainReady' /\ listening => IdleHandlers' >= MinThreads]_vars
    BY <1>2
  <1> QED
    BY <1>1, <1>3, <1>4, Invariance, PTL DEF Spec, CleanupKeepsMinimum

-----------------------------------------------------------------------------
(* The listener implements Admission, if every descriptor is usable.  With *)
(* an unusable one a handler stays busy without a connection               *)
(* (httpconnectionhandler.cpp:95), and a connection can be refused early.  *)

\* A busy handler has a connection.
BusyHolds == \A h \in Handler : busy[h] => inbox[h] # <<>> \/ sock[h] # None

\* A handler is made busy for a connection and freed with the end of it.
LEMMA BusyHoldsStep ==
  ASSUME Unusable = {}, IndInv, BusyHolds, [Next]_vars
  PROVE  BusyHolds'
  <1> USE DEF handlerVars, connVars, poolVars
  <1>1. /\ busy \in [Handler -> BOOLEAN] /\ inbox \in [Handler -> Seq(Conn)]
        /\ sock \in [Handler -> Conn \cup {None}]
    BY DEF IndInv, TypeOK, HandlerTypeOK
  <1>2. CASE UNCHANGED vars
    BY <1>2 DEF vars, BusyHolds
  <1>3. CASE Cleanup \/ Close \/ Listen \/ Peers
    BY <1>3 DEF Cleanup, Close, Listen, Peers, Send, HangUp, BusyHolds
  <1>4. CASE DestroyHandler
    <2>1. PICK h : h = Head(doomed)
      OBVIOUS
    <2>2. \A g \in Handler :
            ~busy'[g] \/ (busy'[g] = busy[g] /\ inbox'[g] = inbox[g] /\ sock'[g] = sock[g])
      BY <1>1, <1>4, <2>1 DEF DestroyHandler
    <2> QED
      BY <2>2 DEF BusyHolds
  <1>5. ASSUME NEW c \in Conn, IncomingConnection(c) PROVE BusyHolds'
    <2>1. ASSUME NEW h \in Handler, Assign(h, c) PROVE BusyHolds'
      <3>1. inbox'[h] # <<>>
        <4>1. inbox'[h] = Append(inbox[h], c) /\ inbox[h] \in Seq(Conn)
          BY <1>1, <2>1 DEF Assign
        <4>2. Append(inbox[h], c) # <<>>
          BY <4>1, AppendProperties
        <4> QED
          BY <4>1, <4>2
      <3>2. \A g \in Handler : g # h =>
               busy'[g] = busy[g] /\ inbox'[g] = inbox[g] /\ sock'[g] = sock[g]
        BY <1>1, <2>1 DEF Assign, SetBusy
      <3> QED
        BY <3>1, <3>2 DEF BusyHolds
    <2>2. \A i \in IdleIndices : pool[i] \in Handler
      BY ElementOfSeq, LenProperties DEF IndInv, TypeOK, IdleIndices
    <2> QED
      BY <1>5, <2>1, <2>2 DEF IncomingConnection, AssignIdle, AssignNew, Refuse, BusyHolds
  <1>6. ASSUME NEW h \in Handler, HandleConnection(h) PROVE BusyHolds'
    <2>1. PICK c \in Conn : inbox[h] = <<c>>
      BY <1>6 DEF HandleConnection, IndInv, HandlerOK
    <2>2. sock' = [sock EXCEPT ![h] = c] /\ c # None
      BY <1>6, <2>1, NoneAssumption DEF HandleConnection
    <2>3. \A g \in Handler : g # h => busy'[g] = busy[g] /\ inbox'[g] = inbox[g]
      BY <1>1, <1>6 DEF HandleConnection
    <2> QED
      BY <1>1, <2>2, <2>3 DEF BusyHolds
  <1>7. ASSUME NEW h \in Handler, Worker(h), ~HandleConnection(h) PROVE BusyHolds'
    <2>1. \/ UNCHANGED <<busy, inbox, sock>>
          \/ Disconnected(h) /\ UNCHANGED inbox
      BY <1>7 DEF Worker, PeerGone, Read, Respond, Flushed, ReadTimeout, ReadTimeoutFlushed,
                  ThreadDone, DisconnectFromHost
    <2>2. CASE Disconnected(h) /\ UNCHANGED inbox
      BY <1>1, <2>2 DEF Disconnected, FreeHandler, BusyHolds
    <2> QED
      BY <2>1, <2>2 DEF BusyHolds
  <1> QED
    BY <1>2, <1>3, <1>4, <1>5, <1>6, <1>7 DEF Next, Main

\* Admission counts as this module does.
LEMMA SameCount == \A S : Admitted!Cardinality(S) = Cardinality(S)
  BY DEF Admitted!Cardinality, Cardinality

\* The admitted connections are those of the busy handlers, one each.
LEMMA ActiveCount ==
  ASSUME IndInv, BusyHolds
  PROVE  Cardinality(Admitted!Active) = Cardinality(BusySet)
  <1> DEFINE held(h) == IF sock[h] # None THEN sock[h] ELSE Head(inbox[h])
             f == [h \in BusySet |-> held(h)]
  <1>1. Admitted!Active = {c \in Conn : status[c] \in {"queued", "open"}}
    BY DEF Admitted!Active, Phase
  <1>2. BusySet = {h \in Handler : busy[h]}
    <2>1. InPool \subseteq Handler
      BY ElementOfSeq, LenProperties DEF IndInv, TypeOK, InPool, ToSet
    <2>2. \A h \in Handler : busy[h] => h \in InPool
      BY DEF IndInv, OutsideIsPristine, Pristine
    <2> QED
      BY <2>1, <2>2 DEF BusySet
  <1>3. ASSUME NEW h \in BusySet
        PROVE  \/ /\ sock[h] # None /\ held(h) = sock[h] /\ held(h) \in Conn
                  /\ status[held(h)] = "open"
               \/ /\ held(h) \in Conn /\ inbox[h] = <<held(h)>>
                  /\ status[held(h)] = "queued"
    <2>1. h \in Handler /\ (inbox[h] # <<>> \/ sock[h] # None)
      BY <1>2 DEF BusyHolds
    <2>2. CASE sock[h] # None
      BY <2>1, <2>2 DEF IndInv, TypeOK, HandlerTypeOK, ConnectionsHeld, StatusOfHeld
    <2>3. CASE sock[h] = None
      <3>1. PICK c \in Conn : inbox[h] = <<c>>
        BY <2>1, <2>3 DEF IndInv, HandlerOK
      <3>2. held(h) = c
        BY <2>3, <3>1
      <3> QED
        BY <2>1, <3>1, <3>2 DEF IndInv, ConnectionsHeld, StatusOfHeld
    <2> QED
      BY <2>2, <2>3
  <1>4. \A g, h \in BusySet : held(g) = held(h) => g = h
    <2> SUFFICES ASSUME NEW g \in BusySet, NEW h \in BusySet, held(g) = held(h) PROVE g = h
      OBVIOUS
    <2> HIDE DEF held
    <2>1. g \in Handler /\ h \in Handler
      BY <1>2
    <2>2. \/ sock[g] # None /\ sock[g] = sock[h]
          \/ held(g) \in Conn /\ inbox[g] = <<held(g)>> /\ inbox[h] = <<held(g)>>
      BY <1>3
    <2> QED
      BY <2>1, <2>2 DEF IndInv, ConnectionsHeld, HolderIsUnique
  <1>5. ASSUME NEW c \in Conn, status[c] \in {"queued", "open"}
        PROVE  \E h \in BusySet : held(h) = c
    <2>1. PICK h \in Handler : inbox[h] = <<c>> \/ sock[h] = c
      BY <1>5 DEF IndInv, ConnectionsHeld, HeldOfStatus
    <2>2. CASE sock[h] = c
      <3>1. sock[h] # None
        BY <2>2, NoneAssumption
      <3>2. h \in BusySet
        BY <1>2, <3>1 DEF IndInv, HandlerOK
      <3> QED
        BY <2>2, <3>1, <3>2
    <2>3. CASE inbox[h] = <<c>>
      <3>1. inbox[h] # <<>> /\ Head(inbox[h]) = c
        BY <2>3
      <3>2. sock[h] = None /\ h \in BusySet
        BY <1>2, <3>1 DEF IndInv, HandlerOK
      <3> QED
        BY <3>1, <3>2
    <2> QED
      BY <2>1, <2>2, <2>3
  <1> HIDE DEF held
  <1>6. f \in Bijection(BusySet, Admitted!Active)
    <2>1. f \in [BusySet -> Admitted!Active]
      BY <1>1, <1>3
    <2>2. \A g, h \in BusySet : f[g] = f[h] => g = h
      BY <1>4
    <2>3. \A c \in Admitted!Active : \E h \in BusySet : f[h] = c
      BY <1>1, <1>5
    <2> HIDE DEF f
    <2> QED
      BY <2>1, <2>2, <2>3 DEF Bijection, Injection, IsInjective, Surjection
  <1> QED
    BY <1>6, PoolCount, FS_Bijection DEF ExistsBijection

-----------------------------------------------------------------------------
(* The steps of the listener are steps of Admission. *)

\* What a change of one connection's status is to its client.
LEMMA PhaseChange ==
  ASSUME status \in [Conn -> Status], NEW c \in Conn, NEW s \in Status,
         status' = [status EXCEPT ![c] = s]
  PROVE  /\ s \in {"queued", "open"} => Phase' = [Phase EXCEPT ![c] = "admitted"]
         /\ s = "refused" => Phase' = [Phase EXCEPT ![c] = "refused"]
         /\ s \in {"closed", "dropped"} => Phase' = [Phase EXCEPT ![c] = "ended"]
  <1>1. DOMAIN Phase = Conn
    BY DEF Phase
  <1>2. status'[c] = s /\ \A d \in Conn : d # c => status'[d] = status[d]
    OBVIOUS
  <1> QED
    BY <1>1, <1>2 DEF Phase

\* A connection that is served or waits is admitted, and its end is its end.
LEMMA EndStep ==
  ASSUME status \in [Conn -> Status], NEW c \in Conn, NEW s \in {"closed", "dropped"},
         status[c] \in {"queued", "open"}, status' = [status EXCEPT ![c] = s]
  PROVE  Admitted!Next
  <1>1. Phase[c] = "admitted"
    BY DEF Phase
  <1>2. Phase' = [Phase EXCEPT ![c] = "ended"]
    BY PhaseChange DEF Status
  <1> QED
    BY <1>1, <1>2 DEF Admitted!Next, Admitted!End

\* incomingConnection() admits while a handler is idle or the pool has room,
\* and refuses while every handler it may have is busy.
LEMMA IncomingAdmits ==
  ASSUME IndInv, BusyHolds, NEW c \in Conn, IncomingConnection(c)
  PROVE  Admitted!Next
  <1>1. status \in [Conn -> Status] /\ Len(pool) \in Nat /\ Len(pool) <= MaxThreads
    BY LenProperties DEF IndInv, TypeOK, PeerTypeOK
  <1>2. Phase[c] = "outside"
    BY DEF IncomingConnection, Phase
  <1>3. /\ BusySet \subseteq InPool /\ IsFiniteSet(InPool) /\ Cardinality(InPool) = Len(pool)
        /\ Cardinality(BusySet) \in Nat /\ Cardinality(BusySet) <= Len(pool)
    <2>1. BusySet \subseteq InPool
      BY DEF BusySet
    <2>2. IsFiniteSet(InPool) /\ Cardinality(InPool) = Len(pool)
      BY PoolCount
    <2>3. IsFiniteSet(BusySet) /\ Cardinality(BusySet) <= Cardinality(InPool)
      BY <2>1, <2>2, FS_Subset
    <2> QED
      BY <2>1, <2>2, <2>3, FS_CardinalityType
  <1>4. Admitted!Cardinality(Admitted!Active) = Cardinality(BusySet)
    BY ActiveCount, SameCount
  <1>5. ASSUME NEW h, Assign(h, c), Cardinality(BusySet) < MaxThreads PROVE Admitted!Next
    <2>1. Phase' = [Phase EXCEPT ![c] = "admitted"]
      BY <1>1, <1>5, PhaseChange DEF Assign, Status
    <2> QED
      BY <1>2, <1>4, <1>5, <2>1 DEF Admitted!Next, Admitted!Admit
  <1>6. CASE AssignIdle(c)
    <2>1. PICK i \in IdleIndices : Assign(pool[i], c)
      BY <1>6 DEF AssignIdle
    <2>2. pool[i] \in InPool /\ pool[i] \notin BusySet
      BY DEF IdleIndices, Idle, InPool, ToSet, BusySet
    <2>3. Cardinality(BusySet) # Cardinality(InPool)
      BY <1>3, <2>2, FS_Subset
    <2> QED
      BY <1>1, <1>3, <1>5, <2>1, <2>3, MaxThreadsAssumption
  <1>7. CASE AssignNew(c)
    <2>1. PICK h \in Handler : Assign(h, c)
      BY <1>7 DEF AssignNew
    <2>2. Cardinality(BusySet) < MaxThreads
      BY <1>1, <1>3, <1>7, MaxThreadsAssumption DEF AssignNew, RoomInPool
    <2> QED
      BY <1>5, <2>1, <2>2
  <1>8. CASE Refuse(c)
    <2>1. BusySet = InPool
      BY <1>8 DEF Refuse, IdleIndices, Idle, BusySet, InPool, ToSet
    <2>2. Cardinality(BusySet) = MaxThreads
      BY <1>1, <1>3, <1>8, <2>1, MaxThreadsAssumption DEF Refuse, RoomInPool
    <2>3. Phase' = [Phase EXCEPT ![c] = "refused"]
      BY <1>1, <1>8, PhaseChange DEF Refuse, Status
    <2> QED
      BY <1>2, <1>4, <2>2, <2>3 DEF Admitted!Next, Admitted!Refuse
  <1> QED
    BY <1>6, <1>7, <1>8 DEF IncomingConnection

\* A handler ends connections, and accepting its event admits nobody anew.
LEMMA WorkerEnds ==
  ASSUME Unusable = {}, IndInv, NEW h \in Handler, Worker(h)
  PROVE  Admitted!Next \/ Phase' = Phase
  <1>1. status \in [Conn -> Status] /\ sock \in [Handler -> Conn \cup {None}]
    BY DEF IndInv, TypeOK, HandlerTypeOK, PeerTypeOK
  <1>2. ASSUME status' = status PROVE Phase' = Phase
    BY <1>2 DEF Phase
  <1>3. ASSUME sock[h] # None, Disconnected(h) PROVE Admitted!Next
    <2>1. PICK c \in Conn : c = sock[h]
      BY <1>1, <1>3
    <2>2. status[c] = "open"
      BY <1>3, <2>1 DEF IndInv, ConnectionsHeld, StatusOfHeld
    <2>3. status' = [status EXCEPT ![c] = "closed"]
      BY <1>3, <2>1 DEF Disconnected
    <2> QED
      BY <1>1, <2>2, <2>3, EndStep
  <1>4. CASE HandleConnection(h)
    <2>1. PICK c \in Conn : inbox[h] = <<c>> /\ status[c] = "queued"
      BY <1>4 DEF HandleConnection, IndInv, HandlerOK, ConnectionsHeld, StatusOfHeld
    <2>2. status' = [status EXCEPT ![c] = "open"]
      BY <1>4, <2>1 DEF HandleConnection
    <2>3. Phase[c] = "admitted" /\ Phase' = [Phase EXCEPT ![c] = "admitted"]
      BY <1>1, <2>1, <2>2, PhaseChange DEF Phase, Status
    <2>4. [Phase EXCEPT ![c] = "admitted"] = Phase
      BY <2>3 DEF Phase
    <2> QED
      BY <2>3, <2>4
  <1>5. CASE ~HandleConnection(h)
    <2>1. status' = status \/ (sock[h] # None /\ Disconnected(h))
      BY <1>5 DEF Worker, PeerGone, Read, Respond, Flushed, ReadTimeout, ReadTimeoutFlushed,
                  ThreadDone, DisconnectFromHost, connVars
    <2> QED
      BY <1>2, <1>3, <2>1
  <1> QED
    BY <1>4, <1>5

\* The destructor drops the connection still posted to its handler, if any.
LEMMA DestroyEnds ==
  ASSUME IndInv, DestroyHandler
  PROVE  Admitted!Next \/ Phase' = Phase
  <1>1. status \in [Conn -> Status] /\ doomed \in Seq(Handler) /\ doomed # <<>>
    BY DEF IndInv, TypeOK, HandlerTypeOK, PeerTypeOK, DestroyHandler
  <1>2. Head(doomed) \in Handler
    BY <1>1, HeadTailProperties
  <1>3. PICK h \in Handler : h = Head(doomed)
    BY <1>2
  <1>4. status' = [c \in Conn |-> IF c \in ToSet(inbox[h]) THEN "dropped" ELSE status[c]]
    BY <1>3 DEF DestroyHandler
  <1>5. CASE inbox[h] = <<>>
    <2>1. ToSet(inbox[h]) = {}
      BY <1>5 DEF ToSet
    <2>2. status' = status
      BY <1>1, <1>4, <2>1
    <2> QED
      BY <2>2 DEF Phase
  <1>6. ASSUME NEW c \in Conn, inbox[h] = <<c>> PROVE Admitted!Next
    <2>1. ToSet(inbox[h]) = {c}
      BY <1>6 DEF ToSet
    <2>2. status' = [status EXCEPT ![c] = "dropped"]
      BY <1>1, <1>4, <2>1
    <2>3. status[c] = "queued"
      BY <1>6 DEF IndInv, ConnectionsHeld, StatusOfHeld
    <2> QED
      BY <1>1, <2>2, <2>3, EndStep
  <1> QED
    BY <1>5, <1>6 DEF IndInv, HandlerOK

\* The steps of clients and of cleanup(), close() and listen() are stutters.
LEMMA StepAdmits ==
  ASSUME Unusable = {}, IndInv, BusyHolds, [Next]_vars
  PROVE  [Admitted!Next]_Phase
  <1>1. CASE status' = status
    BY <1>1 DEF Phase
  <1>2. CASE UNCHANGED vars \/ Cleanup \/ Close \/ Listen \/ Peers
    <2>1. status' = status
      BY <1>2 DEF vars, connVars, Cleanup, Close, Listen, Peers, Send, HangUp
    <2> QED
      BY <1>1, <2>1
  <1>3. CASE DestroyHandler
    BY <1>3, DestroyEnds
  <1>4. CASE \E c \in Conn : IncomingConnection(c)
    BY <1>4, IncomingAdmits
  <1>5. CASE \E h \in Handler : Worker(h)
    BY <1>5, WorkerEnds
  <1> QED
    BY <1>2, <1>3, <1>4, <1>5 DEF Next, Main

\* Up to maxThreads connections are served at a time, one is refused only while
\* as many are being served (httpconnectionhandlerpool.cpp:40-66,
\* httplistener.cpp:64-92), and what has ended stays so.
THEOREM ImplementsAdmission ==
  ASSUME Unusable = {}
  PROVE  Spec => Admitted!Init /\ [][Admitted!Next]_Phase
  <1>1. Init => BusyHolds /\ Admitted!Init
    BY DEF Init, HandlerInit, PeerInit, BusyHolds, Phase, Admitted!Init
  <1>2. IndInv /\ BusyHolds /\ [Next]_vars => BusyHolds'
    BY BusyHoldsStep
  <1>3. IndInv /\ BusyHolds /\ [Next]_vars => [Admitted!Next]_Phase
    BY StepAdmits
  <1> QED
    BY <1>1, <1>2, <1>3, Invariance, PTL DEF Spec
=============================================================================
