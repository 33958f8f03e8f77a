------------------------- MODULE HttpExchange_proofs -------------------------
(***************************************************************************)
(* A client that reads the responses by their headers gets the bodies that *)
(* service() wrote, for any number of requests, parts and pieces.          *)
(***************************************************************************)
EXTENDS HttpExchange, QCache_proofs

-----------------------------------------------------------------------------
(* What a client makes of a sequence of items. *)

Mode == {"head", "length", "until close", "size", "chunk", "crlf", "end", "confused"}
ClientState ==
    [mode : Mode, left : Int, body : Seq(WireItem), bodies : Seq(Seq(WireItem))]

\* The parts of a client's state, one by one.
LEMMA ClientParts ==
  ASSUME NEW c \in ClientState
  PROVE  /\ \A m \in Mode : [c EXCEPT !.mode = m] \in ClientState
         /\ \A n \in Int : [c EXCEPT !.left = n] \in ClientState
         /\ \A m \in Mode, n \in Int : [c EXCEPT !.mode = m, !.left = n] \in ClientState
         /\ \A n \in Int, b \in Seq(WireItem) : [c EXCEPT !.body = b, !.left = n] \in ClientState
         /\ \A m \in Mode, b \in Seq(WireItem), bs \in Seq(Seq(WireItem)) :
              [c EXCEPT !.mode = m, !.body = b, !.bodies = bs] \in ClientState
  <1>1. ASSUME NEW m \in Mode PROVE [c EXCEPT !.mode = m] \in ClientState
    BY DEF ClientState
  <1>2. ASSUME NEW n \in Int PROVE [c EXCEPT !.left = n] \in ClientState
    BY DEF ClientState
  <1>3. ASSUME NEW m \in Mode, NEW n \in Int PROVE [c EXCEPT !.mode = m, !.left = n] \in ClientState
    BY DEF ClientState
  <1>4. ASSUME NEW n \in Int, NEW b \in Seq(WireItem)
        PROVE  [c EXCEPT !.body = b, !.left = n] \in ClientState
    BY DEF ClientState
  <1>5. ASSUME NEW m \in Mode, NEW b \in Seq(WireItem), NEW bs \in Seq(Seq(WireItem))
        PROVE  [c EXCEPT !.mode = m, !.body = b, !.bodies = bs] \in ClientState
    BY DEF ClientState
  <1> QED
    BY <1>1, <1>2, <1>3, <1>4, <1>5

\* A client that has received an item is in one of its states.
LEMMA ReceiveTypes ==
  ASSUME NEW c \in ClientState, NEW e \in WireItem
  PROVE  Receive(c, e) \in ClientState
  <1>m. /\ "head" \in Mode /\ "length" \in Mode /\ "until close" \in Mode /\ "size" \in Mode
        /\ "chunk" \in Mode /\ "crlf" \in Mode /\ "end" \in Mode /\ "confused" \in Mode
    BY DEF Mode
  <1>1. ASSUME NEW d \in ClientState PROVE Got(d) \in ClientState
    <2>1. PICK bs \in Seq(Seq(WireItem)), b \in Seq(WireItem) :
             bs = Append(d.bodies, d.body) /\ b = <<>>
      BY AppendProperties, EmptySeq DEF ClientState
    <2>2. [d EXCEPT !.mode = "head", !.body = b, !.bodies = bs] \in ClientState
      BY <1>m, ClientParts
    <2> QED
      BY <2>1, <2>2 DEF Got
  <1>2. ReadHead(c, e.headers) \in ClientState
    <2>1. PICK h \in Headers : h = e.headers
      BY DEF WireItem
    <2>2. h["Content-Length"] \in HeaderValue
      BY DEF Headers, HeaderName
    <2>v. PICK v \in HeaderValue : v = h["Content-Length"]
      BY <2>2
    <2>w. v.num \in Nat
      BY DEF HeaderValue
    <2>3. h["Content-Length"].num \in Int
      BY <2>v, <2>w
    <2>4. [c EXCEPT !.mode = "size"] \in ClientState /\ [c EXCEPT !.mode = "until close"] \in ClientState
          /\ [c EXCEPT !.mode = "length", !.left = h["Content-Length"].num] \in ClientState
      BY <1>m, <2>3, ClientParts
    <2> QED
      BY <1>1, <2>1, <2>4 DEF ReadHead
  <1>3. ReadData(c, e) \in ClientState
    <2>1. PICK b \in Seq(WireItem) : b = Append(c.body, e)
      BY AppendProperties DEF ClientState
    <2>n. PICK n \in Int : n = c.left - 1
      BY DEF ClientState
    <2>2. PICK d \in ClientState : d = [c EXCEPT !.body = b, !.left = n]
      BY ClientParts
    <2>3. ReadData(c, e) = CASE c.mode = "until close" -> [d EXCEPT !.left = 0]
                             [] c.mode = "length" -> IF d.left = 0 THEN Got(d) ELSE d
                             [] c.mode = "chunk" -> IF d.left = 0 THEN [d EXCEPT !.mode = "crlf"] ELSE d
                             [] OTHER -> [c EXCEPT !.mode = "confused"]
      BY <2>1, <2>n, <2>2 DEF ReadData
    <2>z. PICK z \in Int : z = 0
      OBVIOUS
    <2>y. [d EXCEPT !.left = z] \in ClientState
      BY ClientParts
    <2>4. [d EXCEPT !.left = 0] \in ClientState
      BY <2>z, <2>y
    <2>5. [d EXCEPT !.mode = "crlf"] \in ClientState
      BY <1>m, ClientParts
    <2>6. [c EXCEPT !.mode = "confused"] \in ClientState
      BY <1>m, ClientParts
    <2> QED
      BY <1>1, <2>2, <2>3, <2>4, <2>5, <2>6
  <1>4. [c EXCEPT !.mode = "end"] \in ClientState /\ [c EXCEPT !.mode = "size"] \in ClientState
        /\ [c EXCEPT !.mode = "confused"] \in ClientState
        /\ [c EXCEPT !.mode = "chunk", !.left = e.num] \in ClientState
    <2>1. e.num \in Int
      BY DEF WireItem
    <2> QED
      BY <1>m, <2>1, ClientParts
  <1> QED
    BY <1>1, <1>2, <1>3, <1>4 DEF Receive

Reads(c, items, f) ==
    /\ f \in [0..Len(items) -> ClientState] /\ f[0] = c
    /\ \A i \in 1..Len(items) : f[i] = Receive(f[i - 1], items[i])

\* Received() has the states of the client one after the other.
LEMMA ReceivedReads ==
  ASSUME NEW c \in ClientState, NEW s \in Seq(WireItem)
  PROVE  Reads(c, s, Received(c, s))
  <1> DEFINE Step(f) == [n \in 0..Len(s) |-> IF n = 0 THEN c ELSE Receive(f[n - 1], s[n])]
  <1>1. PICK N \in Nat : N = Len(s)
    BY LenProperties
  <1>2. ASSUME NEW f PROVE Reads(c, s, f) => f = Step(f)
    BY <1>1 DEF Reads
  <1>3. \E f : Reads(c, s, f)
    <2> DEFINE F == [i \in 1..N |-> [x \in ClientState |-> Receive(x, s[i])]]
    <2>1. \A i \in 1..N : s[i] \in WireItem
      BY <1>1, ElementOfSeq
    <2>2. F \in [1..N -> [ClientState -> ClientState]]
      BY <2>1, ReceiveTypes
    <2>3. PICK f : Defines(ClientState, c, N, F, f)
      <3> HIDE DEF F
      <3> QED
        BY <2>2, Recursion
    <2>4. f \in [0..N -> ClientState] /\ f[0] = c /\ \A i \in 1..N : f[i] = F[i][f[i - 1]]
      BY <2>3 DEF Defines
    <2>5. ASSUME NEW i \in 1..N PROVE f[i] = Receive(f[i - 1], s[i])
      <3>1. f[i - 1] \in ClientState
        BY <2>4
      <3> QED
        BY <2>4, <3>1
    <2> QED
      BY <1>1, <2>4, <2>5 DEF Reads
  <1>4. Received(c, s) = Step(Received(c, s))
    BY <1>2, <1>3 DEF Received
  <1>5. PICK f : f = Received(c, s)
    OBVIOUS
  <1>6. f = Step(f)
    BY <1>4, <1>5
  <1>7. f[0] = c /\ \A i \in 1..N : f[i] = Receive(f[i - 1], s[i])
    BY <1>1, <1>6
  <1>8. \A i \in 0..N : f[i] \in ClientState
    <2> DEFINE U == {n \in Nat : n <= N => f[n] \in ClientState}
    <2>1. 0 \in U
      BY <1>7
    <2>2. ASSUME NEW n \in Nat, n \in U PROVE n + 1 \in U
      <3> SUFFICES ASSUME n + 1 <= N PROVE f[n + 1] \in ClientState
        OBVIOUS
      <3>1. n + 1 \in 1..N /\ (n + 1) - 1 = n /\ n <= N
        OBVIOUS
      <3>2. s[n + 1] \in WireItem /\ f[n] \in ClientState
        BY <1>1, <2>2, <3>1, ElementOfSeq
      <3> QED
        BY <1>7, <3>1, <3>2, ReceiveTypes
    <2> HIDE DEF U
    <2>3. Nat \subseteq U
      BY <2>1, <2>2, InductionOverSet
    <2> QED
      BY <2>3 DEF U
  <1>9. f \in [0..N -> ClientState]
    <2>1. f = [n \in 0..N |-> f[n]]
      BY <1>1, <1>6
    <2> QED
      BY <1>8, <2>1
  <1> QED
    BY <1>1, <1>5, <1>7, <1>9 DEF Reads

\* Whatever gives the client's states one after the other ends as Reading() does.
LEMMA ReadingOf ==
  ASSUME NEW c \in ClientState, NEW s \in Seq(WireItem), NEW f, Reads(c, s, f)
  PROVE  Reading(c, s) = f[Len(s)] /\ Reading(c, s) \in ClientState
  <1>1. PICK N \in Nat : N = Len(s)
    BY LenProperties
  <1>2. PICK g : g = Received(c, s) /\ Reads(c, s, g)
    BY ReceivedReads
  <1> DEFINE U == {n \in Nat : n <= N => f[n] = g[n]}
  <1>3. 0 \in U
    BY <1>2 DEF Reads
  <1>4. ASSUME NEW n \in Nat, n \in U PROVE n + 1 \in U
    <2> SUFFICES ASSUME n + 1 <= N PROVE f[n + 1] = g[n + 1]
      OBVIOUS
    <2>1. n + 1 \in 1..N /\ (n + 1) - 1 = n /\ n <= N
      OBVIOUS
    <2> QED
      BY <1>1, <1>2, <1>4, <2>1 DEF Reads
  <1> HIDE DEF U
  <1>5. Nat \subseteq U
    BY <1>3, <1>4, InductionOverSet
  <1>6. f[N] = g[N] /\ g[N] \in ClientState
    BY <1>1, <1>2, <1>5 DEF U, Reads
  <1> QED
    BY <1>1, <1>2, <1>6 DEF Reading

\* A client reads one sequence, then the next.
LEMMA ReadingOn ==
  ASSUME NEW c \in ClientState, NEW s \in Seq(WireItem), NEW t \in Seq(WireItem)
  PROVE  /\ Reading(c, s) \in ClientState
         /\ Reading(c, s \o t) = Reading(Reading(c, s), t)
  <1>1. PICK M \in Nat, N \in Nat : M = Len(s) /\ N = Len(t)
    BY LenProperties
  <1>2. PICK f : Reads(c, s, f) /\ f[M] = Reading(c, s) /\ f[M] \in ClientState
    BY <1>1, ReceivedReads, ReadingOf
  <1>3. PICK g : Reads(f[M], t, g) /\ g[N] = Reading(f[M], t)
    BY <1>1, <1>2, ReceivedReads, ReadingOf
  <1> DEFINE h == [n \in 0..(M + N) |-> IF n <= M THEN f[n] ELSE g[n - M]]
  <1>4. s \o t \in Seq(WireItem) /\ Len(s \o t) = M + N
        /\ \A i \in 1..(M + N) : (s \o t)[i] = IF i <= M THEN s[i] ELSE t[i - M]
    BY <1>1, ConcatProperties
  <1>5. f \in [0..M -> ClientState] /\ g \in [0..N -> ClientState] /\ f[0] = c /\ g[0] = f[M]
        /\ (\A i \in 1..M : f[i] = Receive(f[i - 1], s[i]))
        /\ \A i \in 1..N : g[i] = Receive(g[i - 1], t[i])
    BY <1>1, <1>2, <1>3 DEF Reads
  <1>6. ASSUME NEW n \in 0..(M + N) PROVE h[n] \in ClientState
    <2>1. CASE n <= M
      BY <1>5, <2>1
    <2>2. CASE ~(n <= M)
      <3>1. n - M \in 0..N
        BY <2>2
      <3> QED
        BY <1>5, <2>2, <3>1
    <2> QED
      BY <2>1, <2>2
  <1>7. ASSUME NEW i \in 1..(M + N) PROVE h[i] = Receive(h[i - 1], (s \o t)[i])
    <2>1. i - 1 \in 0..(M + N) /\ i \in 0..(M + N)
      OBVIOUS
    <2>2. CASE i <= M
      BY <1>4, <1>5, <2>1, <2>2
    <2>3. CASE i = M + 1
      <3>1. 1 \in 1..N /\ i - M = 1 /\ i - 1 = M
        BY <2>3
      <3>2. h[i] = g[1] /\ h[i - 1] = g[0] /\ (s \o t)[i] = t[1]
        BY <1>4, <1>5, <2>1, <2>3, <3>1
      <3> QED
        BY <1>5, <3>1, <3>2
    <2>4. CASE i > M + 1
      <3>1. i - M \in 1..N /\ (i - M) - 1 = (i - 1) - M
        BY <2>4
      <3>2. h[i] = g[i - M] /\ h[i - 1] = g[(i - 1) - M] /\ (s \o t)[i] = t[i - M]
        BY <1>4, <2>1, <2>4
      <3> QED
        BY <1>5, <3>1, <3>2
    <2>5. i <= M \/ i = M + 1 \/ i > M + 1
      OBVIOUS
    <2> HIDE DEF h
    <2> QED
      BY <2>2, <2>3, <2>4, <2>5
  <1>8. h[0] = c /\ h[M + N] = g[N]
    BY <1>5
  <1>9. h \in [0..(M + N) -> ClientState]
    BY <1>6
  <1> HIDE DEF h
  <1>10. Reads(c, s \o t, h)
    BY <1>4, <1>7, <1>8, <1>9 DEF Reads
  <1>11. Reading(c, s \o t) = h[M + N]
    <2>1. PICK r \in Seq(WireItem) : r = s \o t /\ Len(r) = M + N
      BY <1>4
    <2>2. Reads(c, r, h)
      BY <1>10, <2>1
    <2>3. Reading(c, r) = h[Len(r)]
      BY <2>2, ReadingOf
    <2> QED
      BY <2>1, <2>3
  <1> QED
    BY <1>2, <1>3, <1>8, <1>11

\* Nothing, and one item.
LEMMA ReadingLittle ==
  ASSUME NEW c \in ClientState, NEW e \in WireItem
  PROVE  Reading(c, <<>>) = c /\ <<e>> \in Seq(WireItem) /\ Reading(c, <<e>>) = Receive(c, e)
  <1>1. Len(<<>>) = 0 /\ <<>> \in Seq(WireItem)
    BY EmptySeq
  <1>2. Reads(c, <<>>, [i \in 0..0 |-> c])
    BY <1>1 DEF Reads
  <1>3. Reading(c, <<>>) = c
    BY <1>1, <1>2, ReadingOf
  <1>4. Len(<<e>>) = 1 /\ <<e>>[1] = e /\ <<e>> \in Seq(WireItem)
    OBVIOUS
  <1>5. Reads(c, <<e>>, [i \in 0..1 |-> IF i = 0 THEN c ELSE Receive(c, e)])
    <2>1. Receive(c, e) \in ClientState
      BY ReceiveTypes
    <2> QED
      BY <1>4, <2>1 DEF Reads
  <1>6. Reading(c, <<e>>) = Receive(c, e)
    BY <1>4, <1>5, ReadingOf
  <1> QED
    BY <1>3, <1>4, <1>6

\* A client that has read some items reads one more.
LEMMA ReadingOneMore ==
  ASSUME NEW c \in ClientState, NEW s \in Seq(WireItem), NEW e \in WireItem
  PROVE  /\ s \o <<e>> \in Seq(WireItem)
         /\ Reading(c, s \o <<e>>) = Receive(Reading(c, s), e)
  <1>d. PICK d \in ClientState : d = Reading(c, s)
    BY ReadingOn
  <1>1. PICK t \in Seq(WireItem) : t = <<e>> /\ Reading(d, t) = Receive(d, e)
    BY ReadingLittle
  <1>2. s \o t \in Seq(WireItem)
    BY ConcatProperties
  <1>3. Reading(c, s \o t) = Reading(d, t)
    BY <1>d, ReadingOn
  <1> QED
    BY <1>d, <1>1, <1>2, <1>3

LEMMA Pair ==
  ASSUME NEW e \in WireItem, NEW f \in WireItem
  PROVE  <<e>> \o <<f>> = <<e, f>>
  <1>1. <<e>> \in Seq(WireItem) /\ Len(<<e>>) = 1 /\ <<e>>[1] = e
    OBVIOUS
  <1>2. <<f>> \in Seq(WireItem) /\ Len(<<f>>) = 1 /\ <<f>>[1] = f
    OBVIOUS
  <1>3. PICK s \in Seq(WireItem) : s = <<e>> /\ Len(s) = 1 /\ s[1] = e
    BY <1>1
  <1>4. PICK t \in Seq(WireItem) : t = <<f>> /\ Len(t) = 1 /\ t[1] = f
    BY <1>2
  <1>5. s \o t \in Seq(WireItem) /\ Len(s \o t) = 2 /\ (s \o t)[1] = e /\ (s \o t)[2] = f
    BY <1>3, <1>4, ConcatProperties
  <1>6. <<e, f>> \in Seq(WireItem)
    OBVIOUS
  <1>7. Len(<<e, f>>) = 2 /\ <<e, f>>[1] = e /\ <<e, f>>[2] = f
    OBVIOUS
  <1>8. PICK u \in Seq(WireItem) : u = <<e, f>> /\ Len(u) = 2 /\ u[1] = e /\ u[2] = f
    BY <1>6, <1>7
  <1>9. PICK v \in Seq(WireItem) : v = s \o t /\ Len(v) = 2 /\ v[1] = e /\ v[2] = f
    BY <1>5
  <1>10. \A i \in 1..Len(u) : u[i] = v[i]
    BY <1>8, <1>9
  <1>11. u = v
    BY <1>8, <1>9, <1>10, SeqEqual
  <1> QED
    BY <1>3, <1>4, <1>8, <1>9, <1>11

\* Two items, or three.
LEMMA ReadingTwo ==
  ASSUME NEW c \in ClientState, NEW e \in WireItem, NEW f \in WireItem
  PROVE  /\ <<e, f>> \in Seq(WireItem) /\ Reading(c, <<e, f>>) = Receive(Receive(c, e), f)
         /\ <<e>> \o <<f>> \in Seq(WireItem)
         /\ Reading(c, <<e>> \o <<f>>) = Receive(Receive(c, e), f)
  <1>1. PICK s \in Seq(WireItem) : s = <<e>> /\ Reading(c, s) = Receive(c, e)
    BY ReadingLittle
  <1>2. PICK d \in ClientState : d = Reading(c, s)
    BY <1>1, ReceiveTypes
  <1>3. s \o <<f>> \in Seq(WireItem) /\ Reading(c, s \o <<f>>) = Receive(d, f)
    BY <1>2, ReadingOneMore
  <1>4. <<e>> \o <<f>> = <<e, f>>
    BY Pair
  <1> QED
    BY <1>1, <1>2, <1>3, <1>4

LEMMA ReadingThree ==
  ASSUME NEW c \in ClientState, NEW e \in WireItem, NEW f \in WireItem, NEW g \in WireItem
  PROVE  /\ <<e>> \o <<f>> \o <<g>> \in Seq(WireItem)
         /\ Reading(c, <<e>> \o <<f>> \o <<g>>) = Receive(Receive(Receive(c, e), f), g)
  <1>1. PICK s \in Seq(WireItem) : s = <<e>> \o <<f>> /\ Reading(c, s) = Receive(Receive(c, e), f)
    <2>1. <<e>> \o <<f>> = <<e, f>>
      BY Pair
    <2> QED
      BY <2>1, ReadingTwo
  <1>2. PICK c1 \in ClientState : c1 = Receive(c, e)
    BY ReceiveTypes
  <1>3. PICK d \in ClientState : d = Receive(c1, f)
    BY ReceiveTypes
  <1>d. d = Reading(c, s)
    BY <1>1, <1>2, <1>3
  <1>4. s \o <<g>> \in Seq(WireItem) /\ Reading(c, s \o <<g>>) = Receive(d, g)
    BY <1>d, ReadingOneMore
  <1> QED
    BY <1>1, <1>2, <1>3, <1>4

-----------------------------------------------------------------------------
(* What a client makes of the pieces of a response. *)

\* service() may set headers of its own, but none that says how long the
\* response is: HttpResponse decides that.
LengthLeftAlone ==
    \A s \in Settings : s[1] \in {"Connection", "connection"} /\ s[2] \in HeaderValue

\* Data behind a head that says nothing of a length: the client waits for the
\* close of the connection.
LEMMA ReadUntilClose ==
  ASSUME NEW c \in ClientState, c.mode = "until close", NEW e \in WireItem, e.kind = "data"
  PROVE  LET d == Receive(c, e)
         IN  d.mode = "until close" /\ d.body = Append(c.body, e) /\ d.bodies = c.bodies
  <1>1. Receive(c, e) = [[c EXCEPT !.body = Append(@, e), !.left = @ - 1] EXCEPT !.left = 0]
    BY DEF Receive, ReadData
  <1> QED
    BY <1>1 DEF ClientState

\* An item that is not data.
LEMMA ItemTypes ==
  ASSUME NEW n \in Nat, NEW k \in {"size", "data", "crlf"}
  PROVE  Item(k, n) \in WireItem /\ Item(k, n).kind = k /\ Item(k, n).num = n
  <1>1. Unset \in HeaderValue
    BY DEF Unset, HeaderValue
  <1>2. NoHeaders \in Headers
    BY <1>1 DEF NoHeaders, Headers
  <1> QED
    BY <1>2 DEF Item, WireItem

\* A chunk of one byte.
LEMMA ReadChunk ==
  ASSUME NEW c \in ClientState, c.mode = "size", NEW e \in WireItem, e.kind = "data"
  PROVE  LET s == <<Item("size", 1)>> \o <<e>> \o <<Item("crlf", 0)>>
             d == Reading(c, s)
         IN  /\ s \in Seq(WireItem) /\ d \in ClientState
             /\ d.mode = "size" /\ d.body = Append(c.body, e) /\ d.bodies = c.bodies
  <1>1. PICK x \in WireItem : x = Item("size", 1) /\ x.kind = "size" /\ x.num = 1
    BY ItemTypes
  <1>2. PICK y \in WireItem : y = Item("crlf", 0) /\ y.kind = "crlf"
    BY ItemTypes
  <1>3. PICK c1 \in ClientState : c1 = Receive(c, x)
    BY ReceiveTypes
  <1>4. PICK c2 \in ClientState : c2 = Receive(c1, e)
    BY ReceiveTypes
  <1>5. PICK c3 \in ClientState : c3 = Receive(c2, y)
    BY ReceiveTypes
  <1>6. c1 = [c EXCEPT !.mode = "chunk", !.left = 1]
    BY <1>1, <1>3 DEF Receive
  <1>7. c1.mode = "chunk" /\ c1.left = 1 /\ c1.body = c.body /\ c1.bodies = c.bodies
    BY <1>6 DEF ClientState
  <1>8. c2 = [[c1 EXCEPT !.body = Append(@, e), !.left = @ - 1] EXCEPT !.mode = "crlf"]
    <2>1. [c1 EXCEPT !.body = Append(@, e), !.left = @ - 1].left = 0
      BY <1>7 DEF ClientState
    <2> QED
      BY <1>4, <1>7, <2>1 DEF Receive, ReadData
  <1>9. c2.mode = "crlf" /\ c2.body = Append(c.body, e) /\ c2.bodies = c.bodies
    BY <1>7, <1>8 DEF ClientState
  <1>10. c3 = [c2 EXCEPT !.mode = "size"]
    BY <1>2, <1>5, <1>9 DEF Receive
  <1>11. c3.mode = "size" /\ c3.body = Append(c.body, e) /\ c3.bodies = c.bodies
    BY <1>9, <1>10 DEF ClientState
  <1>12. <<x>> \o <<e>> \o <<y>> \in Seq(WireItem) /\ Reading(c, <<x>> \o <<e>> \o <<y>>) = c3
    BY <1>3, <1>4, <1>5, ReadingThree
  <1> QED
    BY <1>1, <1>2, <1>11, <1>12

\* What the client has when a response is complete.
LEMMA GotIt ==
  ASSUME NEW c \in ClientState
  PROVE  /\ Got(c).mode = "head" /\ Got(c).body = <<>>
         /\ Got(c).bodies = Append(c.bodies, c.body)
  BY DEF Got, ClientState

\* The terminating marker.
LEMMA ReadMarker ==
  ASSUME NEW c \in ClientState, c.mode = "size"
  PROVE  LET s == <<Item("size", 0), Item("crlf", 0)>>
             d == Reading(c, s)
         IN  /\ s \in Seq(WireItem) /\ d \in ClientState
             /\ d.mode = "head" /\ d.body = <<>> /\ d.bodies = Append(c.bodies, c.body)
  <1>1. PICK x \in WireItem : x = Item("size", 0) /\ x.kind = "size" /\ x.num = 0
    BY ItemTypes
  <1>2. PICK y \in WireItem : y = Item("crlf", 0) /\ y.kind = "crlf"
    BY ItemTypes
  <1>3. PICK c1 \in ClientState : c1 = Receive(c, x)
    BY ReceiveTypes
  <1>4. PICK c2 \in ClientState : c2 = Receive(c1, y)
    BY ReceiveTypes
  <1>5. c1 = [c EXCEPT !.mode = "end"]
    BY <1>1, <1>3 DEF Receive
  <1>6. c1.mode = "end" /\ c1.body = c.body /\ c1.bodies = c.bodies
    BY <1>5 DEF ClientState
  <1>7. c2 = Got(c1)
    BY <1>2, <1>4, <1>6 DEF Receive
  <1>8. <<x, y>> \in Seq(WireItem) /\ Reading(c, <<x, y>>) = c2
    BY <1>3, <1>4, ReadingTwo
  <1> QED
    BY <1>1, <1>2, <1>6, <1>7, <1>8, GotIt

-----------------------------------------------------------------------------
(* One call of HttpResponse::write(). *)

\* A head item.
LEMMA HeadTypes ==
  ASSUME NEW h \in Headers, NEW n \in Nat
  PROVE  LET e == [kind |-> "head", num |-> n, headers |-> h]
         IN  e \in WireItem /\ e.kind = "head" /\ e.headers = h
  BY DEF WireItem

\* Bytes for a body: none or one.
Bytes == {<<>>} \cup {<<e>> : e \in {i \in WireItem : i.kind = "data"}}

\* The head alone, with the length of the body, and with a body of the length.
LEMMA ReadLength ==
  ASSUME NEW c \in ClientState, c.mode = "head", c.body = <<>>, NEW h \in Headers,
         ~h["Transfer-Encoding"].set, NEW data \in Bytes,
         h["Content-Length"].set, h["Content-Length"].num = Len(data)
  PROVE  LET s == <<[kind |-> "head", num |-> 200, headers |-> h]>> \o data
             d == Reading(c, s)
         IN  /\ s \in Seq(WireItem) /\ d \in ClientState
             /\ d.mode = "head" /\ d.body = <<>> /\ d.bodies = Append(c.bodies, data)
  <1>1. PICK x \in WireItem : x = [kind |-> "head", num |-> 200, headers |-> h]
                              /\ x.kind = "head" /\ x.headers = h
    BY HeadTypes
  <1>2. PICK c1 \in ClientState : c1 = Receive(c, x)
    BY ReceiveTypes
  <1>3. c1 = ReadHead(c, h)
    BY <1>1, <1>2 DEF Receive
  <1>5. CASE data = <<>>
    <2>1. c1 = Got(c)
      <3>1. Len(data) = 0
        BY <1>5
      <3> QED
        BY <1>3, <3>1 DEF ReadHead
    <2>2. <<x>> \in Seq(WireItem) /\ Reading(c, <<x>>) = c1
      BY <1>2, ReadingLittle
    <2>3. <<x>> \o data = <<x>>
      BY <1>5, <2>2, ConcatEmptySeq
    <2> QED
      BY <1>1, <1>5, <2>1, <2>2, <2>3, GotIt
  <1>6. CASE data # <<>>
    <2>1. PICK e \in WireItem : data = <<e>> /\ e.kind = "data"
      BY <1>6 DEF Bytes
    <2>2. Len(data) = 1
      BY <2>1
    <2>3. c1 = [c EXCEPT !.mode = "length", !.left = 1]
      BY <1>3, <2>2 DEF ReadHead
    <2>4. c1.mode = "length" /\ c1.left = 1 /\ c1.body = <<>> /\ c1.bodies = c.bodies
      BY <2>3 DEF ClientState
    <2>5. PICK b \in Seq(WireItem) : b = Append(c1.body, e)
      BY AppendProperties DEF ClientState
    <2>n. PICK n \in Int : n = c1.left - 1 /\ n = 0
      BY <2>4
    <2>6. PICK c2 \in ClientState : c2 = [c1 EXCEPT !.body = b, !.left = n]
      BY ClientParts
    <2>7. c2.left = 0 /\ c2.body = b /\ c2.bodies = c.bodies
      BY <2>4, <2>n, <2>6 DEF ClientState
    <2>9. Receive(c1, e) = Got(c2)
      BY <2>1, <2>4, <2>5, <2>n, <2>6, <2>7 DEF Receive, ReadData
    <2>10. b = data
      BY <2>1, <2>4, <2>5
    <2>11. <<x>> \o <<e>> \in Seq(WireItem) /\ Reading(c, <<x>> \o <<e>>) = Receive(c1, e)
      BY <1>2, ReadingTwo
    <2>12. Receive(c1, e) \in ClientState
      BY ReceiveTypes
    <2> QED
      BY <1>1, <2>1, <2>7, <2>9, <2>10, <2>11, <2>12, GotIt
  <1> QED
    BY <1>5, <1>6

\* A head that announces chunks.
LEMMA ReadChunkedHead ==
  ASSUME NEW c \in ClientState, c.mode = "head", NEW x \in WireItem, x.kind = "head",
         x.headers["Transfer-Encoding"].set
  PROVE  /\ Receive(c, x).mode = "size" /\ Receive(c, x).body = c.body
         /\ Receive(c, x).bodies = c.bodies
  <1>1. Receive(c, x) = [c EXCEPT !.mode = "size"]
    BY DEF Receive, ReadHead
  <1> QED
    BY <1>1 DEF ClientState

\* A head that says nothing of a length.
LEMMA ReadBareHead ==
  ASSUME NEW c \in ClientState, c.mode = "head", NEW x \in WireItem, x.kind = "head",
         ~x.headers["Transfer-Encoding"].set, ~x.headers["Content-Length"].set
  PROVE  /\ Receive(c, x).mode = "until close" /\ Receive(c, x).body = c.body
         /\ Receive(c, x).bodies = c.bodies
  <1>1. Receive(c, x) = [c EXCEPT !.mode = "until close"]
    BY DEF Receive, ReadHead
  <1> QED
    BY <1>1 DEF ClientState

\* Setting a header.
LEMMA SetHeaderIs ==
  ASSUME NEW r \in Response, NEW n \in HeaderName, NEW v \in HeaderValue
  PROVE  LET q == SetHeader(r, n, v)
         IN  /\ q \in Response /\ q.headers = [r.headers EXCEPT ![n] = v]
             /\ q.sentHeaders = r.sentHeaders /\ q.sentLastPart = r.sentLastPart
             /\ q.chunkedMode = r.chunkedMode /\ q.sent = r.sent
  <1>1. PICK h \in Headers : h = [r.headers EXCEPT ![n] = v]
    BY DEF Response, Headers
  <1>2. SetHeader(r, n, v) = [r EXCEPT !.headers = h]
    BY <1>1 DEF SetHeader
  <1>3. [r EXCEPT !.headers = h] \in Response
    BY DEF Response
  <1>4. LET q == [r EXCEPT !.headers = h]
        IN  /\ q.headers = h /\ q.sentHeaders = r.sentHeaders /\ q.sentLastPart = r.sentLastPart
            /\ q.chunkedMode = r.chunkedMode /\ q.sent = r.sent
    BY DEF Response
  <1> QED
    BY <1>1, <1>2, <1>3, <1>4

\* The head is written.
LEMMA WriteHeadersIs ==
  ASSUME NEW r \in Response, r.sent = <<>>
  PROVE  LET q == WriteHeaders(r)
         IN  /\ q \in Response /\ q.headers = r.headers /\ q.sentHeaders
             /\ q.sentLastPart = r.sentLastPart /\ q.chunkedMode = r.chunkedMode
             /\ q.sent = <<[kind |-> "head", num |-> 200, headers |-> r.headers]>>
  <1>1. PICK x \in WireItem : x = [kind |-> "head", num |-> 200, headers |-> r.headers]
    <2>1. r.headers \in Headers
      BY DEF Response
    <2> QED
      BY <2>1, HeadTypes
  <1>2. PICK s \in Seq(WireItem) : s = Append(r.sent, x)
    BY AppendProperties DEF Response
  <1>3. s = <<x>>
    BY <1>2
  <1>4. WriteHeaders(r) = [r EXCEPT !.sent = s, !.sentHeaders = TRUE]
    BY <1>1, <1>2 DEF WriteHeaders
  <1>5. [r EXCEPT !.sent = s, !.sentHeaders = TRUE] \in Response
    BY DEF Response
  <1>6. LET q == [r EXCEPT !.sent = s, !.sentHeaders = TRUE]
        IN  /\ q.headers = r.headers /\ q.sentHeaders /\ q.sentLastPart = r.sentLastPart
            /\ q.chunkedMode = r.chunkedMode /\ q.sent = s
    BY DEF Response
  <1> QED
    BY <1>1, <1>3, <1>4, <1>5, <1>6

\* What write() does behind the head.
Ending(r, last) == IF last THEN Marker(r) ELSE <<>>
Rest(r, data, last) ==
    [r EXCEPT !.sent = @ \o BodyPart(r, data) \o Ending(r, last),
              !.sentLastPart = last]

LEMMA RestIs ==
  ASSUME NEW r \in Response, NEW data, NEW last \in BOOLEAN,
         r.sent \o BodyPart(r, data) \o Ending(r, last) \in Seq(WireItem)
  PROVE  /\ Rest(r, data, last) \in Response
         /\ Rest(r, data, last).headers = r.headers
         /\ Rest(r, data, last).sentHeaders = r.sentHeaders
         /\ Rest(r, data, last).sentLastPart = last
         /\ Rest(r, data, last).chunkedMode = r.chunkedMode
         /\ Rest(r, data, last).sent = r.sent \o BodyPart(r, data) \o Ending(r, last)
  <1>s. PICK s \in Seq(WireItem) : s = r.sent \o BodyPart(r, data) \o Ending(r, last)
    OBVIOUS
  <1>1. Rest(r, data, last) = [r EXCEPT !.sent = s, !.sentLastPart = last]
    BY <1>s DEF Rest
  <1>2. [r EXCEPT !.sent = s, !.sentLastPart = last] \in Response
    BY DEF Response
  <1>3. LET q == [r EXCEPT !.sent = s, !.sentLastPart = last]
        IN  /\ q.headers = r.headers /\ q.sentHeaders = r.sentHeaders
            /\ q.sentLastPart = last /\ q.chunkedMode = r.chunkedMode /\ q.sent = s
    BY DEF Response
  <1> QED
    BY <1>s, <1>1, <1>2, <1>3

\* A byte or none at the end of a body.
LEMMA BytesAdd ==
  ASSUME NEW b \in Seq(WireItem), NEW data \in Bytes
  PROVE  /\ data \in Seq(WireItem) /\ b \o data \in Seq(WireItem)
         /\ data = <<>> => b \o data = b
         /\ \A e \in WireItem : data = <<e>> => b \o data = Append(b, e)
  <1>1. CASE data = <<>>
    <2>1. data \in Seq(WireItem) /\ b \o data = b
      BY <1>1, EmptySeq, ConcatEmptySeq
    <2>2. ASSUME NEW e \in WireItem PROVE data # <<e>>
      BY <1>1
    <2> QED
      BY <2>1, <2>2
  <1>2. CASE data # <<>>
    <2>1. PICK e \in WireItem : data = <<e>>
      BY <1>2 DEF Bytes
    <2>2. <<e>> \in Seq(WireItem)
      OBVIOUS
    <2>3. data \in Seq(WireItem) /\ b \o data \in Seq(WireItem)
      BY <2>1, <2>2, ConcatProperties
    <2>4. ASSUME NEW f \in WireItem, data = <<f>> PROVE b \o data = Append(b, f)
      BY <2>4, AppendIsConcat
    <2> QED
      BY <1>2, <2>3, <2>4
  <1> QED
    BY <1>1, <1>2

\* Response q is r, further written.
Continues(r, q, last) ==
    /\ q \in Response /\ q.headers = r.headers /\ q.sentHeaders = r.sentHeaders
    /\ q.sentLastPart = last /\ q.chunkedMode = r.chunkedMode

\* With q the client has the data behind what it had of the body; with it the
\* response is complete.
Gets(c, r, q, data, mode) ==
    LET d == Reading(c, r.sent)
        e == Reading(c, q.sent)
    IN  e.mode = mode /\ e.body = d.body \o data /\ e.bodies = d.bodies
Ends(c, r, q, data) ==
    LET d == Reading(c, r.sent)
        e == Reading(c, q.sent)
    IN  e.mode = "head" /\ e.body = <<>> /\ e.bodies = Append(d.bodies, d.body \o data)

\* write() in chunks: the client is where the next chunk starts, or has it all.
LEMMA RestChunked ==
  ASSUME NEW c \in ClientState, NEW r \in Response, r.chunkedMode, NEW data \in Bytes,
         NEW last \in BOOLEAN, Reading(c, r.sent).mode = "size"
  PROVE  /\ Continues(r, Rest(r, data, last), last)
         /\ ~last => Gets(c, r, Rest(r, data, last), data, "size")
         /\ last => Ends(c, r, Rest(r, data, last), data)
  <1>d. PICK d \in ClientState : d = Reading(c, r.sent) /\ d.mode = "size"
    <2>1. r.sent \in Seq(WireItem)
      BY DEF Response
    <2> QED
      BY <2>1, ReadingOn
  <1>1. r.sent \in Seq(WireItem) /\ d.body \in Seq(WireItem) /\ d.bodies \in Seq(Seq(WireItem))
    BY DEF Response, ClientState
  <1>2. PICK s \in Seq(WireItem), d1 \in ClientState :
          /\ s = r.sent \o BodyPart(r, data) /\ d1 = Reading(c, s)
          /\ d1.mode = "size" /\ d1.body = d.body \o data /\ d1.bodies = d.bodies
    <2>1. CASE data = <<>>
      <3>1. BodyPart(r, data) = <<>>
        BY <2>1 DEF BodyPart, SendsChunk
      <3>2. r.sent \o BodyPart(r, data) = r.sent
        BY <1>1, <3>1, ConcatEmptySeq
      <3>3. d.body \o data = d.body
        BY <1>1, <2>1, BytesAdd
      <3> QED
        BY <1>d, <1>1, <3>2, <3>3
    <2>2. CASE data # <<>>
      <3>1. PICK x \in WireItem : data = <<x>> /\ x.kind = "data"
        BY <2>2 DEF Bytes
      <3>2. Len(data) = 1
        BY <3>1
      <3>3. BodyPart(r, data) = <<Item("size", 1)>> \o <<x>> \o <<Item("crlf", 0)>>
        BY <2>2, <3>1, <3>2 DEF BodyPart, SendsChunk
      <3>4. PICK t \in Seq(WireItem), d1 \in ClientState :
              /\ t = BodyPart(r, data) /\ d1 = Reading(d, t)
              /\ d1.mode = "size" /\ d1.body = Append(d.body, x) /\ d1.bodies = d.bodies
        BY <1>d, <3>1, <3>3, ReadChunk
      <3>5. r.sent \o t \in Seq(WireItem) /\ Reading(c, r.sent \o t) = d1
        BY <1>d, <1>1, <3>4, ReadingOn, ConcatProperties
      <3>6. d.body \o data = Append(d.body, x)
        BY <1>1, <3>1, BytesAdd
      <3> QED
        BY <3>4, <3>5, <3>6
    <2> QED
      BY <2>1, <2>2
  <1>3. CASE ~last
    <2>1. s = r.sent \o BodyPart(r, data) \o Ending(r, last)
      BY <1>2, <1>3, ConcatEmptySeq DEF Ending
    <2>q. PICK q \in Response :
            /\ q = Rest(r, data, last) /\ q.headers = r.headers /\ q.sentHeaders = r.sentHeaders
            /\ q.sentLastPart = last /\ q.chunkedMode = r.chunkedMode /\ q.sent = s
      <3>1. r.sent \o BodyPart(r, data) \o Ending(r, last) \in Seq(WireItem)
        BY <2>1
      <3> QED
        BY <2>1, <3>1, RestIs
    <2> QED
      BY <1>d, <1>2, <1>3, <2>q DEF Continues, Gets
  <1>4. CASE last
    <2>1. Marker(r) = <<Item("size", 0), Item("crlf", 0)>>
      BY DEF Marker
    <2>2. PICK t \in Seq(WireItem), d2 \in ClientState :
            /\ t = Marker(r) /\ d2 = Reading(d1, t)
            /\ d2.mode = "head" /\ d2.body = <<>> /\ d2.bodies = Append(d1.bodies, d1.body)
      <3> DEFINE end == <<Item("size", 0), Item("crlf", 0)>>
      <3>1. /\ end \in Seq(WireItem) /\ Reading(d1, end) \in ClientState
            /\ Reading(d1, end).mode = "head" /\ Reading(d1, end).body = <<>>
            /\ Reading(d1, end).bodies = Append(d1.bodies, d1.body)
        BY <1>2, ReadMarker, Zenon
      <3> HIDE DEF end
      <3>2. Marker(r) = end
        BY <2>1 DEF end
      <3> QED
        BY <3>1, <3>2, Zenon
    <2>a. s \o t \in Seq(WireItem)
      BY ConcatProperties
    <2>b. Reading(c, s \o t) = Reading(d1, t)
      BY <1>2, ReadingOn
    <2>3. PICK u \in Seq(WireItem) : u = s \o t /\ Reading(c, u) = d2
      BY <2>a, <2>b, <2>2
    <2>4. u = r.sent \o BodyPart(r, data) \o Ending(r, last)
      BY <1>2, <1>4, <2>2, <2>3 DEF Ending
    <2>q. PICK q \in Response :
            /\ q = Rest(r, data, last) /\ q.headers = r.headers /\ q.sentHeaders = r.sentHeaders
            /\ q.sentLastPart = last /\ q.chunkedMode = r.chunkedMode /\ q.sent = u
      <3>1. r.sent \o BodyPart(r, data) \o Ending(r, last) \in Seq(WireItem)
        BY <2>4
      <3> QED
        BY <2>4, <3>1, RestIs
    <2> QED
      BY <1>d, <1>2, <1>4, <2>2, <2>3, <2>q DEF Continues, Ends
  <1> QED
    BY <1>3, <1>4

\* write() without a length: the client waits for the close.
LEMMA RestUntilClose ==
  ASSUME NEW c \in ClientState, NEW r \in Response, ~r.chunkedMode, NEW data \in Bytes,
         NEW last \in BOOLEAN, Reading(c, r.sent).mode = "until close"
  PROVE  /\ Continues(r, Rest(r, data, last), last)
         /\ Gets(c, r, Rest(r, data, last), data, "until close")
  <1>d. PICK d \in ClientState : d = Reading(c, r.sent) /\ d.mode = "until close"
    <2>1. r.sent \in Seq(WireItem)
      BY DEF Response
    <2> QED
      BY <2>1, ReadingOn
  <1>1. r.sent \in Seq(WireItem) /\ d.body \in Seq(WireItem)
    BY DEF Response, ClientState
  <1>2. PICK t \in Seq(WireItem) : t = data
    BY <1>1, BytesAdd
  <1>3. PICK s \in Seq(WireItem) : s = r.sent \o t
    BY <1>1, ConcatProperties
  <1>4. s = r.sent \o BodyPart(r, data) \o Ending(r, last)
    <2>1. BodyPart(r, data) = t /\ Ending(r, last) = <<>>
      BY <1>2 DEF BodyPart, Ending, Marker
    <2> QED
      BY <1>3, <2>1, ConcatEmptySeq
  <1>q. PICK q \in Response :
          /\ q = Rest(r, data, last) /\ q.headers = r.headers /\ q.sentHeaders = r.sentHeaders
          /\ q.sentLastPart = last /\ q.chunkedMode = r.chunkedMode /\ q.sent = s
    <2>1. r.sent \o BodyPart(r, data) \o Ending(r, last) \in Seq(WireItem)
      BY <1>4
    <2> QED
      BY <1>4, <2>1, RestIs
  <1>5. CASE data = <<>>
    <2>1. s = r.sent /\ d.body \o data = d.body
      BY <1>1, <1>2, <1>3, <1>5, ConcatEmptySeq
    <2> QED
      BY <1>d, <1>q, <2>1 DEF Continues, Gets
  <1>6. CASE data # <<>>
    <2>1. PICK x \in WireItem : data = <<x>> /\ x.kind = "data"
      BY <1>6 DEF Bytes
    <2>2. PICK e \in ClientState : e = Receive(d, x)
      BY ReceiveTypes
    <2>3. e.mode = "until close" /\ e.body = Append(d.body, x) /\ e.bodies = d.bodies
      BY <1>d, <2>1, <2>2, ReadUntilClose
    <2>r. PICK z \in Seq(WireItem) : z = r.sent /\ d = Reading(c, z)
      BY <1>d, <1>1
    <2>q. Reading(c, z \o <<x>>) = Receive(Reading(c, z), x)
      BY ReadingOneMore
    <2>4. Reading(c, r.sent \o <<x>>) = e
      BY <2>q, <2>r, <2>2
    <2>5. d.body \o data = Append(d.body, x)
      BY <1>1, <2>1, BytesAdd
    <2>6. Reading(c, s) = e
      BY <1>2, <1>3, <2>1, <2>4
    <2> QED
      BY <1>d, <1>q, <2>3, <2>5, <2>6 DEF Continues, Gets
  <1> QED
    BY <1>5, <1>6

\* write() is the head, if it is not written yet, and the rest.
LEMMA WriteIs ==
  ASSUME NEW r, NEW data, NEW last \in BOOLEAN
  PROVE  /\ r.sentHeaders => Write(r, data, last) = Rest(r, data, last)
         /\ ~r.sentHeaders =>
              Write(r, data, last) = Rest(WriteHeaders(ChooseLength(r, data, last)), data, last)
  BY DEF Write, Rest, Ending

\* The values of headers write() sets.
LEMMA HeaderValues ==
  /\ \A n \in Nat : Number(n) \in HeaderValue /\ Number(n).set = TRUE /\ Number(n).num = n
  /\ Text("close") \in HeaderValue /\ Text("close").set = TRUE
  /\ Text("chunked") \in HeaderValue /\ Text("chunked").set = TRUE
  <1>1. ASSUME NEW n \in Nat
        PROVE  Number(n) \in HeaderValue /\ Number(n).set = TRUE /\ Number(n).num = n
    BY DEF Number, HeaderValue
  <1>2. Text("close") \in HeaderValue /\ Text("close").set = TRUE
    BY DEF Text, HeaderValue
  <1>3. Text("chunked") \in HeaderValue /\ Text("chunked").set = TRUE
    BY DEF Text, HeaderValue
  <1> QED
    BY <1>1, <1>2, <1>3

\* The first write() is the last: the client gets a response of this length.
LEMMA FirstIsLast ==
  ASSUME NEW c \in ClientState, c.mode = "head", c.body = <<>>, NEW r \in Response, Fresh(r),
         NEW data \in Bytes, NEW last \in BOOLEAN, last
  PROVE  /\ Write(r, data, last) \in Response /\ Write(r, data, last).sentLastPart = last
         /\ Answered(c, Write(r, data, last), data)
  <1>1. PICK n \in Nat : n = Len(data)
    BY EmptySeq, BytesAdd, LenProperties
  <1>2. PICK v \in HeaderValue : v = Number(n) /\ v.set = TRUE /\ v.num = n
    BY HeaderValues
  <1>3. "Content-Length" \in HeaderName /\ "Transfer-Encoding" \in HeaderName
    BY DEF HeaderName
  <1>4. PICK r1 \in Response :
          /\ r1 = SetHeader(r, "Content-Length", v)
          /\ r1.headers = [r.headers EXCEPT !["Content-Length"] = v]
          /\ r1.chunkedMode = r.chunkedMode /\ r1.sent = <<>>
    BY <1>3, SetHeaderIs DEF Fresh
  <1>5. PICK f \in Response :
          /\ f = WriteHeaders(r1) /\ f.headers = r1.headers /\ f.sentHeaders
          /\ f.chunkedMode = r1.chunkedMode
          /\ f.sent = <<[kind |-> "head", num |-> 200, headers |-> f.headers]>>
    BY <1>4, WriteHeadersIs
  <1>6. PICK h \in Headers : h = f.headers
    BY DEF Response
  <1>7. r.headers \in Headers
    BY DEF Response
  <1>8. h["Content-Length"] = v /\ h["Transfer-Encoding"] = r.headers["Transfer-Encoding"]
    BY <1>3, <1>4, <1>5, <1>6, <1>7 DEF Headers
  <1>9. h["Content-Length"].set /\ h["Content-Length"].num = Len(data)
        /\ ~h["Transfer-Encoding"].set
    BY <1>1, <1>2, <1>8 DEF Fresh
  <1>10. PICK s \in Seq(WireItem), d \in ClientState :
           /\ s = f.sent \o data /\ d = Reading(c, s)
           /\ d.mode = "head" /\ d.body = <<>> /\ d.bodies = Append(c.bodies, data)
    <2>1. f.sent = <<[kind |-> "head", num |-> 200, headers |-> h]>>
      BY <1>5, <1>6
    <2>2. /\ f.sent \o data \in Seq(WireItem) /\ Reading(c, f.sent \o data) \in ClientState
          /\ Reading(c, f.sent \o data).mode = "head" /\ Reading(c, f.sent \o data).body = <<>>
          /\ Reading(c, f.sent \o data).bodies = Append(c.bodies, data)
      BY <1>9, <2>1, ReadLength
    <2> QED
      BY <2>2
  <1>11. f.sent \o BodyPart(f, data) \o Ending(f, last) = s
    <2>1. BodyPart(f, data) = data /\ Ending(f, last) = <<>>
      BY <1>4, <1>5 DEF BodyPart, Ending, Marker, Fresh
    <2> QED
      BY <1>10, <2>1, ConcatEmptySeq
  <1>12. Write(r, data, last) = Rest(f, data, last)
    <2>1. ChooseLength(r, data, last) = r1
      BY <1>1, <1>2, <1>4 DEF ChooseLength
    <2> QED
      BY <1>5, <2>1, WriteIs DEF Fresh
  <1>13. PICK q \in Response :
           /\ q = Rest(f, data, last) /\ q.headers = f.headers /\ q.sentHeaders = f.sentHeaders
           /\ q.sentLastPart = last /\ q.chunkedMode = f.chunkedMode /\ q.sent = s
    <2>1. f.sent \o BodyPart(f, data) \o Ending(f, last) \in Seq(WireItem)
      BY <1>11
    <2>2. /\ Rest(f, data, last) \in Response
          /\ Rest(f, data, last).headers = f.headers
          /\ Rest(f, data, last).sentHeaders = f.sentHeaders
          /\ Rest(f, data, last).sentLastPart = last
          /\ Rest(f, data, last).chunkedMode = f.chunkedMode
          /\ Rest(f, data, last).sent = f.sent \o BodyPart(f, data) \o Ending(f, last)
      BY <2>1, RestIs
    <2> QED
      BY <1>11, <2>2
  <1>14. q = Write(r, data, last) /\ d = Reading(c, q.sent)
    BY <1>10, <1>12, <1>13
  <1> QED
    BY <1>10, <1>13, <1>14 DEF Answered, Waits

\* The first write() is not the last: chunks, or all until the close.
LEMMA FirstOfMore ==
  ASSUME NEW c \in ClientState, c.mode = "head", c.body = <<>>, NEW r \in Response, Fresh(r),
         NEW data \in Bytes, NEW last \in BOOLEAN, ~last
  PROVE  /\ Write(r, data, last) \in Response /\ Write(r, data, last).sentLastPart = last
         /\ InChunks(c, Write(r, data, last), data) \/ TillClose(c, Write(r, data, last), data)
  <1>1. "Content-Length" \in HeaderName /\ "Transfer-Encoding" \in HeaderName
        /\ r.headers \in Headers
    BY DEF HeaderName, Response
  <1>2. PICK r1 \in Response :
          /\ r1 = ChooseLength(r, data, last) /\ r1.sent = <<>> /\ ~r1.sentLastPart
          /\ \/ r1.chunkedMode /\ r1.headers["Transfer-Encoding"] = Text("chunked")
             \/ /\ ~r1.chunkedMode /\ ~r1.headers["Content-Length"].set
                /\ ~r1.headers["Transfer-Encoding"].set
    <2>1. CASE ConnectionClose(r)
      <3>1. ChooseLength(r, data, last) = r
        BY <2>1 DEF ChooseLength
      <3> QED
        BY <3>1 DEF Fresh
    <2>2. CASE ~ConnectionClose(r)
      <3>1. PICK v \in HeaderValue : v = Text("chunked")
        BY HeaderValues
      <3>2. PICK r2 \in Response :
              /\ r2 = SetHeader(r, "Transfer-Encoding", v) /\ r2.sent = <<>>
              /\ r2.headers = [r.headers EXCEPT !["Transfer-Encoding"] = v]
              /\ r2.sentLastPart = r.sentLastPart
        BY <1>1, SetHeaderIs DEF Fresh
      <3>3. ChooseLength(r, data, last) = [r2 EXCEPT !.chunkedMode = TRUE]
        BY <2>2, <3>1, <3>2 DEF ChooseLength
      <3>4. LET q == [r2 EXCEPT !.chunkedMode = TRUE]
            IN  /\ q \in Response /\ q.sent = <<>> /\ q.sentLastPart = r.sentLastPart
                /\ q.chunkedMode /\ q.headers = r2.headers
        BY <3>2 DEF Response
      <3>5. r2.headers["Transfer-Encoding"] = v
        BY <1>1, <3>2 DEF Headers
      <3> QED
        BY <3>1, <3>3, <3>4, <3>5 DEF Fresh
    <2> QED
      BY <2>1, <2>2
  <1>3. PICK f \in Response :
          /\ f = WriteHeaders(r1) /\ f.headers = r1.headers /\ f.sentHeaders
          /\ f.sentLastPart = r1.sentLastPart /\ f.chunkedMode = r1.chunkedMode
          /\ f.sent = <<[kind |-> "head", num |-> 200, headers |-> f.headers]>>
    <2>1. r1.sent = <<>>
      BY <1>2
    <2> QED
      BY <2>1, WriteHeadersIs
  <1>4. PICK x \in WireItem : f.sent = <<x>> /\ x.kind = "head" /\ x.headers = f.headers
    <2>1. f.headers \in Headers
      BY DEF Response
    <2> QED
      BY <1>3, <2>1, HeadTypes
  <1>5. PICK d \in ClientState : d = Receive(c, x) /\ d = Reading(c, f.sent)
    BY <1>4, ReadingLittle, ReceiveTypes
  <1>6. Write(r, data, last) = Rest(f, data, last)
    BY <1>2, <1>3, WriteIs DEF Fresh
  <1>7. <<>> \in Seq(WireItem) /\ <<>> \o data = data
    BY EmptySeq, BytesAdd, ConcatEmptySeq
  <1>8. CASE f.chunkedMode
    <2>1. f.headers["Transfer-Encoding"] = Text("chunked")
      BY <1>2, <1>3, <1>8
    <2>2. x.headers["Transfer-Encoding"].set
      BY <1>4, <2>1, HeaderValues
    <2>3. d.mode = "size" /\ d.body = <<>> /\ d.bodies = c.bodies
      BY <1>4, <1>5, <2>2, ReadChunkedHead
    <2>4. d = Reading(c, f.sent)
      BY <1>5
    <2>3a. Reading(c, f.sent).mode = "size"
      BY <2>3, <2>4
    <2>5. Continues(f, Rest(f, data, last), last) /\ Gets(c, f, Rest(f, data, last), data, "size")
      BY <1>8, <2>3a, RestChunked
    <2>7. PICK q \in Response :
            /\ q = Write(r, data, last) /\ q.sentHeaders /\ q.sentLastPart = last
            /\ q.chunkedMode /\ q.headers = f.headers
      BY <1>3, <1>6, <1>8, <2>5 DEF Continues
    <2>8. LET e == Reading(c, q.sent)
          IN  e.mode = "size" /\ e.body = data /\ e.bodies = c.bodies
      BY <1>6, <1>7, <2>3, <2>4, <2>5, <2>7 DEF Gets
    <2> QED
      BY <2>1, <2>7, <2>8 DEF InChunks, Getting
  <1>9. CASE ~f.chunkedMode
    <2>1. ~f.headers["Content-Length"].set /\ ~f.headers["Transfer-Encoding"].set
      BY <1>2, <1>3, <1>9
    <2>2. f.headers["Transfer-Encoding"] # Text("chunked")
      BY <2>1, HeaderValues
    <2>3. ~x.headers["Content-Length"].set /\ ~x.headers["Transfer-Encoding"].set
      BY <1>4, <2>1
    <2>4. d.mode = "until close" /\ d.body = <<>> /\ d.bodies = c.bodies
      BY <1>4, <1>5, <2>3, ReadBareHead
    <2>5. d = Reading(c, f.sent)
      BY <1>5
    <2>5a. Reading(c, f.sent).mode = "until close"
      BY <2>4, <2>5
    <2>6. /\ Continues(f, Rest(f, data, last), last)
          /\ Gets(c, f, Rest(f, data, last), data, "until close")
      BY <1>9, <2>5a, RestUntilClose
    <2>7. PICK q \in Response :
            /\ q = Write(r, data, last) /\ q.sentHeaders /\ q.sentLastPart = last
            /\ ~q.chunkedMode /\ q.headers = f.headers
      BY <1>3, <1>6, <1>9, <2>6 DEF Continues
    <2>8. LET e == Reading(c, q.sent)
          IN  e.mode = "until close" /\ e.body = data /\ e.bodies = c.bodies
      BY <1>6, <1>7, <2>4, <2>5, <2>6, <2>7 DEF Gets
    <2> QED
      BY <2>1, <2>2, <2>7, <2>8 DEF TillClose, Getting
  <1> QED
    BY <1>8, <1>9

\* A write() that keeps the rules leaves the client where its response is.
LEMMA WriteFrames ==
  ASSUME NEW c \in ClientState, c.mode = "head", c.body = <<>>, NEW r \in Response,
         NEW b \in Seq(WireItem), ~r.sentLastPart, Framed(r, c, b), NEW data \in Bytes,
         NEW last \in BOOLEAN
  PROVE  /\ Write(r, data, last) \in Response /\ Write(r, data, last).sentLastPart = last
         /\ Framed(Write(r, data, last), c, b \o data)
  <1>1. CASE Fresh(r) /\ b = <<>>
    <2>1. b \o data = data
      BY <1>1, BytesAdd, ConcatEmptySeq
    <2>2. CASE last
      <3>1. PICK q : q = Write(r, data, last)
        OBVIOUS
      <3>2. q \in Response /\ q.sentLastPart = last /\ Answered(c, q, data)
        BY <1>1, <2>2, <3>1, FirstIsLast
      <3> QED
        BY <2>1, <2>2, <3>1, <3>2 DEF Framed
    <2>3. CASE ~last
      <3>1. PICK q : q = Write(r, data, last)
        OBVIOUS
      <3>2. q \in Response /\ q.sentLastPart = last
            /\ (InChunks(c, q, data) \/ TillClose(c, q, data))
        BY <1>1, <2>3, <3>1, FirstOfMore
      <3> QED
        BY <2>1, <2>3, <3>1, <3>2 DEF Framed
    <2> QED
      BY <2>2, <2>3
  <1>2. CASE InChunks(c, r, b)
    <2>1. /\ r.sentHeaders /\ r.chunkedMode /\ r.headers["Transfer-Encoding"] = Text("chunked")
          /\ Reading(c, r.sent).mode = "size" /\ Reading(c, r.sent).body = b
          /\ Reading(c, r.sent).bodies = c.bodies
      BY <1>2 DEF InChunks, Getting
    <2>2. PICK q : q = Rest(r, data, last) /\ q = Write(r, data, last)
      BY <2>1, WriteIs
    <2>3. Continues(r, q, last)
      BY <2>1, <2>2, RestChunked
    <2>4. q \in Response /\ q.sentLastPart = last
      BY <2>3 DEF Continues
    <2>5. CASE last
      <3>e. Ends(c, r, q, data)
        BY <2>1, <2>2, <2>5, RestChunked
      <3>1. Answered(c, q, b \o data)
        BY <2>1, <3>e DEF Ends, Answered, Waits
      <3> QED
        BY <2>2, <2>4, <2>5, <3>1 DEF Framed
    <2>6. CASE ~last
      <3>e. Gets(c, r, q, data, "size")
        BY <2>1, <2>2, <2>6, RestChunked
      <3>1. Getting(c, q, b \o data, "size")
        BY <2>1, <3>e DEF Gets, Getting
      <3>2. q.sentHeaders /\ q.chunkedMode /\ q.headers["Transfer-Encoding"] = Text("chunked")
        BY <2>1, <2>3 DEF Continues
      <3> QED
        BY <2>2, <2>4, <2>6, <3>1, <3>2 DEF Framed, InChunks
    <2> QED
      BY <2>5, <2>6
  <1>3. CASE TillClose(c, r, b)
    <2>1. /\ r.sentHeaders /\ ~r.chunkedMode /\ ~r.headers["Content-Length"].set
          /\ r.headers["Transfer-Encoding"] # Text("chunked")
          /\ Reading(c, r.sent).mode = "until close" /\ Reading(c, r.sent).body = b
          /\ Reading(c, r.sent).bodies = c.bodies
      BY <1>3 DEF TillClose, Getting
    <2>2. PICK q : q = Rest(r, data, last) /\ q = Write(r, data, last)
      BY <2>1, WriteIs
    <2>3. Continues(r, q, last) /\ Gets(c, r, q, data, "until close")
      BY <2>1, <2>2, RestUntilClose
    <2>4. q \in Response /\ q.sentLastPart = last /\ q.headers = r.headers
          /\ q.sentHeaders /\ ~q.chunkedMode
      BY <2>1, <2>3 DEF Continues
    <2>5. Getting(c, q, b \o data, "until close")
      BY <2>1, <2>3 DEF Gets, Getting
    <2>6. TillClose(c, q, b \o data)
      BY <2>1, <2>4, <2>5 DEF TillClose
    <2> QED
      BY <2>2, <2>4, <2>6 DEF Framed
  <1> QED
    BY <1>1, <1>2, <1>3 DEF Framed

\* What service() has written when it ends, with the last part if it was missing.
LEMMA FinalFrames ==
  ASSUME NEW c \in ClientState, c.mode = "head", c.body = <<>>, NEW r \in Response,
         NEW b \in Seq(WireItem), Framed(r, c, b)
  PROVE  LET f == Finalized(r)
             e == Reading(c, f.sent)
         IN  /\ f.sent \in Seq(WireItem)
             /\ \/ Waits(e, Append(c.bodies, b))
                \/ /\ CloseAfter(f)
                   /\ e.mode = "until close" /\ e.body = b /\ e.bodies = c.bodies
  <1>1. PICK f \in Response : f = Finalized(r) /\ f.sentLastPart /\ Framed(f, c, b)
    <2>1. CASE r.sentLastPart
      BY <2>1 DEF Finalized
    <2>2. CASE ~r.sentLastPart
      <3>1. PICK last \in BOOLEAN : last = TRUE
        OBVIOUS
      <3>2. PICK data \in Bytes : data = <<>>
        BY DEF Bytes
      <3>3. b \o data = b
        BY <3>2, BytesAdd
      <3>4. /\ Write(r, data, last) \in Response /\ Write(r, data, last).sentLastPart = last
            /\ Framed(Write(r, data, last), c, b \o data)
        BY <2>2, WriteFrames
      <3>5. Finalized(r) = Write(r, data, last)
        BY <2>2, <3>1, <3>2 DEF Finalized
      <3> QED
        BY <3>1, <3>3, <3>4, <3>5
    <2> QED
      BY <2>1, <2>2
  <1>2. f.sent \in Seq(WireItem)
    BY DEF Response
  <1>3. Answered(c, f, b) \/ TillClose(c, f, b)
    BY <1>1 DEF Framed, Fresh
  <1>4. CASE Answered(c, f, b)
    BY <1>1, <1>2, <1>4 DEF Answered
  <1>5. CASE TillClose(c, f, b)
    BY <1>1, <1>2, <1>5 DEF TillClose, Getting, CloseAfter
  <1> QED
    BY <1>3, <1>4, <1>5

-----------------------------------------------------------------------------
(* The handler. *)

\* A sequence whose last element is replaced.
LEMMA ChangeLast ==
  ASSUME NEW S, NEW f \in Seq(S), NEW x \in S, NEW y \in S
  PROVE  [Append(f, x) EXCEPT ![Len(Append(f, x))] = y] = Append(f, y)
  <1>0. PICK bs : bs = Append(f, x)
    OBVIOUS
  <1>1. PICK n \in Nat : n = Len(f)
    BY LenProperties
  <1>2. bs \in Seq(S) /\ Len(bs) = n + 1 /\ bs[n + 1] = x /\ \A i \in 1..n : bs[i] = f[i]
    BY <1>0, <1>1, AppendProperties
  <1>3. PICK t \in Seq(S) : t = [bs EXCEPT ![n + 1] = y] /\ Len(t) = n + 1
                            /\ \A j \in 1..(n + 1) : t[j] = IF j = n + 1 THEN y ELSE bs[j]
    <2>1. PICK i \in 1..Len(bs) : i = n + 1
      BY <1>2
    <2>2. /\ [bs EXCEPT ![i] = y] \in Seq(S) /\ Len([bs EXCEPT ![i] = y]) = Len(bs)
          /\ \A j \in 1..Len(bs) : [bs EXCEPT ![i] = y][j] = IF j = i THEN y ELSE bs[j]
      <3>1. PICK s \in Seq(S) : s = bs /\ i \in 1..Len(s)
        BY <1>2
      <3>2. [s EXCEPT ![i] = y] \in Seq(S)
        BY <3>1, ExceptSeq
      <3>3. Len([s EXCEPT ![i] = y]) = Len(s)
        BY <3>1, ExceptSeq
      <3>4. ASSUME NEW j \in 1..Len(s) PROVE [s EXCEPT ![i] = y][j] = IF j = i THEN y ELSE s[j]
        BY <3>1, LenProperties
      <3> QED
        BY <3>1, <3>2, <3>3, <3>4
    <2> QED
      BY <1>2, <2>1, <2>2
  <1>4. PICK u \in Seq(S) : u = Append(f, y) /\ Len(u) = n + 1 /\ u[n + 1] = y
                            /\ \A i \in 1..n : u[i] = f[i]
    <2>1. /\ Append(f, y) \in Seq(S) /\ Len(Append(f, y)) = n + 1 /\ Append(f, y)[n + 1] = y
          /\ \A i \in 1..n : Append(f, y)[i] = f[i]
      BY <1>1, AppendProperties
    <2> QED
      BY <2>1
  <1>5. \A j \in 1..Len(t) : t[j] = u[j]
    BY <1>2, <1>3, <1>4
  <1>6. t = u
    BY <1>3, <1>4, <1>5, SeqEqual
  <1> QED
    BY <1>0, <1>2, <1>3, <1>4, <1>6

LEMMA LastOfAppend ==
  ASSUME NEW S, NEW f \in Seq(S), NEW x \in S
  PROVE  Append(f, x) \in Seq(S) /\ Last(Append(f, x)) = x
  <1>1. Append(f, x) \in Seq(S) /\ Len(Append(f, x)) = Len(f) + 1 /\ Append(f, x)[Len(f) + 1] = x
    BY AppendProperties
  <1> QED
    BY <1>1 DEF Last

\* A sequence is one of its own elements, and remains one when it grows.
LEMMA OwnElements ==
  ASSUME NEW s, IsSequence(s), NEW e
  PROVE  Len(s) \in Nat /\ IsSequence(Append(s, e))
  <1> DEFINE S == {s[i] : i \in DOMAIN s} \cup {e}
             t == Append(s, e)
             T == {t[i] : i \in DOMAIN t}
  <1>0. s \in Seq({s[i] : i \in DOMAIN s})
    BY DEF IsSequence
  <1>1. PICK n \in Nat : n = Len(s) /\ DOMAIN s = 1..n
    BY <1>0, LenProperties
  <1>2. s \in Seq(S)
    <2>1. \A i \in 1..n : s[i] \in S
      BY <1>1
    <2>2. s \in [1..n -> {s[i] : i \in DOMAIN s}]
      BY <1>0, <1>1, LenProperties
    <2>3. s \in [1..n -> S]
      BY <2>1, <2>2
    <2> QED
      BY <2>3
  <1>3. t \in Seq(S) /\ Len(t) = n + 1
    <2>1. e \in S
      OBVIOUS
    <2> HIDE DEF S
    <2> QED
      BY <1>1, <1>2, <2>1, AppendProperties
  <1>4. t \in [1..(n + 1) -> S] /\ DOMAIN t = 1..(n + 1)
    <2> HIDE DEF S, t
    <2> QED
      BY <1>3, LenProperties
  <1>5. t \in [1..(n + 1) -> T]
    <2> HIDE DEF S, t
    <2> QED
      BY <1>4
  <1>6. t \in Seq(T)
    <2> HIDE DEF t, T
    <2> QED
      BY <1>5
  <1> QED
    BY <1>1, <1>6 DEF IsSequence

\* The objects a request starts with.
LEMMA NewTypes ==
  /\ NewResponse \in Response /\ Fresh(NewResponse)
  /\ Expecting \in ClientState
  <1>1. Unset \in HeaderValue /\ Unset.set = FALSE
    BY DEF Unset, HeaderValue
  <1>2. PICK h \in Headers : h = [n \in HeaderName |-> Unset]
    BY <1>1 DEF Headers
  <1>3. h["Content-Length"] = Unset /\ h["Transfer-Encoding"] = Unset
    BY <1>2 DEF HeaderName
  <1>4. PICK s \in Seq(WireItem) : s = <<>>
    BY EmptySeq
  <1>5. NewResponse \in Response
    BY <1>2, <1>4 DEF NewResponse, Response
  <1>6. Fresh(NewResponse)
    BY <1>1, <1>2, <1>3 DEF Fresh, NewResponse
  <1>7. <<>> \in Seq(Seq(WireItem))
    BY EmptySeq
  <1>8. Expecting \in ClientState
    BY <1>4, <1>7 DEF Expecting, ClientState, Mode
  <1> QED
    BY <1>5, <1>6, <1>8

\* The initial states.
LEMMA InitInd == ASSUME Init PROVE Steady
  <1>1. WireTyped
    <2>1. wire \in Seq(WireItem) /\ bodies \in Seq(Seq(WireItem))
      BY EmptySeq DEF Init
    <2>2. IsSequence(delivered)
      BY EmptySeq DEF Init, IsSequence
    <2> QED
      BY <2>1, <2>2, NewTypes DEF Init, WireTyped
  <1>2. InStep
    <2>1. Reading(Expecting, wire) = Expecting
      <3>1. PICK e \in WireItem : e = Item("crlf", 0)
        BY ItemTypes
      <3> QED
        BY NewTypes, ReadingLittle DEF Init
    <2>2. Waits(Expecting, bodies)
      BY DEF Waits, Expecting, Init
    <2> QED
      BY <2>1, <2>2 DEF InStep, Init
  <1> QED
    BY <1>1, <1>2 DEF Steady

\* What the client has got.
LEMMA Client ==
  ASSUME WireTyped
  PROVE  Reading(Expecting, wire) \in ClientState
  BY NewTypes, ReadingOn DEF WireTyped

\* Steps of the client, of the socket and of the parser.
LEMMA OtherSteps ==
  ASSUME Steady, UNCHANGED <<wire, bodies, refused, delivered, response, open, pc>>
  PROVE  Steady'
  BY DEF Steady, WireTyped, InStep, Answers

LEMMA ReadSteps ==
  ASSUME Steady, UNCHANGED <<wire, bodies, refused, delivered, response, open>>,
         \/ pc = "loop" /\ open /\ pc' = "read"
         \/ pc = "read" /\ pc' = "loop"
  PROVE  Steady'
  <1>1. WireTyped'
    BY DEF Steady, WireTyped
  <1>2. open /\ Waits(Reading(Expecting, wire), bodies) /\ ~refused
    BY DEF Steady, InStep
  <1>3. InStep'
    BY <1>2 DEF InStep
  <1> QED
    BY <1>1, <1>3 DEF Steady

\* The handler closes the connection: the client has what there is to have.
LEMMA CloseSteps ==
  ASSUME Steady, UNCHANGED <<wire, bodies, refused, delivered, response>>,
         pc \in {"loop", "flush"}, pc' = "loop", open' = FALSE
  PROVE  Steady'
  <1>1. WireTyped'
    BY DEF Steady, WireTyped
  <1>2. LET c == Reading(Expecting, wire) IN Waits(c, Answers) \/ WaitsForClose(c, Answers)
    <2>1. CASE pc = "loop" /\ open
      <3>1. Waits(Reading(Expecting, wire), bodies) /\ ~refused
        BY <2>1 DEF Steady, InStep
      <3>2. Answers = bodies
        BY <3>1, ConcatEmptySeq DEF Answers, Steady, WireTyped
      <3> QED
        BY <3>1, <3>2
    <2>2. CASE pc = "flush" \/ ~open
      BY <2>2 DEF Steady, InStep
    <2> QED
      BY <2>1, <2>2
  <1>3. InStep'
    BY <1>2 DEF InStep, Answers
  <1> QED
    BY <1>1, <1>3 DEF Steady

\* 413 to the request that is refused.
LEMMA RefuseStep == ASSUME Steady, Refuse PROVE Steady'
  <1> DEFINE c == Reading(Expecting, wire)
  <1>0. PICK d \in WireItem : d = Item("data", 0) /\ d.kind = "data"
    BY ItemTypes
  <1>1. PICK h \in WireItem : h = Head413 /\ h.kind = "head"
          /\ ~h.headers["Transfer-Encoding"].set /\ ~h.headers["Content-Length"].set
    <2>1. Unset \in HeaderValue /\ Unset.set = FALSE
      BY DEF Unset, HeaderValue
    <2>2. NoHeaders \in Headers /\ NoHeaders["Transfer-Encoding"] = Unset
          /\ NoHeaders["Content-Length"] = Unset
      BY <2>1 DEF NoHeaders, Headers, HeaderName
    <2>3. PICK hs \in Headers : /\ hs = [NoHeaders EXCEPT !["Connection"] = Text("close")]
                                /\ hs["Transfer-Encoding"] = Unset /\ hs["Content-Length"] = Unset
      <3>1. PICK v \in HeaderValue : v = Text("close")
        BY HeaderValues
      <3>2. [NoHeaders EXCEPT !["Connection"] = v] \in Headers
        BY <2>2 DEF Headers
      <3>3. /\ [NoHeaders EXCEPT !["Connection"] = v]["Transfer-Encoding"] = Unset
            /\ [NoHeaders EXCEPT !["Connection"] = v]["Content-Length"] = Unset
        BY <2>2 DEF Headers, HeaderName
      <3> QED
        BY <3>1, <3>2, <3>3
    <2>4. LET e == [kind |-> "head", num |-> 413, headers |-> hs]
          IN  e \in WireItem /\ e.kind = "head" /\ e.headers = hs
      BY HeadTypes
    <2> QED
      BY <2>1, <2>3, <2>4 DEF Head413
  <1>2. PICK t \in Seq(WireItem) :
          /\ t = <<h, d>>
          /\ \A x \in ClientState : Reading(x, t) = Receive(Receive(x, h), d)
    <2>1. <<h, d>> \in Seq(WireItem)
      OBVIOUS
    <2> QED
      BY <2>1, ReadingTwo
  <1>3. wire \in Seq(WireItem)
    BY DEF Steady, WireTyped
  <1>4. wire' \in Seq(WireItem)
    BY <1>0, <1>1, <1>2, <1>3, ConcatProperties DEF Refuse
  <1>5. WireTyped'
    BY <1>4 DEF Steady, WireTyped, Refuse
  <1>6. WaitsForClose(Reading(Expecting, wire)', Answers')
    <2>1. open /\ ~refused /\ Waits(c, bodies)
      BY DEF Steady, InStep, Refuse
    <2>2. c \in ClientState
      BY Client DEF Steady
    <2> HIDE DEF c
    <2>3. PICK c1 \in ClientState : c1 = Receive(c, h)
      BY <2>2, ReceiveTypes
    <2>4. c1.mode = "until close" /\ c1.body = <<>> /\ c1.bodies = bodies
      BY <1>1, <2>1, <2>2, <2>3, ReadBareHead DEF Waits
    <2>5. PICK c2 \in ClientState : c2 = Receive(c1, d)
      BY ReceiveTypes
    <2>6. c2.mode = "until close" /\ c2.body = Append(<<>>, d) /\ c2.bodies = bodies
      BY <1>0, <2>4, <2>5, ReadUntilClose
    <2>7. Reading(Expecting, wire)' = c2
      <3>1. wire' = wire \o t
        BY <1>0, <1>1, <1>2, <2>1 DEF Refuse
      <3>2. Reading(Expecting, wire \o t) = Reading(c, t)
        BY <1>3, NewTypes, ReadingOn DEF c
      <3> QED
        BY <1>2, <2>2, <2>3, <2>5, <3>1, <3>2
    <2>8. Answers' = Append(bodies, Append(<<>>, d))
      <3>1. Append(<<>>, d) = <<d>>
        OBVIOUS
      <3>2. <<d>> \in Seq(WireItem)
        OBVIOUS
      <3>3. Answers' = bodies \o <<<<d>>>>
        BY <1>0 DEF Answers, Refuse
      <3>4. PICK b \in Seq(WireItem) : b = <<d>>
        BY <3>2
      <3>5. Append(bodies, b) = bodies \o <<b>>
        BY AppendIsConcat DEF Steady, WireTyped
      <3> QED
        BY <3>1, <3>3, <3>4, <3>5
    <2> QED
      BY <2>6, <2>7, <2>8 DEF WaitsForClose
  <1>7. open
    BY DEF Steady, InStep, Refuse
  <1>8. InStep'
    <2>1. open' = open /\ pc' = "flush"
      BY DEF Refuse
    <2> QED
      BY <1>6, <1>7, <2>1 DEF InStep
  <1> QED
    BY <1>5, <1>8 DEF Steady

\* The request is given to service().
LEMMA DispatchStep == ASSUME Steady, Dispatch PROVE Steady'
  <1>1. PICK r \in Response : r = response' /\ Fresh(r)
    <2>1. CASE ~MustClose(request)
      BY <2>1, NewTypes DEF Dispatch
    <2>2. CASE MustClose(request)
      <3>1. PICK v \in HeaderValue : v = Text("close")
        BY HeaderValues
      <3>2. PICK n \in HeaderName : n = "Connection"
        BY DEF HeaderName
      <3>3. PICK q \in Response :
              /\ q = SetHeader(NewResponse, n, v)
              /\ q.headers = [NewResponse.headers EXCEPT ![n] = v]
              /\ q.sentHeaders = NewResponse.sentHeaders
              /\ q.sentLastPart = NewResponse.sentLastPart
              /\ q.chunkedMode = NewResponse.chunkedMode /\ q.sent = NewResponse.sent
        BY NewTypes, SetHeaderIs
      <3>4. NewResponse.headers \in Headers
        BY NewTypes DEF Response
      <3>5. /\ q.headers["Content-Length"] = NewResponse.headers["Content-Length"]
            /\ q.headers["Transfer-Encoding"] = NewResponse.headers["Transfer-Encoding"]
        BY <3>2, <3>3, <3>4 DEF Headers, HeaderName
      <3>6. Fresh(q)
        BY <3>3, <3>5, NewTypes DEF Fresh
      <3> QED
        BY <2>2, <3>1, <3>2, <3>3, <3>6 DEF Dispatch
    <2> QED
      BY <2>1, <2>2
  <1>2. PICK b \in Seq(WireItem) : b = <<>>
    BY EmptySeq
  <1>3. bodies' = Append(bodies, b) /\ bodies' \in Seq(Seq(WireItem)) /\ Last(bodies') = b
    <2>1. bodies \in Seq(Seq(WireItem)) /\ bodies' = Append(bodies, b)
      BY <1>2 DEF Steady, WireTyped, Dispatch
    <2> QED
      BY <2>1, LastOfAppend
  <1>4. IsSequence(delivered')
    BY OwnElements DEF Steady, WireTyped, Dispatch
  <1>5. WireTyped'
    BY <1>1, <1>3, <1>4 DEF Steady, WireTyped, Dispatch
  <1>6. LET c == Reading(Expecting, wire)
        IN  /\ open /\ ~refused /\ Waits(c, c.bodies)
            /\ bodies' = Append(c.bodies, Last(bodies'))
            /\ Framed(response', c, Last(bodies'))
    <2>1. open /\ ~refused /\ Waits(Reading(Expecting, wire), bodies)
      BY DEF Steady, InStep, Dispatch
    <2>2. Framed(response', Reading(Expecting, wire), b)
      BY <1>1, <1>2 DEF Framed
    <2> QED
      BY <1>3, <2>1, <2>2 DEF Waits
  <1>7. InStep'
    <2>1. open' = open /\ pc' = "service" /\ refused' = refused /\ wire' = wire
      BY DEF Dispatch
    <2> QED
      BY <1>6, <2>1 DEF InStep
  <1> QED
    BY <1>5, <1>7 DEF Steady

\* service() sets a header that says nothing of the length.
LEMMA SetsHeaderStep == ASSUME LengthLeftAlone, Steady, ServiceSetsHeader PROVE Steady'
  <1>1. PICK s \in Settings : response' = SetHeader(response, s[1], s[2])
    BY DEF ServiceSetsHeader
  <1>2. PICK n \in HeaderName, v \in HeaderValue :
          n = s[1] /\ v = s[2] /\ n \in {"Connection", "connection"}
    BY <1>1 DEF LengthLeftAlone, HeaderName
  <1>3. PICK r \in Response : r = response
    BY DEF Steady, WireTyped
  <1>4. PICK q \in Response :
          /\ q = response' /\ q.headers = [r.headers EXCEPT ![n] = v]
          /\ q.sentHeaders = r.sentHeaders /\ q.sentLastPart = r.sentLastPart
          /\ q.chunkedMode = r.chunkedMode /\ q.sent = r.sent
    BY <1>1, <1>2, <1>3, SetHeaderIs
  <1>5. /\ q.headers["Content-Length"] = r.headers["Content-Length"]
        /\ q.headers["Transfer-Encoding"] = r.headers["Transfer-Encoding"]
    <2>1. r.headers \in Headers
      BY DEF Response
    <2> QED
      BY <1>2, <1>4, <2>1 DEF Headers, HeaderName
  <1>6. ASSUME NEW c, NEW b, Framed(r, c, b) PROVE Framed(q, c, b)
    BY <1>4, <1>5, <1>6 DEF Framed, Fresh, InChunks, TillClose, Answered, Getting
  <1>7. WireTyped'
    BY <1>4 DEF Steady, WireTyped, ServiceSetsHeader, history
  <1>8. InStep'
    <2>1. /\ open' = open /\ pc' = "service" /\ pc = "service"
          /\ refused' = refused /\ wire' = wire /\ bodies' = bodies
      BY DEF ServiceSetsHeader, history
    <2>2. LET c == Reading(Expecting, wire)
          IN  /\ open /\ ~refused /\ Waits(c, c.bodies)
              /\ bodies = Append(c.bodies, Last(bodies))
              /\ Framed(response, c, Last(bodies))
      BY <2>1 DEF Steady, InStep
    <2> QED
      BY <1>3, <1>4, <1>6, <2>1, <2>2 DEF InStep
  <1> QED
    BY <1>7, <1>8 DEF Steady

\* service() writes a part of the body.
LEMMA WritesStep == ASSUME Steady, ServiceWrites PROVE Steady'
  <1>1. PICK n \in 0..1, last \in BOOLEAN :
          LET data == [i \in 1..n |-> Item("data", Len(delivered))]
          IN  /\ response' = Write(response, data, last)
              /\ bodies' = [bodies EXCEPT ![Len(bodies)] = @ \o data]
    BY DEF ServiceWrites
  <1>2. PICK x \in WireItem : x = Item("data", Len(delivered)) /\ x.kind = "data"
    <2>1. Len(delivered) \in Nat
      BY OwnElements DEF Steady, WireTyped
    <2> QED
      BY <2>1, ItemTypes
  <1>3. PICK data \in Bytes : data = [i \in 1..n |-> Item("data", Len(delivered))]
    <2>1. CASE n = 0
      <3>1. [i \in 1..n |-> Item("data", Len(delivered))] = <<>>
        BY <2>1
      <3> QED
        BY <3>1 DEF Bytes
    <2>2. CASE n = 1
      <3>1. [i \in 1..n |-> Item("data", Len(delivered))] = <<x>>
        BY <1>2, <2>2
      <3> QED
        BY <1>2, <3>1 DEF Bytes
    <2> QED
      BY <2>1, <2>2
  <1>4. /\ response' = Write(response, data, last)
        /\ bodies' = [bodies EXCEPT ![Len(bodies)] = bodies[Len(bodies)] \o data]
    BY <1>1, <1>3
  <1>5. /\ open' = open /\ pc' = "service" /\ pc = "service" /\ refused' = refused
        /\ wire' = wire /\ delivered' = delivered /\ ~response.sentLastPart
    BY DEF ServiceWrites
  <1>6. PICK c \in ClientState : c = Reading(Expecting, wire)
    BY Client DEF Steady
  <1>7. /\ open /\ ~refused /\ Waits(c, c.bodies) /\ bodies = Append(c.bodies, Last(bodies))
        /\ Framed(response, c, Last(bodies))
    BY <1>5, <1>6 DEF Steady, InStep
  <1>8. PICK f \in Seq(Seq(WireItem)), b \in Seq(WireItem), r \in Response :
          f = c.bodies /\ b = Last(bodies) /\ r = response
    <2>1. Last(bodies) \in Seq(WireItem)
      <3>1. Len(bodies) \in 1..Len(bodies)
        <4>1. PICK n1 \in Nat : n1 = Len(bodies)
          BY LenProperties DEF Steady, WireTyped
        <4>2. bodies # <<>>
          BY <1>7
        <4> QED
          BY <4>1, <4>2, EmptySeq DEF Steady, WireTyped
      <3> QED
        BY <3>1, ElementOfSeq DEF Last, Steady, WireTyped
    <2> QED
      BY <2>1 DEF ClientState, Steady, WireTyped
  <1>9. PICK b2 \in Seq(WireItem) : b2 = b \o data
    BY BytesAdd
  <1>10. bodies' = Append(f, b2) /\ bodies' \in Seq(Seq(WireItem)) /\ Last(bodies') = b2
    <2>1. bodies = Append(f, b) /\ bodies' = [bodies EXCEPT ![Len(bodies)] = b2]
      BY <1>4, <1>7, <1>8, <1>9 DEF Last
    <2>2. bodies' = Append(f, b2)
      BY <2>1, ChangeLast
    <2> QED
      BY <2>2, LastOfAppend
  <1>11. response' \in Response /\ Framed(response', c, b2)
    <2>1. c.mode = "head" /\ c.body = <<>> /\ ~r.sentLastPart /\ Framed(r, c, b)
      BY <1>5, <1>7, <1>8 DEF Waits
    <2>2. Write(r, data, last) \in Response /\ Framed(Write(r, data, last), c, b \o data)
      BY <2>1, WriteFrames
    <2> QED
      BY <1>4, <1>8, <1>9, <2>2
  <1>12. WireTyped'
    BY <1>5, <1>10, <1>11 DEF Steady, WireTyped
  <1>13. InStep'
    BY <1>5, <1>6, <1>7, <1>8, <1>10, <1>11 DEF InStep
  <1> QED
    BY <1>12, <1>13 DEF Steady

\* service() has returned: the response is complete, or its end is that of the
\* connection.
LEMMA ReturnsStep == ASSUME Steady, ServiceReturns PROVE Steady'
  <1>1. PICK c \in ClientState : c = Reading(Expecting, wire)
    BY Client DEF Steady
  <1>2. /\ open /\ ~refused /\ Waits(c, c.bodies) /\ bodies = Append(c.bodies, Last(bodies))
        /\ Framed(response, c, Last(bodies))
    BY <1>1 DEF Steady, InStep, ServiceReturns
  <1>3. PICK b \in Seq(WireItem), r \in Response : b = Last(bodies) /\ r = response
    <2>1. Len(bodies) \in 1..Len(bodies)
      <3>1. PICK n1 \in Nat : n1 = Len(bodies)
        BY LenProperties DEF Steady, WireTyped
      <3>2. bodies # <<>>
        BY <1>2
      <3> QED
        BY <3>1, <3>2, EmptySeq DEF Steady, WireTyped
    <2> QED
      BY <2>1, ElementOfSeq DEF Last, Steady, WireTyped
  <1>4. PICK s \in Seq(WireItem) :
          /\ s = Finalized(response).sent
          /\ \/ Waits(Reading(c, s), bodies)
             \/ CloseAfter(Finalized(response)) /\ WaitsForClose(Reading(c, s), bodies)
    <2>1. c.mode = "head" /\ c.body = <<>> /\ Framed(r, c, b)
      BY <1>2, <1>3 DEF Waits
    <2>2. Finalized(r).sent \in Seq(WireItem)
      BY <2>1, FinalFrames
    <2>3. LET e == Reading(c, Finalized(r).sent)
          IN  \/ Waits(e, Append(c.bodies, b))
              \/ /\ CloseAfter(Finalized(r))
                 /\ e.mode = "until close" /\ e.body = b /\ e.bodies = c.bodies
      BY <2>1, FinalFrames
    <2> QED
      BY <1>2, <1>3, <2>2, <2>3 DEF WaitsForClose
  <1>5. wire' = wire \o s /\ wire' \in Seq(WireItem) /\ Reading(Expecting, wire') = Reading(c, s)
    <2>1. wire \in Seq(WireItem) /\ wire' = wire \o s
      BY <1>2, <1>4 DEF Steady, WireTyped, ServiceReturns
    <2>2. wire \o s \in Seq(WireItem)
      BY <2>1, ConcatProperties
    <2>3. Reading(Expecting, wire \o s) = Reading(Reading(Expecting, wire), s)
      BY <2>1, NewTypes, ReadingOn
    <2> QED
      BY <1>1, <2>1, <2>2, <2>3
  <1>6. /\ response' = NewResponse /\ open' = open /\ bodies' = bodies /\ refused' = refused
        /\ delivered' = delivered
        /\ pc' = "flush" \/ (pc' = "read" /\ ~CloseAfter(Finalized(response)))
    BY DEF ServiceReturns, NextRequest
  <1>7. WireTyped'
    BY <1>5, <1>6, NewTypes DEF Steady, WireTyped
  <1>8. Answers' = bodies
    BY <1>2, <1>6, ConcatEmptySeq DEF Answers, Steady, WireTyped
  <1>9. InStep'
    BY <1>2, <1>4, <1>5, <1>6, <1>8 DEF InStep
  <1> QED
    BY <1>7, <1>9 DEF Steady

\* Any step, unless the client has gone.
LEMMA NextInd ==
  ASSUME LengthLeftAlone, IndInv, [Next]_vars
  PROVE  IndInv'
  <1>1. CASE gone'
    BY <1>1 DEF IndInv
  <1>2. CASE ~gone'
    <2>1. gone' = gone \/ gone' = TRUE
      BY DEF Next, vars, clientVars, Send, HangUp, PeerGone, ReadyRead, FetchWhileWriting,
             CallReadFromSocket, ReadReturns, Refuse, Dispatch, ServiceSetsHeader, ServiceWrites,
             ServiceReturns, Flushed, ReadTimeout, ReadTimeoutFlushed
    <2>2. Steady /\ ~gone
      BY <1>2, <2>1 DEF IndInv
    <2> SUFFICES Steady'
      BY DEF IndInv
    <2>3. CASE UNCHANGED vars
      BY <2>2, <2>3, OtherSteps DEF vars, clientVars, history
    <2>4. CASE Send \/ CallReadFromSocket \/ FetchWhileWriting \/ ReadTimeout
      BY <2>2, <2>4, OtherSteps
         DEF Send, CallReadFromSocket, FetchWhileWriting, ReadTimeout, clientVars, history
    <2>5. CASE ReadyRead \/ ReadReturns
      BY <2>2, <2>5, ReadSteps DEF ReadyRead, ReadReturns, clientVars, history, Steady, InStep
    <2>6. CASE HangUp \/ PeerGone
      BY <1>2, <2>2, <2>6 DEF HangUp, PeerGone
    <2>7. CASE Flushed
      BY <2>2, <2>7, CloseSteps DEF Flushed, Disconnected, DeleteRequest
    <2>8. CASE ReadTimeoutFlushed
      <3>1. CASE open
        BY <2>2, <2>8, <3>1, CloseSteps DEF ReadTimeoutFlushed, Disconnected, DeleteRequest
      <3>2. CASE ~open
        BY <2>2, <2>8, <3>2, OtherSteps DEF ReadTimeoutFlushed, Disconnected, DeleteRequest
      <3> QED
        BY <3>1, <3>2
    <2> QED
      BY <2>2, <2>3, <2>4, <2>5, <2>6, <2>7, <2>8, RefuseStep, DispatchStep, SetsHeaderStep,
         WritesStep, ReturnsStep DEF Next
  <1> QED
    BY <1>1, <1>2

\* A sequence is a prefix of itself, and of itself with one element more.
LEMMA OwnPrefix ==
  ASSUME NEW S, NEW s \in Seq(S), NEW e \in S
  PROVE  IsPrefix(s, s) /\ IsPrefix(s, Append(s, e))
  <1>1. PICK n \in Nat : n = Len(s)
    BY LenProperties
  <1>2. PICK t \in Seq(S) : t = Append(s, e) /\ Len(t) = n + 1 /\ \A i \in 1..n : t[i] = s[i]
    <2>1. /\ Append(s, e) \in Seq(S) /\ Len(Append(s, e)) = n + 1
          /\ \A i \in 1..n : Append(s, e)[i] = s[i]
      BY <1>1, AppendProperties
    <2> QED
      BY <2>1
  <1>3. SubSeq(s, 1, n) = [i \in 1..n |-> s[i]] /\ SubSeq(t, 1, n) = [i \in 1..n |-> t[i]]
    OBVIOUS
  <1>4. SubSeq(s, 1, n) = SubSeq(t, 1, n)
    BY <1>2, <1>3
  <1> QED
    BY <1>1, <1>2, <1>4 DEF IsPrefix

\* In step, the client has what ResponsesFramed says.
LEMMA SteadyIsFramed == ASSUME Steady, ~gone PROVE ResponsesFramed
  <1>1. PICK c \in ClientState : c = Reading(Expecting, wire)
    BY Client DEF Steady
  <1>2. PICK view : view = ClientView(wire, ~open)
    OBVIOUS
  <1>3. bodies \in Seq(Seq(WireItem)) /\ open \in BOOLEAN /\ refused \in BOOLEAN
        /\ pc \in {"loop", "read", "service", "flush"}
    BY DEF Steady, WireTyped
  <1>4. ~refused => Answers = bodies
    BY <1>3, ConcatEmptySeq DEF Answers
  <1>5. CASE pc = "read" \/ (pc = "loop" /\ open)
    <2>1. Waits(c, bodies) /\ ~refused
      BY <1>1, <1>5 DEF Steady, InStep
    <2>2. view = c
      BY <1>1, <1>2, <2>1 DEF ClientView, Waits
    <2>3. view.mode = "head" /\ view.bodies = Answers
      BY <1>4, <2>1, <2>2 DEF Waits
    <2>4. IsPrefix(view.bodies, Answers)
      <3>1. Answers \in Seq(Seq(WireItem)) /\ <<>> \in Seq(WireItem)
        BY <1>3, <1>4, <2>1, EmptySeq
      <3> QED
        BY <2>3, <3>1, OwnPrefix
    <2> QED
      BY <1>2, <2>3, <2>4 DEF ResponsesFramed
  <1>6. CASE pc = "service"
    <2>1. open /\ Waits(c, c.bodies) /\ bodies = Append(c.bodies, Last(bodies)) /\ ~refused
      BY <1>1, <1>6 DEF Steady, InStep
    <2>2. view = c /\ view.mode = "head"
      BY <1>1, <1>2, <2>1 DEF ClientView, Waits
    <2>3. Last(bodies) \in Seq(WireItem)
      <3>1. PICK n \in Nat : n = Len(bodies)
        BY <1>3, LenProperties
      <3>2. bodies # <<>>
        BY <2>1
      <3>3. n \in 1..Len(bodies)
        BY <1>3, <3>1, <3>2, EmptySeq
      <3> QED
        BY <1>3, <3>1, <3>3, ElementOfSeq DEF Last
    <2>4. IsPrefix(c.bodies, Append(c.bodies, Last(bodies)))
      BY <2>3, OwnPrefix DEF ClientState
    <2>5. IsPrefix(view.bodies, Answers)
      BY <1>4, <2>1, <2>2, <2>4
    <2> QED
      BY <1>2, <1>6, <2>2, <2>5 DEF ResponsesFramed
  <1>7. CASE pc = "flush" \/ (pc = "loop" /\ ~open)
    <2>1. Waits(c, Answers) \/ WaitsForClose(c, Answers)
      BY <1>1, <1>7 DEF Steady, InStep
    <2>2. c.bodies \in Seq(Seq(WireItem)) /\ c.body \in Seq(WireItem)
      BY DEF ClientState
    <2>3. CASE Waits(c, Answers)
      <3>1. view = c /\ view.mode = "head" /\ view.bodies = Answers
        BY <1>1, <1>2, <2>3 DEF ClientView, Waits
      <3>2. IsPrefix(c.bodies, c.bodies)
        BY <2>2, OwnPrefix
      <3> QED
        BY <1>2, <3>1, <3>2 DEF ResponsesFramed
    <2>4. CASE WaitsForClose(c, Answers)
      <3>1. c.mode = "until close" /\ Append(c.bodies, c.body) = Answers
        BY <2>4 DEF WaitsForClose
      <3>2. IsPrefix(c.bodies, Answers) /\ IsPrefix(Answers, Answers)
        <4>1. Append(c.bodies, c.body) \in Seq(Seq(WireItem))
          BY <2>2, LastOfAppend
        <4> QED
          BY <2>2, <3>1, <4>1, OwnPrefix
      <3>3. CASE open
        <4>1. view = c /\ pc = "flush"
          BY <1>1, <1>2, <1>7, <3>3 DEF ClientView
        <4> QED
          BY <1>2, <3>1, <3>2, <4>1 DEF ResponsesFramed
      <3>4. CASE ~open
        <4>1. view = Got(c)
          BY <1>1, <1>2, <3>1, <3>4 DEF ClientView
        <4>2. view.mode = "head" /\ view.bodies = Answers
          BY <3>1, <4>1, GotIt
        <4> QED
          BY <1>2, <3>2, <4>2 DEF ResponsesFramed
      <3> QED
        BY <3>3, <3>4
    <2> QED
      BY <2>1, <2>3, <2>4
  <1> QED
    BY <1>3, <1>5, <1>6, <1>7

-----------------------------------------------------------------------------
\* What the handler's thread does stays in step with what a client that is still
\* there has read, in every state.
THEOREM Invariance == ASSUME LengthLeftAlone PROVE Spec => []IndInv
  <1>1. Init => IndInv
    BY InitInd DEF IndInv
  <1>2. IndInv /\ [Next]_vars => IndInv'
    BY NextInd
  <1> QED
    BY <1>1, <1>2, PTL DEF Spec

\* ResponsesFramed: however many requests come, in whatever pieces, and in however
\* many parts service() writes its answers, a client that reads them by their
\* headers gets exactly what service() wrote, and is not left waiting for an end
\* on a connection that stays open (HttpResponse::write, HttpConnectionHandler::read).
THEOREM Framing == ASSUME LengthLeftAlone PROVE Spec => []ResponsesFramed
  <1>1. IndInv => ResponsesFramed
    <2>1. gone => ResponsesFramed
      BY DEF ResponsesFramed
    <2> QED
      BY <2>1, SteadyIsFramed DEF IndInv
  <1> QED
    BY <1>1, Invariance, PTL
=============================================================================
