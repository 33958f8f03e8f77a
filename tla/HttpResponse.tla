---------------------------- MODULE HttpResponse ----------------------------
(***************************************************************************)
(* HttpResponse: the answer to one request (httpresponse.cpp).  The object *)
(* is a record; sent is what it has written to the socket.  Of the headers *)
(* only those are kept that say where a response ends; a header that is    *)
(* not set has the value {}.  What is written is a sequence of records: a  *)
(* head with its headers, the size line of a chunk, bytes of the body, the *)
(* CRLF behind a chunk, the terminating marker.                            *)
(***************************************************************************)
EXTENDS Integers, Sequences, SequencesExt

\* The headers a request handler can set; the map is case sensitive.
HeaderName == {"Connection", "connection", "Content-Length", "Transfer-Encoding"}

Unset == [set |-> FALSE, value |-> "", num |-> 0]
Text(value) == [set |-> TRUE, value |-> value, num |-> 0]
Number(n) == [set |-> TRUE, value |-> "", num |-> n]

NewResponse ==
    [headers |-> [h \in HeaderName |-> Unset], sentHeaders |-> FALSE,
     sentLastPart |-> FALSE, chunkedMode |-> FALSE, sent |-> <<>>]

SetHeader(r, name, value) == [r EXCEPT !.headers[name] = value]

NoHeaders == [h \in HeaderName |-> Unset]
Item(kind, num) == [kind |-> kind, num |-> num, headers |-> NoHeaders]
Head413 == [kind |-> "head", num |-> 413, headers |-> [NoHeaders EXCEPT !["Connection"] = Text("close")]]

\* headers.value("Connection", headers.value("connection"))
ConnectionClose(r) ==
    LET h == IF r.headers["Connection"].set THEN r.headers["Connection"] ELSE r.headers["connection"]
    IN  h = Text("close")

WriteHeaders(r) ==
    [r EXCEPT !.sent = Append(@, [kind |-> "head", num |-> 200, headers |-> r.headers]),
              !.sentHeaders = TRUE]

\* The first call of write() fixes how the client will know the length.
ChooseLength(r, data, lastPart) ==
    IF lastPart THEN SetHeader(r, "Content-Length", Number(Len(data)))
    ELSE IF ConnectionClose(r) THEN r
    ELSE [SetHeader(r, "Transfer-Encoding", Text("chunked")) EXCEPT !.chunkedMode = TRUE]

\* An empty chunk would be read as the terminating marker.
BugEmptyChunk(data) == TRUE
SendsChunk(data) == data # <<>>

BodyPart(r, data) ==
    IF r.chunkedMode
    THEN IF SendsChunk(data)
         THEN <<Item("size", Len(data))>> \o data \o <<Item("crlf", 0)>>
         ELSE <<>>
    ELSE data

Marker(r) == IF r.chunkedMode THEN <<Item("size", 0), Item("crlf", 0)>> ELSE <<>>

Write(r, data, lastPart) ==
    LET first == IF r.sentHeaders THEN r ELSE WriteHeaders(ChooseLength(r, data, lastPart))
        marker == IF lastPart THEN Marker(first) ELSE <<>>
    IN  [first EXCEPT !.sent = @ \o BodyPart(first, data) \o marker,
                      !.sentLastPart = lastPart]

-----------------------------------------------------------------------------
(***************************************************************************)
(* A client that reads responses as HTTP/1.1 defines their length: chunks, *)
(* else Content-Length, else all until the connection is closed.  bodies   *)
(* are the responses it has got completely, left the bytes the current     *)
(* length or chunk still has.                                              *)
(***************************************************************************)
Expecting == [mode |-> "head", left |-> 0, body |-> <<>>, bodies |-> <<>>]

Got(c) == [c EXCEPT !.mode = "head", !.body = <<>>, !.bodies = Append(@, c.body)]

ReadHead(c, h) ==
    CASE h["Transfer-Encoding"].set -> [c EXCEPT !.mode = "size"]
      [] ~h["Transfer-Encoding"].set /\ h["Content-Length"].set ->
           IF h["Content-Length"].num = 0 THEN Got(c)
           ELSE [c EXCEPT !.mode = "length", !.left = h["Content-Length"].num]
      [] OTHER -> [c EXCEPT !.mode = "until close"]

ReadData(c, item) ==
    LET next == [c EXCEPT !.body = Append(@, item), !.left = @ - 1]
    IN  CASE c.mode = "until close" -> [next EXCEPT !.left = 0]
          [] c.mode = "length" -> IF next.left = 0 THEN Got(next) ELSE next
          [] c.mode = "chunk" -> IF next.left = 0 THEN [next EXCEPT !.mode = "crlf"] ELSE next
          [] OTHER -> [c EXCEPT !.mode = "confused"]

Receive(c, item) ==
    CASE item.kind = "head" /\ c.mode = "head" -> ReadHead(c, item.headers)
      [] item.kind = "data" -> ReadData(c, item)
      [] item.kind = "size" /\ c.mode = "size" ->
           IF item.num = 0 THEN [c EXCEPT !.mode = "end"]
           ELSE [c EXCEPT !.mode = "chunk", !.left = item.num]
      [] item.kind = "crlf" /\ c.mode = "crlf" -> [c EXCEPT !.mode = "size"]
      [] item.kind = "crlf" /\ c.mode = "end" -> Got(c)
      [] OTHER -> [c EXCEPT !.mode = "confused"]

\* What a client has after each of the items it receives.
Received(c, items) ==
    LET after[n \in 0..Len(items)] == IF n = 0 THEN c ELSE Receive(after[n - 1], items[n])
    IN  after
Reading(c, items) == Received(c, items)[Len(items)]

\* What the client makes of all it has received, and of the end of the stream.
ClientView(wire, closed) ==
    LET c == Reading(Expecting, wire)
    IN  IF closed /\ c.mode = "until close" THEN Got(c) ELSE c
=============================================================================
