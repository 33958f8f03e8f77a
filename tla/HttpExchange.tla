---------------------------- MODULE HttpExchange ----------------------------
(***************************************************************************)
(* One connection: what its client sends, how HttpConnectionHandler::read()*)
(* makes requests of it with HttpRequest, calls service() for each, and    *)
(* how HttpResponse answers (httpconnectionhandler.cpp:127-274).  It is    *)
(* ConnectionHandler with the bytes: a piece of a request is there a step  *)
(* whose outcome is free, here the outcome is computed.                    *)
(*                                                                         *)
(* The client writes a script of requests, cut into segments at any place, *)
(* without waiting for answers.  service() is any handler that keeps the   *)
(* rules of HttpResponse: no header after the first write(), no write()    *)
(* after the last part; it may stop at any point (return or throw).        *)
(***************************************************************************)
EXTENDS HttpRequest, HttpResponse, FiniteSets

CONSTANTS
    Scripts,    \* the sequences of requests a client may send
    Settings,   \* the <<header, value>> pairs service() may set
    MaxParts    \* bound: the calls of write() in one service()

ASSUME MaxPartsAssumption == MaxParts \in Nat
ASSUME SettingsAssumption == \A s \in Settings : s[1] \in HeaderName

VARIABLES
    script,         \* the requests of this client
    coming,         \* bytes it has not sent yet
    arrived,        \* bytes the socket has not fetched from the kernel
    buffer,         \* bytes in the socket's buffer: bytesAvailable()
    open,           \* is the socket connected?
    gone,           \* has the client closed the connection?
    pc,             \* where the handler's thread is
    timer,          \* is the read timer running?
    expired,        \* is readTimeout() on the stack?
    request,        \* currentRequest, or NoRequest
    closing,        \* closeConnection
    response,       \* the HttpResponse of the request in service
    parts,          \* the calls of write() it has seen
    wire,           \* what earlier responses wrote
    \* history
    delivered,      \* the requests given to service()
    bodies,         \* what service() wrote for each of them
    refused,        \* was a request answered with 413?
    orphans         \* <<i, n>>: n temporary files of request i nobody will delete

clientVars == <<script, coming, gone>>
history == <<delivered, bodies, refused, orphans>>
vars == <<clientVars, arrived, buffer, open, pc, timer, expired, request, closing,
          response, parts, wire, history>>

NoRequest == [NewRequest EXCEPT !.status = "none"]

(***************************************************************************)
(* What a client writes: empty lines, a line, headers, an empty line and   *)
(* the body.                                                               *)
(***************************************************************************)
CRLF == <<CR, LF>>
LineCount(q) == q.blanks + Len(q.headers) + 2
HeadLine(q, i) ==
    CASE i = q.blanks + 1 -> <<q.line>>
      [] i \in q.blanks + 2..LineCount(q) - 1 -> <<q.headers[i - q.blanks - 1]>>
      [] OTHER -> <<>>

\* The lines of a multipart body from each of its sections on: a field with its
\* value, or a file, whose name is not empty.
SectionLines(s) ==
    <<Byte("delimiter", NoName, {}, 0), Byte("disposition", s.field, {s.file} \ {NoName}, 0),
      Byte("blank", NoName, {}, 0)>> \o s.value
FormFrom(sections) ==
    LET from[i \in 1..Len(sections) + 1] ==
          IF i > Len(sections) THEN <<Byte("end", NoName, {}, 0)>>
          ELSE SectionLines(sections[i]) \o from[i + 1]
    IN  from

\* A request from each of its lines on, and all requests from each of them on.
EncodeFrom(q) ==
    LET from[i \in 1..LineCount(q) + 1] ==
          IF i > LineCount(q) THEN q.body ELSE (HeadLine(q, i) \o CRLF) \o from[i + 1]
    IN  from
Encode(q) == EncodeFrom(q)[1]
StreamFrom(qs) ==
    LET from[j \in 1..Len(qs) + 1] ==
          IF j > Len(qs) THEN <<>> ELSE Encode(qs[j]) \o from[j + 1]
    IN  from

(***************************************************************************)
(* What may be expected of a client: the first line of a request may be    *)
(* broken, but its headers say what the body is, and a file in an upload   *)
(* has a line at least.  A field may have several files.                   *)
(***************************************************************************)
Kind == {"cr", "lf", "line", "header", "text", "data", "delimiter", "disposition", "blank", "end"}
Name == STRING \cup {NoName}
ByteSet == [kind : Kind, name : Name, words : SUBSET Name, num : Nat]
Section == [field : Name \ {NoName}, file : Name, value : Seq(ByteSet)]
Request == [blanks : Nat, line : ByteSet, headers : Seq(ByteSet), body : Seq(ByteSet),
            sections : Seq(Section)]

\* The words of a header, with those of the lines that continue it.
ContinuedBy(q, i, j) == i <= j /\ \A k \in i + 1..j : q.headers[k].kind = "text"
HeaderWords(q, i) ==
    UNION {q.headers[j].words : j \in {k \in DOMAIN q.headers : ContinuedBy(q, i, k)}}
Named(q, name) == {i \in DOMAIN q.headers : q.headers[i].name = name}

Uploads(sections) == {i \in DOMAIN sections : sections[i].file # NoName}
WellFormedForm(sections) ==
    /\ \A i \in DOMAIN sections : \A j \in DOMAIN sections[i].value :
         sections[i].value[j].kind \notin {"delimiter", "end"}
    /\ \A i \in Uploads(sections) : sections[i].value # <<>>

WellFormed(q) ==
    /\ q.line.kind = "line"
    /\ \A i \in DOMAIN q.headers :
         q.headers[i].kind = IF q.headers[i].name = NoName THEN "text" ELSE "header"
    /\ q.body # <<>> => Named(q, "content-length") # {}
    /\ \A i \in Named(q, "content-length") :
         HeaderWords(q, i) = {} /\ q.headers[i].num = Len(q.body)
    /\ q.sections # <<>> => /\ Named(q, "content-type") # {}
                            /\ WellFormedForm(q.sections)
                            /\ q.body = FormFrom(q.sections)[1]
    /\ \A i \in Named(q, "content-type") :
         {"multipart/form-data", "boundary="} \subseteq HeaderWords(q, i) <=> q.sections # <<>>

ASSUME ScriptsAssumption ==
    \A qs \in Scripts : qs \in Seq(Request) /\ \A j \in DOMAIN qs : WellFormed(qs[j])

Init ==
    /\ script \in Scripts
    /\ coming = StreamFrom(script)[1] /\ arrived = <<>> /\ buffer = <<>>
    /\ open = TRUE /\ gone = FALSE
    /\ pc = "loop" /\ timer = TRUE /\ expired = FALSE
    /\ request = NoRequest /\ closing = FALSE /\ response = NewResponse /\ parts = 0
    /\ wire = <<>>
    /\ delivered = <<>> /\ bodies = <<>> /\ refused = FALSE /\ orphans = {}

-----------------------------------------------------------------------------
(* The client. *)

Send ==
    /\ open /\ ~gone
    /\ \E n \in 1..Len(coming) :
         /\ arrived' = arrived \o SubSeq(coming, 1, n)
         /\ coming' = SubSeq(coming, n + 1, Len(coming))
    /\ UNCHANGED <<script, gone, buffer, open, pc, timer, expired, request, closing,
                   response, parts, wire, history>>

HangUp ==
    /\ open /\ ~gone /\ gone' = TRUE
    /\ UNCHANGED <<script, coming, arrived, buffer, open, pc, timer, expired, request,
                   closing, response, parts, wire, history>>

-----------------------------------------------------------------------------
(* The handler's thread. *)

\* disconnected(): the socket and its buffers are closed.
Disconnected == open' = FALSE /\ buffer' = <<>> /\ arrived' = <<>> /\ timer' = FALSE

\* ~HttpRequest deletes the files of the map, and no others it has opened.
FilesLeft(r) == r.form.opened - Cardinality(DOMAIN r.form.files)
BugKeepRequest == UNCHANGED <<request, orphans>>
DeleteRequest ==
    /\ request' = NoRequest
    /\ orphans' = IF FilesLeft(request) = 0 THEN orphans
                  ELSE orphans \cup {<<Len(delivered) + (IF refused THEN 1 ELSE 0),
                                      FilesLeft(request)>>}

PeerGone ==
    /\ open /\ gone /\ Disconnected
    /\ UNCHANGED <<clientVars, pc, expired, request, closing, response, parts, wire, history>>

\* readyRead(): in the event loop, or in the wait of readTimeout().
ReadyRead ==
    /\ pc = "loop" /\ open /\ arrived # <<>>
    /\ buffer' = buffer \o arrived /\ arrived' = <<>>
    /\ pc' = "read"
    /\ UNCHANGED <<clientVars, open, timer, expired, request, closing, response, parts,
                   wire, history>>

\* A wait for the output fetches bytes too, without a signal.
FetchWhileWriting ==
    /\ pc \in {"service", "flush"} /\ open /\ arrived # <<>>
    /\ buffer' = buffer \o arrived /\ arrived' = <<>>
    /\ UNCHANGED <<clientVars, open, pc, timer, expired, request, closing, response, parts,
                   wire, history>>

\* One turn of the inner loop of read().
CallReadFromSocket ==
    /\ pc = "read" /\ buffer # <<>> /\ ~Decided(request)
    /\ LET r == IF request = NoRequest THEN NewRequest ELSE request
           read == BytesRead(r, buffer)
           next == ReadFromSocket(r, buffer)
       IN  /\ request' = next
           /\ buffer' = SubSeq(buffer, Len(read) + 1, Len(buffer))
           /\ timer' = (timer \/ next.status = "waitForBody")
    /\ UNCHANGED <<clientVars, arrived, open, pc, expired, closing, response, parts, wire,
                   history>>

ReadReturns ==
    /\ pc = "read" /\ buffer = <<>> /\ ~Decided(request)
    /\ pc' = "loop"
    /\ UNCHANGED <<clientVars, arrived, buffer, open, timer, expired, request, closing,
                   response, parts, wire, history>>

\* The request is aborted: 413, and the connection is closed.
Refuse ==
    /\ pc = "read" /\ request.status = "abort"
    /\ wire' = IF open THEN wire \o <<Head413, Item("data", 0)>> ELSE wire
    /\ refused' = TRUE
    /\ pc' = "flush"
    /\ UNCHANGED <<clientVars, arrived, buffer, open, timer, expired, request, closing,
                   response, parts, delivered, bodies, orphans>>

\* The request is complete: the response, with Connection: close if the client
\* asked for it or speaks HTTP/1.0, and the call of service().
MustClose(r) == AsksToClose(r) \/ IsHttp10(r)

Dispatch ==
    /\ pc = "read" /\ request.status = "complete"
    /\ timer' = FALSE
    /\ closing' = MustClose(request)
    /\ response' = IF MustClose(request)
                   THEN SetHeader(NewResponse, "Connection", Text("close")) ELSE NewResponse
    /\ parts' = 0
    /\ delivered' = Append(delivered, request)
    /\ bodies' = Append(bodies, <<>>)
    /\ pc' = "service"
    /\ UNCHANGED <<clientVars, arrived, buffer, open, expired, request, wire, refused, orphans>>

ServiceSetsHeader ==
    /\ pc = "service" /\ ~response.sentHeaders
    /\ \E s \in Settings :
         /\ ~response.headers[s[1]].set
         /\ response' = SetHeader(response, s[1], s[2])
    /\ UNCHANGED <<clientVars, arrived, buffer, open, pc, timer, expired, request, closing,
                   parts, wire, history>>

\* A part of the body; its bytes carry the number of the request they answer.
ServiceWrites ==
    /\ pc = "service" /\ ~response.sentLastPart /\ parts < MaxParts
    /\ parts' = parts + 1
    /\ \E n \in 0..1, lastPart \in BOOLEAN :
         LET data == [i \in 1..n |-> Item("data", Len(delivered))] IN
           /\ response' = Write(response, data, lastPart)
           /\ bodies' = [bodies EXCEPT ![Len(bodies)] = @ \o data]
    /\ UNCHANGED <<clientVars, arrived, buffer, open, pc, timer, expired, request, closing,
                   wire, delivered, refused, orphans>>

\* Is the connection closed after the response?
CloseAfter(r) ==
    \/ r.headers["Connection"] = Text("close")
    \/ ~r.headers["Content-Length"].set /\ r.headers["Transfer-Encoding"] # Text("chunked")

\* service() has returned or thrown: the last part, and what becomes of the
\* connection.
Finalized(r) == IF r.sentLastPart THEN r ELSE Write(r, <<>>, TRUE)

\* The loop of read() goes on with what the buffer holds.
BugOneRequestPerSignal == pc' = "loop"
NextRequest == pc' = "read"

ServiceReturns ==
    /\ pc = "service"
    /\ LET final == Finalized(response) IN
         /\ response' = NewResponse
         /\ wire' = IF open THEN wire \o final.sent ELSE wire
         /\ \/ /\ closing \/ CloseAfter(final)
               /\ pc' = "flush"
               /\ UNCHANGED <<timer, request, orphans>>
            \/ /\ ~closing /\ ~CloseAfter(final)
               /\ timer' = TRUE
               /\ DeleteRequest
               /\ NextRequest
    /\ UNCHANGED <<clientVars, arrived, buffer, open, expired, closing, parts, delivered,
                   bodies, refused>>

\* The output buffer is empty: disconnectFromHost(), and read() returns or finds
\* no more bytes.
Flushed ==
    /\ pc = "flush"
    /\ Disconnected
    /\ DeleteRequest
    /\ pc' = "loop"
    /\ UNCHANGED <<clientVars, expired, closing, response, parts, wire, delivered, bodies,
                   refused>>

\* readTimeout() up to its wait for the output, in which read() may be called.
ReadTimeout ==
    /\ pc = "loop" /\ timer /\ ~expired
    /\ timer' = FALSE /\ expired' = TRUE
    /\ UNCHANGED <<clientVars, arrived, buffer, open, pc, request, closing, response, parts,
                   wire, history>>

ReadTimeoutFlushed ==
    /\ pc = "loop" /\ expired
    /\ expired' = FALSE
    /\ DeleteRequest
    /\ \/ open /\ Disconnected
       \/ ~open /\ UNCHANGED <<open, buffer, arrived, timer>>
    /\ UNCHANGED <<clientVars, pc, closing, response, parts, wire, delivered, bodies, refused>>

Next ==
    \/ Send \/ HangUp
    \/ PeerGone \/ ReadyRead \/ FetchWhileWriting \/ CallReadFromSocket \/ ReadReturns
    \/ Refuse \/ Dispatch \/ ServiceSetsHeader \/ ServiceWrites \/ ServiceReturns \/ Flushed
    \/ ReadTimeout \/ ReadTimeoutFlushed

Spec == Init /\ [][Next]_vars

-----------------------------------------------------------------------------
HeadSize(q) == 2 * q.blanks + 3 * (1 + Len(q.headers)) + 2
Size(q) == HeadSize(q) + Len(q.body)

(***************************************************************************)
(* RequestsAsSent: service() gets the requests the client has written, in  *)
(* this order, each with its own line, headers, body, fields and files (of *)
(* several files of one field the last: getUploadedFile() knows one for a  *)
(* field), however the stream was cut: no line is lost or joined with      *)
(* another, and no byte of a pipelined request is taken for one of the     *)
(* body before it (HttpRequest::readFromSocket,                            *)
(* HttpConnectionHandler::read).                                           *)
(***************************************************************************)
Parameters(sections) ==
    {<<s.field, IF s.file = NoName THEN s.value ELSE <<s.file>> >> : s \in ToSet(sections)}
FileFields(sections) == {sections[i].field : i \in Uploads(sections)}
Files(sections) ==
    [f \in FileFields(sections) |->
       sections[Max({i \in Uploads(sections) : sections[i].field = f})].value]

SameRequest(r, q) ==
    /\ r.line = q.line
    /\ DOMAIN r.headers = {q.headers[i].name : i \in DOMAIN q.headers} \ {NoName}
    /\ r.bodyData \o r.tempFile = q.body
    /\ r.form.parameters = Parameters(q.sections)
    /\ r.form.files = Files(q.sections)

RequestsAsSent ==
    /\ Len(delivered) <= Len(script)
    /\ \A i \in DOMAIN delivered : SameRequest(delivered[i], script[i])

Multipart(q) == q.sections # <<>>
FieldLinesFrom(sections) ==
    LET from[i \in 1..Len(sections) + 1] ==
          IF i > Len(sections) THEN 0
          ELSE from[i + 1] + IF sections[i].file = NoName THEN Len(sections[i].value) ELSE 0
    IN  from
FieldLines(q) == FieldLinesFrom(q.sections)[1]
Broken(q) == q.line.words = {}

\* The limits of httprequest.h:30-35: of a request in one piece all is counted,
\* of an upload the head and the body each for itself.
Within(q, head, body) ==
    IF Multipart(q) THEN HeadSize(q) <= head /\ Len(q.body) <= body ELSE Size(q) <= MaxSize

\* Besides, the head of an upload and the values of its fields are kept in memory.
FieldsFit(q) == Multipart(q) => HeadSize(q) + FieldLines(q) <= MaxMultiPartSize

(***************************************************************************)
(* VerdictBySize: whether a request is served or refused depends on its    *)
(* size and its first line, never on how it was cut or what came before it *)
(* on the connection.  What keeps the limits is served and what exceeds    *)
(* them is refused (readHeader, readBody, readFromSocket).  Two bytes are  *)
(* left to the code, and are the matter of LimitsAsDocumented: the head of *)
(* an upload may have one more than maxSize, and a body of just            *)
(* maxMultiPartSize bytes may be refused.                                  *)
(***************************************************************************)
VerdictBySize ==
    /\ \A i \in DOMAIN delivered :
         LET q == script[i]
         IN  ~Broken(q) /\ FieldsFit(q) /\ Within(q, MaxSize + 1, MaxMultiPartSize)
    /\ refused =>
         LET q == script[Len(delivered) + 1]
         IN  Broken(q) \/ ~FieldsFit(q) \/ ~Within(q, MaxSize, MaxMultiPartSize - 1)

(***************************************************************************)
(* LimitsAsDocumented: the same without these two bytes, as httprequest.h  *)
(* has it: "the maximum size of the body must not exceed                   *)
(* maxMultiPartSize".  The code refuses a body that does not exceed it.    *)
(***************************************************************************)
LimitsAsDocumented ==
    /\ \A i \in DOMAIN delivered : Within(script[i], MaxSize, MaxMultiPartSize)
    /\ refused => LET q == script[Len(delivered) + 1]
                  IN  Broken(q) \/ ~FieldsFit(q) \/ ~Within(q, MaxSize, MaxMultiPartSize)

(***************************************************************************)
(* ResponsesFramed: a client that reads the responses by their headers     *)
(* gets, in the order of the requests, exactly the bodies service() wrote: *)
(* whatever headers it set, in how many parts it wrote, whether or not it  *)
(* wrote the last one, and although nobody but the close of the connection *)
(* may mark the end.  On a connection that is kept open it is never left   *)
(* waiting for the end of a response (HttpResponse::write, and the choice  *)
(* between closing and keeping in HttpConnectionHandler::read).            *)
(***************************************************************************)
Answers == bodies \o IF refused THEN <<<<Item("data", 0)>>>> ELSE <<>>

ResponsesFramed ==
    LET view == ClientView(wire, ~open)
    IN  ~gone =>
          /\ view.mode # "confused"
          /\ IsPrefix(view.bodies, Answers)
          /\ pc \in {"loop", "read"} => view.bodies = Answers

(***************************************************************************)
(* UploadsDeleted: of the temporary files of a request, those of its       *)
(* destructor's map are deleted with it, however its service() or its      *)
(* connection ends.  Files are left only of a request that brings several  *)
(* for one field, and then all but one of each field: insert() replaces    *)
(* the earlier ones in the map without deleting them                       *)
(* (HttpRequest::parseMultiPartFile, ~HttpRequest).                        *)
(***************************************************************************)
FilesReplaced(sections) == Cardinality(Uploads(sections)) - Cardinality(FileFields(sections))

UploadsDeleted ==
    \A o \in orphans :
      o[1] \in DOMAIN script /\ o[2] = FilesReplaced(script[o[1]].sections)

\* NoFileLeft: no temporary file outlives its request: "It will be closed and
\* deleted by the destructor of this HttpRequest object" (httprequest.h:135).
NoFileLeft == orphans = {}

(***************************************************************************)
(* NobodyWaits: when the thread is back in its event loop and no byte is   *)
(* on its way, every request the client has sent completely is answered,   *)
(* or the connection is closed: the loop in read() does not return with a  *)
(* request in the buffer, for which no signal would come any more.         *)
(***************************************************************************)
SentCompletely(i) == Len(coming) <= Len(StreamFrom(script)[i + 1])

NobodyWaits ==
    pc = "loop" /\ arrived = <<>> /\ open =>
        /\ buffer = <<>>
        /\ \A i \in DOMAIN script : SentCompletely(i) => Len(bodies) >= i

-----------------------------------------------------------------------------
(***************************************************************************)
(* The inductive invariant behind ResponsesFramed, if service() sets none  *)
(* of the headers that say how long a response is (HttpExchange_proofs).   *)
(***************************************************************************)
\* "other" stands for all a handler may give Connection but "close".
HeaderValue == [set : BOOLEAN, value : {"", "close", "chunked", "other"}, num : Nat]
Headers == [HeaderName -> HeaderValue]
WireItem == [kind : {"head", "size", "data", "crlf"}, num : Nat, headers : Headers]
Response == [headers : Headers, sentHeaders : BOOLEAN, sentLastPart : BOOLEAN,
             chunkedMode : BOOLEAN, sent : Seq(WireItem)]

IsSequence(s) == s \in Seq({s[i] : i \in DOMAIN s})

WireTyped ==
    /\ wire \in Seq(WireItem) /\ bodies \in Seq(Seq(WireItem)) /\ response \in Response
    /\ IsSequence(delivered)
    /\ open \in BOOLEAN /\ refused \in BOOLEAN /\ pc \in {"loop", "read", "service", "flush"}

\* A client that has got all of the responses, or all but the end of the last.
Waits(c, answers) == c.mode = "head" /\ c.body = <<>> /\ c.bodies = answers
WaitsForClose(c, answers) == c.mode = "until close" /\ Append(c.bodies, c.body) = answers

\* A response before its first write(), one that is written in chunks, one without
\* a length, and a complete one, as a client sees them that has got the responses
\* before it; b is what service() has written of the body.
Fresh(r) ==
    /\ ~r.sentHeaders /\ ~r.sentLastPart /\ ~r.chunkedMode /\ r.sent = <<>>
    /\ ~r.headers["Content-Length"].set /\ ~r.headers["Transfer-Encoding"].set

Getting(c, r, b, mode) ==
    LET d == Reading(c, r.sent) IN d.mode = mode /\ d.body = b /\ d.bodies = c.bodies
InChunks(c, r, b) ==
    /\ r.sentHeaders /\ r.chunkedMode /\ r.headers["Transfer-Encoding"] = Text("chunked")
    /\ Getting(c, r, b, "size")
TillClose(c, r, b) ==
    /\ r.sentHeaders /\ ~r.chunkedMode /\ ~r.headers["Content-Length"].set
    /\ r.headers["Transfer-Encoding"] # Text("chunked")
    /\ Getting(c, r, b, "until close")
Answered(c, r, b) == Waits(Reading(c, r.sent), Append(c.bodies, b))

Framed(r, c, b) ==
    \/ Fresh(r) /\ b = <<>>
    \/ ~r.sentLastPart /\ InChunks(c, r, b)
    \/ TillClose(c, r, b)
    \/ r.sentLastPart /\ Answered(c, r, b)

InStep ==
    LET c == Reading(Expecting, wire) IN
    /\ pc # "loop" => open
    /\ pc = "read" \/ (pc = "loop" /\ open) => Waits(c, bodies) /\ ~refused
    /\ pc = "service" => /\ Waits(c, c.bodies) /\ bodies = Append(c.bodies, Last(bodies)) /\ ~refused
                         /\ Framed(response, c, Last(bodies))
    /\ pc = "flush" \/ (pc = "loop" /\ ~open) => Waits(c, Answers) \/ WaitsForClose(c, Answers)

Steady == WireTyped /\ InStep
IndInv == ~gone => Steady
=============================================================================
