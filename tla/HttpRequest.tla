---------------------------- MODULE HttpRequest ----------------------------
(***************************************************************************)
(* HttpRequest: the parser of one request (httprequest.cpp).  The object   *)
(* is a record, a method an operator that returns the record the method    *)
(* leaves behind; HttpExchange calls readFromSocket() as                   *)
(* HttpConnectionHandler::read() does, with whatever the socket holds.     *)
(*                                                                         *)
(* A byte is a record.  CR, LF and the bytes of a body stand for           *)
(* themselves; a byte of kind "line", "header" or "text" stands for the    *)
(* text of a line without its CRLF, and carries what the parser makes of   *)
(* it: a name, words and a number.  So a line is three bytes, which        *)
(* segments of the stream can cut, and sizes add up as in the code.  In a  *)
(* multipart body a byte is a line of the temporary file.  headers keeps   *)
(* the value headers.value() returns: the last that was inserted.          *)
(***************************************************************************)
EXTENDS Integers, Sequences, SequencesExt

CONSTANTS
    MaxSize,            \* maxRequestSize
    MaxMultiPartSize,   \* maxMultiPartSize
    Block               \* the bytes readBody() moves to the file at once

ASSUME SizesAssumption ==
    MaxSize \in Nat \ {0} /\ MaxMultiPartSize \in Nat /\ Block \in Nat \ {0}

NoName == ""
Byte(kind, name, words, num) == [kind |-> kind, name |-> name, words |-> words, num |-> num]
CR == Byte("cr", NoName, {}, 0)
LF == Byte("lf", NoName, {}, 0)
NoLine == Byte("line", NoName, {}, 0)

\* QMap::insert() replaces the value of a key.
Put(map, key, value) == [k \in DOMAIN map \cup {key} |-> IF k = key THEN value ELSE map[k]]

Smaller(a, b) == IF a < b THEN a ELSE b

\* QIODevice::readLine(max): up to a line feed, the end of the data or max.
ReadLine(data, max) ==
    LET feeds == {i \in DOMAIN data : data[i] = LF}
        end == IF feeds = {} THEN Len(data) ELSE Min(feeds)
    IN  SubSeq(data, 1, Smaller(end, max))

\* QIODevice::read(max): nothing if max is negative.
ReadUpTo(data, max) == SubSeq(data, 1, Smaller(Len(data), max))

-----------------------------------------------------------------------------
(* The parts of a multipart body. *)

NoPart == [inData |-> FALSE, field |-> NoName, file |-> NoName, value |-> <<>>, uploaded |-> FALSE]

\* What parseMultiPartFile() has found when the file is at its beginning.
NothingParsed ==
    [part |-> NoPart, finished |-> FALSE, parameters |-> {}, files |-> [f \in {} |-> <<>>],
     fieldBytes |-> 0, opened |-> 0]

\* A Content-Disposition line names the field, and a file if it is one; an
\* empty line ends the headers of a part.
PartHeader(m, line) ==
    CASE line.kind = "disposition" ->
           [m EXCEPT !.part.field = line.name,
                     !.part.file = IF line.words = {} THEN @ ELSE CHOOSE w \in line.words : TRUE]
      [] line.kind = "blank" -> [m EXCEPT !.part.inData = TRUE]
      [] OTHER -> m

BugNoUpload(p) == FALSE
Uploaded(p) == p.uploaded

\* A boundary line: the part is complete.  uploadedFiles is a map of one file
\* per field, parameters a map of many values per name.
PartEnd(m, line) ==
    LET p == m.part
        next == [m EXCEPT !.part = NoPart, !.finished = line.kind = "end"]
    IN  CASE p.field # NoName /\ p.file = NoName ->
               [next EXCEPT !.parameters = @ \cup {<<p.field, p.value>>}]
          [] p.field # NoName /\ p.file # NoName /\ Uploaded(p) ->
               [next EXCEPT !.parameters = @ \cup {<<p.field, <<p.file>>>>},
                            !.files = Put(@, p.field, p.value)]
          [] OTHER -> next

\* A line of data: of a field, whose value adds to the size, or of a file, for
\* which the first line opens a temporary file.
PartData(m, line) ==
    CASE m.part.field # NoName /\ m.part.file = NoName ->
           [m EXCEPT !.part.value = Append(@, line), !.fieldBytes = @ + 1]
      [] m.part.field # NoName /\ m.part.file # NoName ->
           [m EXCEPT !.part.value = Append(@, line), !.part.uploaded = TRUE,
                     !.opened = IF m.part.uploaded THEN @ ELSE @ + 1]
      [] OTHER -> m

ParseLine(m, line) ==
    IF m.finished THEN m
    ELSE IF ~m.part.inData THEN PartHeader(m, line)
    ELSE IF line.kind \in {"delimiter", "end"} THEN PartEnd(m, line)
    ELSE PartData(m, line)

\* What it has found after each of the lines.
Parsed(m, file) ==
    LET after[n \in 0..Len(file)] == IF n = 0 THEN m ELSE ParseLine(after[n - 1], file[n])
    IN  after
ParseMultiPartFile(file) == Parsed(NothingParsed, file)[Len(file)]

-----------------------------------------------------------------------------
(* The state machine. *)

NewRequest ==
    [status |-> "waitForRequest", line |-> NoLine, lineBuffer |-> <<>>, currentSize |-> 0,
     headers |-> [n \in {} |-> NoLine], currentHeader |-> NoName, boundary |-> FALSE, expectedBodySize |-> 0,
     bodyData |-> <<>>, tempFile |-> <<>>, form |-> NothingParsed]

Header(r, name) ==
    IF name \in DOMAIN r.headers THEN r.headers[name] ELSE Byte("header", NoName, {}, 0)

Value(r, name) == Header(r, name).words

\* The line that a call has completed, without white space at its ends.
HasLine(r) ==
    \E i \in 1..Len(r.lineBuffer) - 1 : r.lineBuffer[i] = CR /\ r.lineBuffer[i + 1] = LF
Trimmed(line) ==
    LET text == {i \in DOMAIN line : line[i] \notin {CR, LF}}
    IN  IF text = {} THEN <<>> ELSE SubSeq(line, Min(text), Max(text))

Collect(r, data) ==
    [r EXCEPT !.currentSize = @ + Len(data), !.lineBuffer = @ \o data]

\* readRequest(): empty lines before the request are skipped, but counted.
ParseRequestLine(r) ==
    LET text == Trimmed(r.lineBuffer)
        next == [r EXCEPT !.lineBuffer = <<>>]
        wellFormed == Len(text) = 1 /\ text[1].kind = "line" /\ text[1].words # {}
    IN  CASE text = <<>> -> next
          [] text # <<>> /\ wellFormed -> [next EXCEPT !.line = text[1], !.status = "waitForHeader"]
          [] OTHER -> [next EXCEPT !.status = "abort"]

\* QByteArray::toInt(): 0 if there is something besides a number.
ContentLength(r) ==
    IF Value(r, "content-length") = {} THEN Header(r, "content-length").num ELSE 0

BugLimitExclusive(r, expected) == expected + r.currentSize >= MaxSize
BodyTooLarge(r, expected) == expected + r.currentSize > MaxSize

\* The empty line: is there a body, and how large may it be?
HeadersCompleted(r) ==
    LET boundary == {"multipart/form-data", "boundary="} \subseteq Value(r, "content-type")
        expected == ContentLength(r)
    IN  [r EXCEPT
           !.boundary = boundary,
           !.expectedBodySize = expected,
           !.status = CASE expected = 0 -> "complete"
                        [] expected # 0 /\ ~boundary /\ BodyTooLarge(r, expected) -> "abort"
                        [] boundary /\ expected > MaxMultiPartSize -> "abort"
                        [] OTHER -> "waitForBody"]

\* readHeader(): a header, a continuation of the last one, or the empty line.
ParseHeader(r) ==
    LET text == Trimmed(r.lineBuffer)
        next == [r EXCEPT !.lineBuffer = <<>>]
    IN  CASE text = <<>> -> HeadersCompleted(next)
          [] text # <<>> /\ text[1].kind = "header" ->
               [next EXCEPT !.currentHeader = text[1].name,
                            !.headers = Put(@, text[1].name, text[1])]
          [] OTHER ->
               IF r.currentHeader \in DOMAIN r.headers
               THEN [next EXCEPT !.headers[r.currentHeader].words = @ \cup text[1].words]
               ELSE next

ReadBody(r, data) ==
    LET next == [r EXCEPT !.currentSize = @ + Len(data), !.bodyData = @ \o data]
    IN  IF Len(next.bodyData) >= r.expectedBodySize THEN [next EXCEPT !.status = "complete"]
        ELSE next

\* The bytes of the file are not counted in currentSize; the fields are.
ReadMultiPartBody(r, data) ==
    LET file == r.tempFile \o data
        form == ParseMultiPartFile(file)
        next == [r EXCEPT !.tempFile = file]
    IN  CASE Len(file) >= MaxMultiPartSize -> [next EXCEPT !.status = "abort"]
          [] Len(file) < MaxMultiPartSize /\ Len(file) >= r.expectedBodySize ->
               [next EXCEPT !.form = form, !.status = "complete",
                            !.currentSize = @ + form.fieldBytes]
          [] OTHER -> next

\* What one call takes from the socket: one byte more than allowed, to be able
\* to detect the overflow, and never a byte behind the body.
BugReadAhead(r, data) == data
BodyBytes(r, data) == ReadUpTo(data, r.expectedBodySize - Len(r.bodyData))
FileBytes(r, data) == ReadUpTo(data, Smaller(r.expectedBodySize - Len(r.tempFile), Block))

BytesRead(r, data) ==
    CASE r.status \in {"waitForRequest", "waitForHeader"} ->
           ReadLine(data, MaxSize - r.currentSize + 1)
      [] r.status = "waitForBody" /\ ~r.boundary -> BodyBytes(r, data)
      [] OTHER -> FileBytes(r, data)

TooManyBytes(r) == r.currentSize > (IF r.boundary THEN MaxMultiPartSize ELSE MaxSize)

\* readFromSocket()
ReadFromSocket(r, data) ==
    LET read == BytesRead(r, data)
        line == Collect(r, read)
        next == CASE r.status = "waitForRequest" ->
                       IF HasLine(line) THEN ParseRequestLine(line) ELSE line
                  [] r.status = "waitForHeader" ->
                       IF HasLine(line) THEN ParseHeader(line) ELSE line
                  [] r.status = "waitForBody" /\ ~r.boundary -> ReadBody(r, read)
                  [] OTHER -> ReadMultiPartBody(r, read)
    IN  IF TooManyBytes(next) THEN [next EXCEPT !.status = "abort"] ELSE next

Decided(r) == r.status \in {"complete", "abort"}

\* QString::compare(value, "close") == 0 and the version of the first line.
AsksToClose(r) == Value(r, "connection") = {"close"}
IsHttp10(r) == r.line.words = {"HTTP/1.0"}
=============================================================================
