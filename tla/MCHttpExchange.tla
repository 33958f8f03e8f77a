--------------------------- MODULE MCHttpExchange ---------------------------
(* Small instances of HttpExchange for TLC. *)
EXTENDS HttpExchange

Line(name, version) == Byte("line", name, version, 0)
Length(n) == Byte("header", "content-length", {}, n)
Close == Byte("header", "connection", {"close"}, 0)
Form == Byte("header", "content-type", {"multipart/form-data"}, 0)
Folded == Byte("text", NoName, {"boundary="}, 0)

Plain(name, version, headers, body) ==
    [blanks |-> 0, line |-> Line(name, version), headers |-> headers, body |-> body,
     sections |-> <<>>]
Data(n) == [i \in 1..n |-> Byte("data", NoName, {}, i)]

V1 == {"HTTP/1.1"}
Get == Plain("get", V1, <<>>, <<>>)
AfterBlanks == [Get EXCEPT !.blanks = 1]
GetClose == Plain("close", V1, <<Close>>, <<>>)
Get10 == Plain("old", {"HTTP/1.0"}, <<>>, <<>>)
Garbage == Plain("garbage", {}, <<>>, <<>>)
Post(n) == Plain("post", V1, <<Length(n)>>, Data(n))
ManyHeaders == Plain("long", V1, <<Close, Close, Close, Close>>, <<>>)

\* Uploads: a form with a field, a file or both; the header is folded.
Upload(sections) ==
    LET body == FormFrom(sections)[1] IN
    [blanks |-> 0, line |-> Line("upload", V1), headers |-> <<Form, Folded, Length(Len(body))>>,
     body |-> body, sections |-> sections]

Rows(name, n) == [i \in 1..n |-> Byte("data", name, {}, i)]
Field(n) == [field |-> "f", file |-> NoName, value |-> Rows("field value", n)]
File(n) == [field |-> "g", file |-> "name", value |-> Rows("file line", n)]
FieldUpload(n) == Upload(<<Field(n)>>)
FileUpload(n) == Upload(<<File(n)>>)
BothUpload == Upload(<<Field(1), File(1)>>)
TwoFiles == Upload(<<File(1), File(2)>>)

\* The head of a Post has 8 bytes, that of an upload 14: the limits are met
\* exactly and exceeded by one.
AllScripts == {
    <<Get, Get10, Get>>, <<Post(2), Get>>, <<Post(6), AfterBlanks>>, <<Get, Post(7), Get>>,
    <<AfterBlanks, GetClose, Get>>, <<Get, Garbage>>, <<ManyHeaders>>,
    <<FileUpload(2), Get>>, <<FileUpload(10)>>, <<FileUpload(11)>>, <<FileUpload(12)>>,
    <<FieldUpload(1), Get>>, <<FieldUpload(2)>>, <<BothUpload, Get>>, <<TwoFiles, Get>>}

\* For the violations: a body of just maxMultiPartSize bytes, and two files of
\* one field.
LimitScripts == {<<FileUpload(11)>>}
TwoFileScripts == {<<TwoFiles>>}

CloseHeaders == {<<"Connection", Text("close")>>, <<"connection", Text("close")>>}
=============================================================================
