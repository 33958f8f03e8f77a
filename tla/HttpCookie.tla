----------------------------- MODULE HttpCookie -----------------------------
(***************************************************************************)
(* HttpCookie (httpserver/httpcookie.cpp), HttpRequest::extractCookies(),  *)
(* and what a browser does between the two.                                *)
(*                                                                         *)
(* A header line is a sequence of words and of the characters that mean    *)
(* something in it: = ; " and the space.                                   *)
(***************************************************************************)
EXTENDS Naturals, Integers, Sequences, SequencesExt, Functions

\* trimmed()
Trimmed(s) ==
    LET words == {i \in DOMAIN s : s[i] # " "}
    IN  IF words = {} THEN <<>>
        ELSE SubSeq(s, CHOOSE i \in words : \A j \in words : i <= j,
                       CHOOSE i \in words : \A j \in words : j <= i)

AppendTrimmed(list, s) == IF Trimmed(s) = <<>> THEN list ELSE Append(list, Trimmed(s))

\* splitCSV(): the parts between semicolons; quotes are dropped, and protect the
\* semicolons between them.
SplitStep(state, c) ==
    CASE c = "\"" -> [state EXCEPT !.inString = ~@]
      [] c = ";" /\ ~state.inString ->
           [state EXCEPT !.list = AppendTrimmed(@, state.buffer), !.buffer = <<>>]
      [] OTHER -> [state EXCEPT !.buffer = Append(@, c)]

SplitCSV(source) ==
    LET end == FoldLeft(SplitStep, [inString |-> FALSE, list |-> <<>>, buffer |-> <<>>], source)
    IN  AppendTrimmed(end.list, end.buffer)

\* The place of the first = in a part, counted from 0, -1 if there is none.
BugLastEquals(part) ==
    LET at == {i \in DOMAIN part : part[i] = "="}
    IN  IF at = {} THEN -1 ELSE (CHOOSE i \in at : \A j \in at : i >= j) - 1
Posi(part) ==
    LET at == {i \in DOMAIN part : part[i] = "="}
    IN  IF at = {} THEN -1 ELSE (CHOOSE i \in at : \A j \in at : i <= j) - 1

\* "if (posi)" is false for a part that begins with =, and true when there is
\* none: then left(-1) is empty and mid(0) is the whole part.
NameOf(part) == Trimmed(IF Posi(part) = 0 THEN part ELSE SubSeq(part, 1, Posi(part)))
ValueIn(part) ==
    IF Posi(part) = 0 THEN <<>> ELSE Trimmed(SubSeq(part, Posi(part) + 2, Len(part)))

\* extractCookies(): a name that comes again replaces the earlier value.
ExtractCookies(header) ==
    LET list == SplitCSV(header)
        names == {NameOf(list[i]) : i \in DOMAIN list}
        last(n) == CHOOSE i \in DOMAIN list :
                       NameOf(list[i]) = n /\ \A j \in DOMAIN list : NameOf(list[j]) = n => j <= i
    IN  [n \in names |-> ValueIn(list[last(n)])]

-----------------------------------------------------------------------------
\* HttpCookie(name, value, maxAge, path, comment, domain, secure, httpOnly)
NewCookie(name, value, maxAge, path, comment, domain, secure, httpOnly) ==
    [name |-> name, value |-> value, maxAge |-> maxAge, path |-> path, comment |-> comment,
     domain |-> domain, secure |-> secure, httpOnly |-> httpOnly, version |-> 1]

Attribute(name, value) == <<";", " ", name, "=">> \o value
Optional(name, value) == IF value = <<>> THEN <<>> ELSE Attribute(name, value)
Flag(name, set) == IF set THEN <<";", " ", name>> ELSE <<>>

\* toByteArray(): a maxAge of 0 is not written.
ToByteArray(c) ==
    c.name \o <<"=">> \o c.value
    \o Optional("Comment", c.comment)
    \o Optional("Domain", c.domain)
    \o (IF c.maxAge # 0 THEN Attribute("Max-Age", <<ToString(c.maxAge)>>) ELSE <<>>)
    \o Optional("Path", c.path)
    \o Flag("Secure", c.secure)
    \o Flag("HttpOnly", c.httpOnly)
    \o Attribute("Version", <<ToString(c.version)>>)

\* HttpCookie(source).  toInt() of what is no number is 0.  The constructor does
\* not set httpOnly, and Secure and HttpOnly have no name that it recognises.
ToInt(s) == IF \E n \in 0..100 : s = <<ToString(n)>> THEN CHOOSE n \in 0..100 : s = <<ToString(n)>> ELSE 0

ParsePart(c, part) ==
    CASE NameOf(part) = <<"Comment">> -> [c EXCEPT !.comment = ValueIn(part)]
      [] NameOf(part) = <<"Domain">> -> [c EXCEPT !.domain = ValueIn(part)]
      [] NameOf(part) = <<"Max-Age">> -> [c EXCEPT !.maxAge = ToInt(ValueIn(part))]
      [] NameOf(part) = <<"Path">> -> [c EXCEPT !.path = ValueIn(part)]
      [] NameOf(part) = <<"Secure">> -> [c EXCEPT !.secure = TRUE]
      [] NameOf(part) = <<"HttpOnly">> -> [c EXCEPT !.httpOnly = TRUE]
      [] NameOf(part) = <<"Version">> -> [c EXCEPT !.version = ToInt(ValueIn(part))]
      [] OTHER -> IF c.name = <<>> THEN [c EXCEPT !.name = NameOf(part), !.value = ValueIn(part)]
                  ELSE c

ParseCookie(source, uninitialised) ==
    FoldLeft(ParsePart, NewCookie(<<>>, <<>>, 0, <<>>, <<>>, <<>>, FALSE, uninitialised),
             SplitCSV(source))

-----------------------------------------------------------------------------
(* The browser: the first name=value is the cookie, which Max-Age=0 discards,*)
(* and what it sends back are the cookies of its jar.                        *)

UpTo(s, c) ==
    LET at == {i \in DOMAIN s : s[i] = c}
    IN  IF at = {} THEN s ELSE SubSeq(s, 1, (CHOOSE i \in at : \A j \in at : i <= j) - 1)

Discards(line) ==
    \E i \in 1..Len(line) - 4 : SubSeq(line, i, i + 4) = Attribute("Max-Age", <<ToString(0)>>)

Stored(jar, line) ==
    LET pair == UpTo(line, ";")
        name == UpTo(pair, "=")
        value == SubSeq(pair, Len(name) + 2, Len(pair))
    IN  IF Discards(line) THEN [n \in DOMAIN jar \ {name} |-> jar[n]]
        ELSE [n \in DOMAIN jar \cup {name} |-> IF n = name THEN value ELSE jar[n]]

\* The Cookie header, with the cookies in some order.
CookieHeader(jar, order) ==
    FlattenSeq([i \in DOMAIN order |->
        (IF i = 1 THEN <<>> ELSE <<";", " ">>) \o order[i] \o <<"=">> \o jar[order[i]]])
=============================================================================
