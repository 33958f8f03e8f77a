----------------------------- MODULE Parameters -----------------------------
(***************************************************************************)
(* HttpRequest::decodeRequestParams() and urlDecode(): the parameters in   *)
(* the path and in the body of a request, and how a browser encodes them.  *)
(*                                                                         *)
(* A text is a sequence of characters, of which those are enough that mean *)
(* something in an encoded text, two digits and a letter.                  *)
(***************************************************************************)
EXTENDS HttpCookie

\* toInt(&ok, 16): the hexadecimal codes of the characters.
Code == ("%" :> <<"2", "5">>) @@ ("+" :> <<"2", "B">>) @@ (" " :> <<"2", "0">>)
        @@ ("&" :> <<"2", "6">>) @@ ("=" :> <<"3", "D">>)
Encodes(digits) == {c \in DOMAIN Code : Code[c] = digits}

\* What is behind the percent sign i, two characters at most.
Digits(s, i) == SubSeq(s, i + 1, IF i + 2 <= Len(s) THEN i + 2 ELSE Len(s))

PlusToSpace(s) == [i \in DOMAIN s |-> IF s[i] = "+" THEN " " ELSE s[i]]

\* From each percent sign to the next behind the decoded character, which is
\* therefore not decoded again; what is no code stays as it is.
UrlDecode(source) ==
    LET s == PlusToSpace(source)
        rest[i \in 1..Len(s) + 1] ==
            IF i > Len(s) THEN <<>>
            ELSE IF s[i] = "%" /\ Encodes(Digits(s, i)) # {}
            THEN <<CHOOSE c \in Encodes(Digits(s, i)) : TRUE>> \o rest[i + 3]
            ELSE <<s[i]>> \o rest[i + 1]
    IN  rest[1]

\* split(): the pieces between the separators, empty ones included.
Pieces(s, c) ==
    FoldLeft(LAMBDA list, x : IF x = c THEN Append(list, <<>>)
                              ELSE [list EXCEPT ![Len(list)] = Append(@, x)],
             <<<<>>>>, s)

\* A name and its value, decoded after they have been told apart; an empty part
\* is no parameter.
BugDecodeFirst(part) ==
    LET p == UrlDecode(part)
    IN  IF part = <<>> THEN <<>>
        ELSE IF Posi(p) < 0 THEN <<<<p, <<>>>>>>
        ELSE <<<<Trimmed(SubSeq(p, 1, Posi(p))), Trimmed(SubSeq(p, Posi(p) + 2, Len(p)))>>>>
Parameter(part) ==
    IF part = <<>> THEN <<>>
    ELSE IF Posi(part) < 0 THEN <<<<UrlDecode(part), <<>>>>>>
    ELSE <<<<UrlDecode(Trimmed(SubSeq(part, 1, Posi(part)))),
             UrlDecode(Trimmed(SubSeq(part, Posi(part) + 2, Len(part))))>>>>

\* decodeRequestParams(): of the path what is behind the question mark, and of a
\* body that is a form. The map keeps the parameters in the order of insertion.
RawParameters(query, body, isForm) ==
    IF body = <<>> \/ ~isForm THEN query
    ELSE IF query = <<>> THEN body
    ELSE query \o <<"&">> \o body

DecodeRequestParams(query, body, isForm) ==
    LET list == Pieces(RawParameters(query, body, isForm), "&")
    IN  FlattenSeq([i \in DOMAIN list |-> Parameter(list[i])])

-----------------------------------------------------------------------------
\* A browser writes a space as + or as its code, and the code of every other
\* character that means something.
UrlEncode(text, space) ==
    FlattenSeq([i \in DOMAIN text |->
        IF text[i] = " " THEN space
        ELSE IF text[i] \in DOMAIN Code THEN <<"%">> \o Code[text[i]]
        ELSE <<text[i]>>])

EncodeForm(pairs, space) ==
    FlattenSeq([i \in DOMAIN pairs |->
        (IF i = 1 THEN <<>> ELSE <<"&">>)
        \o UrlEncode(pairs[i][1], space) \o <<"=">> \o UrlEncode(pairs[i][2], space)])
=============================================================================
