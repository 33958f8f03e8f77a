------------------------------ MODULE Template ------------------------------
(***************************************************************************)
(* Template: a text with tags, which setVariable(), setCondition() and     *)
(* loop() rewrite in place (templateengine/template.cpp).                  *)
(*                                                                         *)
(* A text is a sequence of tokens: plain text, or one of the tags {name},  *)
(* {if name}, {ifnot name}, {else name}, {end name} and {loop name}.  A    *)
(* name such as row0.column.value is a sequence of segments, and a segment *)
(* is <<"column">> or, once loop() has numbered it, <<"row", 0>>.          *)
(***************************************************************************)
EXTENDS Naturals, Sequences, SequencesExt

Tag(kind, name) == [kind |-> kind, name |-> name]
Words(w) == [kind |-> "text", name |-> w]
Var(name) == Tag("var", name)

\* What stands for the text when the call never returns.
Hung == <<Tag("hung", <<>>)>>

\* indexOf(): where the tag is at or after from, 0 if nowhere.
IndexOf(text, tag, from) ==
    LET at == {i \in from..Len(text) : text[i] = tag}
    IN  IF at = {} THEN 0 ELSE CHOOSE i \in at : \A j \in at : i <= j

\* setVariable(): the value is not searched for the variable again.
SetVariable(text, name, value) ==
    FlattenSeq([i \in DOMAIN text |-> IF text[i] = Var(name) THEN value ELSE <<text[i]>>])

-----------------------------------------------------------------------------
(* {start name}...{else name}...{end name}, with or without the else part. *)

BugAnyElse(end, ellse) == ellse > 0
HasElse(end, ellse) == ellse > 0 /\ ellse < end

\* What the first tag of that kind encloses is replaced by New(its first part,
\* its else part).  When the end tag is missing, the code only warns and searches
\* from the same place again.
ResolveFirst(text, kind, name, New(_, _)) ==
    LET start == IndexOf(text, Tag(kind, name), 1)
        end == IndexOf(text, Tag("end", name), start + 1)
        ellse == IndexOf(text, Tag("else", name), start + 1)
        first == SubSeq(text, start + 1, (IF HasElse(end, ellse) THEN ellse ELSE end) - 1)
        other == IF HasElse(end, ellse) THEN SubSeq(text, ellse + 1, end - 1) ELSE <<>>
    IN  IF text = Hung \/ start = 0 THEN text
        ELSE IF end = 0 THEN Hung
        ELSE SubSeq(text, 1, start - 1) \o New(first, other) \o SubSeq(text, end + 1, Len(text))

\* Each replacement removes a start tag at least, so Len(text) of them do.
ResolveAll(text, kind, name, New(_, _)) ==
    FoldLeft(LAMBDA t, i : ResolveFirst(t, kind, name, New), text, [i \in 1..Len(text) |-> i])

\* setCondition(): all {if name} first, then all {ifnot name}.
SetCondition(text, name, value) ==
    LET ifs == ResolveAll(text, "if", name, LAMBDA a, b : IF value THEN a ELSE b)
    IN  IF ifs = Hung THEN Hung
        ELSE ResolveAll(ifs, "ifnot", name, LAMBDA a, b : IF value THEN b ELSE a)

\* name is followed by a number.
Numbered(name, i) == Front(name) \o <<Last(name) \o <<i>>>>

\* In every tag whose name begins with "name.", that is replaced by "name<i>.".
NumberTags(part, name, i) ==
    [k \in DOMAIN part |->
        IF part[k].kind # "text" /\ IsStrictPrefix(name, part[k].name)
        THEN Tag(part[k].kind,
                 Numbered(name, i) \o SubSeq(part[k].name, Len(name) + 1, Len(part[k].name)))
        ELSE part[k]]

\* loop()
Loop(text, name, repetitions) ==
    ResolveAll(text, "loop", name, LAMBDA a, b :
        IF repetitions = 0 THEN b
        ELSE FlattenSeq([i \in 1..repetitions |-> NumberTags(a, name, i - 1)]))
=============================================================================
