-------------------------------- MODULE Page --------------------------------
(***************************************************************************)
(* What a template means: the documentation of Template (template.h:19-87) *)
(* as a semantics of nested elements, and the calls an application makes   *)
(* to fill a template in.                                                  *)
(***************************************************************************)
EXTENDS Template, FiniteSets

CONSTANTS
    Holds(_),       \* does the condition of this name hold?
    Times(_),       \* the repetitions of the loop of this name
    ValueOf(_)      \* the text of the variable of this name

\* The elements of a template; a part is a sequence of elements.
Plain(w) == [is |-> "text", name |-> w]
Variable(name) == [is |-> "var", name |-> name]
If(name, a, b) == [is |-> "if", name |-> name, part |-> a, other |-> b]
IfNot(name, a, b) == [is |-> "ifnot", name |-> name, part |-> a, other |-> b]
Repeat(name, a, b) == [is |-> "loop", name |-> name, part |-> a, other |-> b]

\* A condition or a loop whose end tag is missing.
Unclosed(kind, name, a) == [is |-> "unclosed", kind |-> kind, name |-> name, part |-> a, other |-> <<>>]

\* As it is written in the file; an else part that is empty is not written.
RECURSIVE Source(_)
Source(part) ==
    FlattenSeq([i \in DOMAIN part |->
        LET e == part[i] IN
        CASE e.is = "text" -> <<Words(e.name)>>
          [] e.is = "var" -> <<Var(e.name)>>
          [] e.is = "unclosed" -> <<Tag(e.kind, e.name)>> \o Source(e.part)
          [] OTHER -> <<Tag(e.is, e.name)>> \o Source(e.part)
                      \o (IF e.other = <<>> THEN <<>> ELSE <<Tag("else", e.name)>> \o Source(e.other))
                      \o <<Tag("end", e.name)>>])

\* The names in a part of the loop's i-th repetition: paths is what has been
\* numbered so far, pairs of a name and the numbered name that replaces it.
Actual(name, paths) ==
    LET fits == {p \in paths : IsStrictPrefix(p[1], name)}
        p == CHOOSE q \in fits : \A r \in fits : Len(r[1]) <= Len(q[1])
    IN  IF fits = {} THEN name ELSE p[2] \o SubSeq(name, Len(p[1]) + 1, Len(name))

\* The page, and the calls that fill it in: <<operation, name>>.  Of an end tag
\* that is missing there is a warning.
RECURSIVE Render(_, _)
Render(part, paths) ==
    FlattenSeq([i \in DOMAIN part |->
        LET e == part[i]
            name == IF e.is = "text" THEN <<>> ELSE Actual(e.name, paths)
        IN  CASE e.is = "text" -> <<Words(e.name)>>
              [] e.is = "var" -> ValueOf(name)
              [] e.is = "unclosed" -> <<Tag(e.kind, name)>> \o Render(e.part, paths)
              [] e.is = "if" -> Render(IF Holds(name) THEN e.part ELSE e.other, paths)
              [] e.is = "ifnot" -> Render(IF Holds(name) THEN e.other ELSE e.part, paths)
              [] e.is = "loop" ->
                   IF Times(name) = 0 THEN Render(e.other, paths)
                   ELSE FlattenSeq([k \in 1..Times(name) |->
                            Render(e.part, paths \cup {<<e.name, Numbered(name, k - 1)>>})])])

Setter(kind) == IF kind = "loop" THEN "loop" ELSE "setCondition"

RECURSIVE Calls(_, _)
Calls(part, paths) ==
    UNION {LET e == part[i]
               name == IF e.is = "text" THEN <<>> ELSE Actual(e.name, paths)
           IN  CASE e.is = "text" -> {}
                 [] e.is = "var" -> {<<"setVariable", name>>}
                 [] e.is = "unclosed" -> {<<Setter(e.kind), name>>} \cup Calls(e.part, paths)
                 [] e.is \in {"if", "ifnot"} ->
                      {<<"setCondition", name>>} \cup Calls(e.part, paths) \cup Calls(e.other, paths)
                 [] e.is = "loop" ->
                      {<<"loop", name>>} \cup Calls(e.other, paths)
                      \cup UNION {Calls(e.part, paths \cup {<<e.name, Numbered(name, k - 1)>>})
                                  : k \in 1..Times(name)}
           : i \in DOMAIN part}

\* A loop is repeated before anything with its numbered name is filled in.
Before(first, then) ==
    /\ first[1] = "loop"
    /\ \E k \in 1..Times(first[2]) : IsStrictPrefix(Numbered(first[2], k - 1), then[2])
=============================================================================
