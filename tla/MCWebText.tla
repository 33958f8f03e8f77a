----------------------------- MODULE MCWebText -----------------------------
(* A small instance of WebText for TLC. *)
EXTENDS WebText

N(a) == <<<<a>>>>
user == N("user")
row == N("row")
column == row \o N("column")

\* The two examples of template.h.
Greeting == <<Plain(N("hello")), Variable(N("username")),
              If(N("locked"), <<Plain(N("no"))>>, <<Plain(N("yes"))>>),
              Repeat(user, <<Variable(user \o N("name")), Variable(user \o N("time"))>>, <<>>)>>
Table == <<Repeat(row,
             <<Plain(N("tr")),
               Repeat(column, <<Variable(column \o N("value"))>>, <<Variable(row \o N("empty"))>>)>>,
             <<>>)>>

\* A condition without and with an else part, its negation, one inside another,
\* one that contains a loop, one inside a loop.
Conditions == <<If(N("a"), <<Plain(N("1"))>>, <<>>),
                If(N("a"), <<If(N("b"), <<Plain(N("2"))>>, <<Plain(N("3"))>>)>>, <<Plain(N("4"))>>),
                IfNot(N("b"), <<Plain(N("5"))>>, <<Variable(N("username"))>>)>>
Loops == <<IfNot(N("b"), <<Repeat(user, <<IfNot(user \o N("new"), <<Plain(N("6"))>>,
                                              <<Variable(user \o N("name"))>>)>>, <<>>)>>, <<>>),
           Repeat(N("none"), <<Variable(N("none") \o N("x"))>>, <<Plain(N("7")), Variable(N("username"))>>),
           If(N("b"), <<Repeat(user, <<Variable(user \o N("name"))>>, <<>>)>>, <<>>)>>

\* End tags are missing; the last one in a part that is dropped.
Broken ==
    {<<Unclosed("if", N("a"), <<Variable(N("username"))>>), If(N("b"), <<Plain(N("1"))>>, <<>>)>>,
     <<Unclosed("ifnot", N("a"), <<Repeat(user, <<Variable(user \o N("name"))>>, <<>>)>>)>>,
     <<Variable(N("username")), Unclosed("loop", N("none"), <<Plain(N("2"))>>)>>,
     <<If(N("b"), <<Unclosed("if", N("c"), <<Plain(N("3"))>>)>>, <<Variable(N("username"))>>)>>}

AllTemplates == {Greeting, Table, Conditions, Loops} \cup Broken

\* Numbered names: every second one holds, the first row has two columns.
IsTrue(name) == name \in {N("a"), <<<<"user", 1>>, <<"new">>>>}
Repetitions(name) ==
    IF name \in {row, user, <<<<"row", 0>>, <<"column">>>>} THEN 2 ELSE 0
\* A value may contain the tag of its own variable.
Value(name) == IF name = N("username") THEN <<Words(N("me")), Var(name)>> ELSE <<Words(name)>>

SomeCookies ==
    {NewCookie(<<"id">>, <<"5", "=", "6">>, 60, <<"/">>, <<>>, <<>>, FALSE, TRUE),
     NewCookie(<<"id">>, <<>>, 0, <<>>, <<"a", " ", "b">>, <<"host">>, TRUE, FALSE),
     NewCookie(<<"lang">>, <<"de", " ", "en">>, 1, <<"/">>, <<>>, <<>>, TRUE, TRUE),
     NewCookie(<<"x">>, <<"=">>, 0, <<>>, <<>>, <<>>, FALSE, FALSE)}

Texts == {<<"2">>, <<"B", "+">>, <<"%", "2", "B">>, <<" ", "=">>, <<"&", "2">>, <<>>}
SomeForms == {<<<<<<"2">>, v>>>> : v \in Texts} \cup
             {<<<<n, v>>, <<<<"B">>, w>>>> : n \in Texts \ {<<>>}, v, w \in Texts}

Values ==
    [n \in Range(BuiltIn) |->
        IF n = "msg" THEN <<Word("saved"), Braces("user"), Braces("type"), Braces("msg"), Braces("other")>>
        ELSE <<Word(n)>>]
SomeLines ==
    {[format |-> f, value |-> Values, logVars |-> v] :
        f \in {<<Braces("timestamp"), Braces("type"), Word(":"), Braces("msg")>>,
               <<Braces("file"), Braces("line"), Braces("user"), Braces("thread"), Braces("msg")>>},
        v \in {[user |-> <<Word("u"), Braces("type")>>, task |-> <<Word("t"), Braces("task")>>],
               [user |-> <<Braces("user")>>],
               [user |-> <<Word("u"), Braces("task")>>, task |-> <<Word("t"), Braces("user")>>]}}
    \cup {[format |-> <<Braces("file"), Braces("msg")>>, logVars |-> [user |-> <<Word("u")>>],
           value |-> [Values EXCEPT !["file"] = <<Word("a"), Braces("type"), Braces("line"), Braces("user")>>]]}

\* Three tanks, two of them of one fuel; three sales from any tank with any pay
\* type, 0.40 litres among them; the books balance, the measures do not.
Sold(sales, t) == Total(SelectSeq(sales, LAMBDA s : s.tank = t), LAMBDA s : s.give)
Tank(t, sales, receipts, colors) ==
    LET sub == Sold(sales, t)
        addSub == Sold(SelectSeq(sales, LAMBDA s : s.paytype = 0), t)
        add == Total(SelectSeq(receipts, LAMBDA r : r.tank = t), LAMBDA r : r.real) + addSub
    IN  [fuel |-> IF t = 3 THEN 2 ELSE 1, color |-> colors[t],
         from |-> 90000, add |-> add, sub |-> sub, addSub |-> addSub, corr |-> 500 * t, to |-> 90000 + add - sub + 500 * t,
         measuredFrom |-> 90000, measuredTo |-> 80000, weightSub |-> ((sub - addSub) * 3) \div 4]
AShift(sales, receipts, colors) ==
    [tanks |-> [t \in 1..3 |-> Tank(t, sales, receipts, colors)],
     counters |-> [t \in 1..3 |-> [tank |-> t, eFrom |-> 700, eTo |-> 700 + Sold(sales, t), spilled |-> 100 * t]],
     sales |-> sales, receipts |-> receipts]
SomeShifts ==
    {AShift([i \in 1..3 |-> [tank |-> f[i][1], paytype |-> f[i][2], give |-> <<40, 2000, 1200>>[i],
                              summa |-> 5000 * i, discount |-> 700 * (i - 1)]], receipts, colors) :
        f \in [1..3 -> (1..3) \X (0..2)],
        receipts \in {<<>>, <<[tank |-> 1, doc |-> 30000, real |-> 29900, give |-> 40],
                              [tank |-> 3, doc |-> 20000, real |-> 20000, give |-> 0]>>},
        colors \in {<<255, 255, 65536 + 512>>, <<255, 256, 65536>>}}
=============================================================================
