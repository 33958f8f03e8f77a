------------------------------ MODULE WebText ------------------------------
(***************************************************************************)
(* The texts the server reads and writes: a template that is filled in by  *)
(* one call after the other, cookies that travel to a browser and back, a  *)
(* form that is submitted, a line of the log, the report of a shift.  A     *)
(* behaviour does one of it.                                               *)
(***************************************************************************)
EXTENDS Page, Parameters, LogMessage, ReportTables

CONSTANTS
    Templates,  \* parts of elements
    Cookies,    \* the cookies the application sets
    MaxCookies, \* bound: how many it sets
    Forms,      \* sequences of <<name, value>>
    Lines,      \* records of format, message, value and logVars
    Shifts      \* see ReportTables

VARIABLES
    task,       \* what the behaviour is about
    input,      \* the template, form, line or shift
    done,       \* the calls made, the cookies set, the way of the form or of the line
    text,       \* the template's text, the parameters, the line or the report
    jar,        \* the cookies the browser keeps
    written,    \* history: of each name, the cookie the application set last
    logVars     \* the log variables of the thread

vars == <<task, input, done, text, jar, written, logVars>>

Init ==
    /\ \/ task = "template" /\ input \in Templates /\ text = Source(input)
       \/ task = "cookies" /\ input = <<>> /\ text = <<>>
       \/ task = "form" /\ input \in Forms /\ text = <<>>
       \/ task = "line" /\ input \in Lines /\ text = <<>>
       \/ task = "report" /\ input \in Shifts /\ text = <<>>
    /\ done = {} /\ jar = <<>> /\ written = <<>>
    /\ logVars = IF task = "line" THEN input.logVars ELSE Cleared

-----------------------------------------------------------------------------
Apply(call) ==
    CASE call[1] = "setVariable" -> SetVariable(text, call[2], ValueOf(call[2]))
      [] call[1] = "setCondition" -> SetCondition(text, call[2], Holds(call[2]))
      [] call[1] = "loop" -> Loop(text, call[2], Times(call[2]))

\* The application calls a method of Template; a call that hangs is the last.
FillIn ==
    /\ task = "template" /\ text # Hung
    /\ LET calls == Calls(input, {}) IN
       \E call \in calls \ done :
         /\ \A c \in calls : Before(c, call) => c \in done
         /\ text' = Apply(call)
         /\ done' = done \cup {call}
    /\ UNCHANGED <<task, input, jar, written, logVars>>

\* A response with a cookie arrives at the browser.
SetCookie ==
    /\ task = "cookies" /\ Cardinality(done) < MaxCookies
    /\ \E c \in Cookies \ done :
         /\ done' = done \cup {c}
         /\ jar' = Stored(jar, ToByteArray(c))
         /\ written' = [n \in DOMAIN written \cup {c.name} |->
                            IF n = c.name THEN c ELSE written[n]]
    /\ UNCHANGED <<task, input, text, logVars>>

\* A form is submitted, the first n fields of it in the query of the path.
Submit ==
    /\ task = "form" /\ done = {}
    /\ \E n \in 0..Len(input), space \in {<<"+">>, <<"%", "2", "0">>} :
         /\ text' = DecodeRequestParams(EncodeForm(SubSeq(input, 1, n), space),
                                        EncodeForm(SubSeq(input, n + 1, Len(input)), space), TRUE)
         /\ done' = {<<n, space>>}
    /\ UNCHANGED <<task, input, jar, written, logVars>>

\* A thread logs a message, which is printed then or, from the buffer, later,
\* when its variables have changed; they come out of the hash table in some order.
Log ==
    /\ task = "line" /\ done = {}
    /\ text' = NewMessage(input.value, logVars)
    /\ done' = {"logged"}
    /\ UNCHANGED <<task, input, jar, written, logVars>>

ChangeVariables ==
    /\ task = "line" /\ done = {"logged"} /\ logVars = input.logVars
    /\ \/ \E name \in DOMAIN logVars : logVars' = Set(logVars, name, <<Word("later")>>)
       \/ logVars' = Cleared
    /\ UNCHANGED <<task, input, done, text, jar, written>>

PrintLine ==
    /\ task = "line" /\ done = {"logged"}
    /\ \E keys \in SetToAllKPermutations(DOMAIN text.logVars) :
         /\ Len(keys) = Cardinality(DOMAIN text.logVars)
         /\ text' = Decorate(input.format, text, keys)
    /\ done' = {"logged", "printed"}
    /\ UNCHANGED <<task, input, jar, written, logVars>>

\* The report of a shift is asked for.
Report ==
    /\ task = "report" /\ done = {}
    /\ text' = ShiftReport(input)
    /\ done' = {"report"}
    /\ UNCHANGED <<task, input, jar, written, logVars>>

Next == FillIn \/ SetCookie \/ Submit \/ Log \/ ChangeVariables \/ PrintLine \/ Report

Spec == Init /\ [][Next]_vars

-----------------------------------------------------------------------------
(***************************************************************************)
(* RenderedAsDocumented: whatever order the calls are made in (but a loop  *)
(* before what is numbered by it), the text is the page that template.h    *)
(* describes, unless a call hangs, and no call hangs but that for a        *)
(* condition or a loop whose end tag is missing (template.cpp:39-237).     *)
(***************************************************************************)
HangingCalls(part) ==
    {<<Setter(tag.kind), tag.name>> :
        tag \in {x \in Range(Source(part)) : /\ x.kind \in {"if", "ifnot", "loop"}
                                            /\ Tag("end", x.name) \notin Range(Source(part))}}

RenderedAsDocumented ==
    task = "template" =>
        /\ text = Hung => done \cap HangingCalls(input) # {}
        /\ done = Calls(input, {}) /\ text # Hung => text = Render(input, {})

\* CallsReturn: no call hangs at all; of an end tag that is missing there is only
\* a warning ("Template: missing condition end", template.cpp:102).
CallsReturn == task = "template" => text # Hung

(***************************************************************************)
(* CookiesComeBack: the application gets the cookies it has set, each with *)
(* the value it was given last, in whatever order the browser sends them,  *)
(* and every one that was last set to live for a while; and the            *)
(* constructor that parses a cookie gets back all of it but its two flags  *)
(* (httpcookie.cpp:30-131, 218-263, httprequest.cpp:259-289).              *)
(***************************************************************************)
CookiesComeBack ==
    task = "cookies" =>
        /\ \A order \in SetToAllKPermutations(DOMAIN jar) :
             Len(order) = Cardinality(DOMAIN jar) =>
                 LET read == ExtractCookies(CookieHeader(jar, order)) IN
                 /\ \A n \in DOMAIN read : n \in DOMAIN written /\ read[n] = written[n].value
                 /\ \A n \in DOMAIN written : written[n].maxAge # 0 => n \in DOMAIN read
        /\ \A c \in done, u \in BOOLEAN :
             \A field \in DOMAIN c \ {"secure", "httpOnly"} : ParseCookie(ToByteArray(c), u)[field] = c[field]

\* CookiesDiscarded: a browser does not keep a cookie that was set with a maxAge
\* of 0 ("0=discard immediately", httpcookie.h:31 and 71).
CookiesDiscarded == \A n \in DOMAIN written : written[n].maxAge = 0 => n \notin DOMAIN jar

\* SecureParsed: the constructor that parses a cookie reads the Secure that
\* toByteArray() has written ("HTTP cookie as defined in RFC 2109",
\* httpcookie.h:16; httpcookie.cpp:71-74).
SecureParsed ==
    task = "cookies" => \A c \in done, u \in BOOLEAN : ParseCookie(ToByteArray(c), u).secure = c.secure

(***************************************************************************)
(* ParametersComeBack: the parameters are the fields of the form, with all *)
(* their special characters, wherever the browser put them                 *)
(* (httprequest.cpp:213-257, 386-403).                                     *)
(***************************************************************************)
ParametersComeBack == task = "form" /\ done # {} => text = input

(***************************************************************************)
(* LinesDecorated: a line says nothing but what is in the format and in    *)
(* the values that the variables had when the message was logged ("later   *)
(* changes in the original do not affect the copy", logmessage.cpp:22).    *)
(* If the values that every message has name no variable, the message      *)
(* apart, and those of the thread's variables none of its others, the line *)
(* is the format and in it the message, with all their variables replaced  *)
(* by their values ("may be used in the message and in msgFormat",         *)
(* logmessage.h:20), whatever order the hash table has.  {thread} is left  *)
(* out: it becomes nothing.                                                *)
(***************************************************************************)
Valued(t, line) ==
    FlattenSeq([i \in DOMAIN t |->
        CASE t[i].variable /\ t[i].name \in DOMAIN line.value -> FilledIn(line, t[i].name)
          [] t[i].variable /\ t[i].name \in DOMAIN line.logVars -> line.logVars[t[i].name]
          [] OTHER -> <<t[i]>>])
Expanded(line) ==
    FlattenSeq([i \in DOMAIN line.format |->
        IF line.format[i] = Braces("msg") THEN Valued(line.value["msg"], [line EXCEPT !.value["msg"] = <<Braces("msg")>>])
        ELSE Valued(<<line.format[i]>>, line)])

Names(value) == {t.name : t \in {x \in Range(value) : x.variable}}
Settled(line) ==
    /\ \A n \in DOMAIN line.value \ {"msg"} : Names(line.value[n]) = {}
    /\ \A key \in DOMAIN line.logVars : Names(line.logVars[key]) \cap DOMAIN line.logVars \subseteq {key}
Said(line) ==
    Range(line.format) \cup UNION {Range(line.value[n]) : n \in DOMAIN line.value}
    \cup UNION {Range(line.logVars[n]) : n \in DOMAIN line.logVars}

LinesDecorated ==
    task = "line" /\ "printed" \in done =>
        /\ Range(text) \subseteq Said(input)
        /\ Settled(input) => text = Expanded(input)

\* ThreadNamed: a format with {thread} puts the number of the thread into the
\* line ("ID number of the thread", logmessage.h:25).
ThreadNamed ==
    task = "line" /\ "printed" \in done /\ Braces("thread") \in Range(input.format) =>
        Range(input.value["thread"]) \subseteq Range(text)

(***************************************************************************)
(* ReportAddsUp: the tables of a report agree with each other and with     *)
(* what was sold: a fuel's cell of a pay type, the sums under the cells    *)
(* and the table of that pay type, if the tanks of a fuel have one colour; *)
(* the kilograms of the pay types and what the tanks' books have lost by   *)
(* sales; what the measured tanks cannot explain is what the receipts, the *)
(* sales and the measures differ by; and every row has its tank's colour   *)
(* (shiftreports.cpp:180-255, 361-565).                                    *)
(***************************************************************************)
OneColor(shift) ==
    \A t, u \in DOMAIN shift.tanks : shift.tanks[t].fuel = shift.tanks[u].fuel => shift.tanks[t].color = shift.tanks[u].color
Given(shift, Test(_)) == Total(SelectSeq(shift.sales, Test), LAMBDA s : s.give)
\* What a cell says; a blank one anything that rounds to 0.
Says(cell, x) == IF cell.blank THEN x \in -50..49 ELSE cell.value = x /\ (cell.red <=> x < 0)
Html(col) == <<col % 256, (col \div 256) % 256, col \div 65536>>

SalesAgree(shift, r) ==
    \A p \in DOMAIN r.paytypes :
        LET all == Given(shift, LAMBDA s : s.paytype = r.paytypes[p]) IN
        /\ \A i \in DOMAIN r.counterSales.rows :
             Says(r.counterSales.rows[i].cells[p + 2],
                  Given(shift, LAMBDA s : s.paytype = r.paytypes[p] /\ Fuel(shift, s) = r.counterSales.rows[i].fuel))
        /\ Says(r.counterSales.summCount[p + 2], all)
        /\ Says(r.sales[p].give, all)
        /\ r.sales[p].count = Len(SelectSeq(shift.sales, LAMBDA s : s.paytype = r.paytypes[p]))
CountersAgree(shift, r) ==
    /\ Says(r.counterSales.summCount[1], Total(shift.counters, LAMBDA c : c.eTo - c.eFrom))
    /\ Says(r.counterSales.summCount[2], Total(shift.counters, LAMBDA c : c.spilled))
WeightsAgree(shift, r) ==
    (\A p \in DOMAIN r.sales : ~r.sales[p].weight.blank) =>
        MapThenSumSet(LAMBDA p : r.sales[p].weight.value, DOMAIN r.sales)
            = MapThenSumSet(LAMBDA t : shift.tanks[t].weightSub, DOMAIN shift.tanks)
TanksAgree(shift, r) ==
    /\ \A t \in DOMAIN r.fackt :
         Says(r.fackt[t].pogr, shift.tanks[t].measuredTo - shift.tanks[t].measuredFrom
                + Given(shift, LAMBDA s : s.tank = t)
                - Total(SelectSeq(shift.receipts, LAMBDA x : x.tank = t), LAMBDA x : x.real))
    /\ Says(r.incoming.realAmount, Total(shift.receipts, LAMBDA x : x.real))
    /\ \A t \in DOMAIN r.book : r.book[t].pogr = Blank
ColorsAgree(shift, r) ==
    /\ \A p \in DOMAIN r.sales : \A i \in DOMAIN r.sales[p].rows :
         r.sales[p].rows[i].color = Html(shift.tanks[r.sales[p].rows[i].tank].color)
    /\ \A t \in DOMAIN r.fackt : r.fackt[t].color = Html(shift.tanks[t].color) /\ r.book[t].color = r.fackt[t].color

ReportAddsUp ==
    task = "report" /\ done # {} =>
        /\ OneColor(input) => SalesAgree(input, text)
        /\ CountersAgree(input, text) /\ WeightsAgree(input, text)
        /\ TanksAgree(input, text) /\ ColorsAgree(input, text)
=============================================================================
