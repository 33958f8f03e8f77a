----------------------------- MODULE LogMessage -----------------------------
(***************************************************************************)
(* LogMessage::toString() (logging/logmessage.cpp): the line of the log    *)
(* that is made of a message and of the variables its thread has set       *)
(* (Logger::set(), logging/logger.cpp).  A text is a sequence of words and *)
(* of variables in braces.                                                 *)
(***************************************************************************)
EXTENDS Naturals, Sequences, SequencesExt

Word(w) == [variable |-> FALSE, name |-> w]
Braces(name) == [variable |-> TRUE, name |-> name]

\* replace(): every occurrence; what it inserts is not searched.
Replaced(text, name, value) ==
    FlattenSeq([i \in DOMAIN text |-> IF text[i] = Braces(name) THEN value ELSE <<text[i]>>])

\* The variables every message has, in the order in which they are filled in;
\* {msg} is the first, so those in the message are filled in too.
BugMessageLast == <<"timestamp", "typeNr", "type", "file", "function", "line", "thread", "msg">>
BuiltIn == <<"msg", "timestamp", "typeNr", "type", "file", "function", "line", "thread">>

\* The variables of a thread: a function of their names.
Set(logVars, name, value) == [n \in DOMAIN logVars \cup {name} |-> IF n = name THEN value ELSE logVars[n]]
Cleared == [n \in {} |-> <<>>]

\* The constructor copies the variables of the thread; value is a function of
\* BuiltIn.
NewMessage(value, logVars) == [value |-> value, logVars |-> logVars]

\* The number of the thread is lost: QString::asprintf() is static, its result is
\* not used and the string that is filled in stays empty.
FilledIn(m, name) == IF name = "thread" THEN <<>> ELSE m.value[name]

\* keys is the order of the variables in the hash table.
Decorate(format, m, keys) ==
    LET own == FoldLeft(LAMBDA t, name : Replaced(t, name, FilledIn(m, name)), format, BuiltIn)
    IN  FoldLeft(LAMBDA t, key : Replaced(t, key, m.logVars[key]), own, keys)
=============================================================================
