------------------------------- MODULE Logger -------------------------------
(***************************************************************************)
(* Logger: every qDebug(), qWarning() ... of every thread goes through     *)
(* msgHandler(), which lets one thread at a time into log(); a message of  *)
(* the logger itself is told from the others by a second mutex and goes to *)
(* stderr.  log() keeps a ring buffer per thread and prints it when a      *)
(* message is grave enough (logger.cpp).                                   *)
(*                                                                         *)
(* Where the messages are printed is the matter of FileLogger, which       *)
(* extends this module.  A message is the number of its call.              *)
(***************************************************************************)
EXTENDS Naturals, Sequences

CONSTANTS
    Worker,         \* the threads of the connection handlers
    Main,           \* the main thread, which also has the logger's timers
    NoOwner,        \* of a mutex that is free
    Level,          \* the types of the messages a thread logs
    MinLevel,       \* minLevel of the settings
    MaxMessages     \* bound: messages that are logged

Thread == Worker \cup {Main}

ASSUME ThreadAssumption == Main \notin Worker /\ NoOwner \notin Thread
ASSUME LevelAssumption == Level \in [Thread -> SUBSET (0..4)] /\ MinLevel \in 0..3
ASSUME MaxMessagesAssumption == MaxMessages \in Nat

\* QtMsgType; warnings are 1.
Debug == 0
Critical == 2
Fatal == 3
Info == 4

VARIABLES
    messages,       \* the calls of msgHandler(): thread, level, run of the
                    \* program, and whether the buffer was disabled
    dropped,        \* history: messages deleted from the ring buffers
    bufferSize,     \* setting; 0 disables the buffers
    pc,             \* where a thread is
    current,        \* the message it logs
    buffers,        \* its ring buffer
    queue,          \* what its log() has yet to print
    recursive,      \* the owner of msgHandler()'s recursiveMutex,
    nonRecursive,   \* of its nonRecursiveMutex
    mutex           \* and of Logger::mutex, which is not recursive

logged == <<messages, dropped>>
locks == <<recursive, nonRecursive, mutex>>
loggerVars == <<logged, bufferSize, pc, current, buffers, queue, locks>>

PC == {"idle", "enter", "log", "print", "warn", "flush", "rotate", "reopen"}
Message == 1..MaxMessages

LoggerTypeOK ==
    /\ messages \in Seq([thread : Thread, level : 0..4, run : Nat, direct : BOOLEAN])
    /\ Len(messages) <= MaxMessages
    /\ dropped \subseteq Message
    /\ bufferSize \in Nat
    /\ pc \in [Thread -> PC] /\ current \in [Thread -> 0..MaxMessages]
    /\ buffers \in [Thread -> Seq(Message)] /\ queue \in [Thread -> Seq(Message)]
    /\ {recursive, nonRecursive, mutex} \subseteq Thread \cup {NoOwner}

\* The threads of a program that has just started or ended.
ThreadsReset ==
    /\ pc' = [t \in Thread |-> "idle"] /\ current' = [t \in Thread |-> 0]
    /\ buffers' = [t \in Thread |-> <<>>] /\ queue' = [t \in Thread |-> <<>>]
    /\ recursive' = NoOwner /\ nonRecursive' = NoOwner /\ mutex' = NoOwner

LoggerInit ==
    /\ messages = <<>> /\ dropped = {}
    /\ bufferSize = 0
    /\ pc = [t \in Thread |-> "idle"] /\ current = [t \in Thread |-> 0]
    /\ buffers = [t \in Thread |-> <<>>] /\ queue = [t \in Thread |-> <<>>]
    /\ recursive = NoOwner /\ nonRecursive = NoOwner /\ mutex = NoOwner

Goto(t, l) == pc' = [pc EXCEPT ![t] = l]
LevelOf(m) == messages[m].level

-----------------------------------------------------------------------------
(* msgHandler() *)

Call(t, level, run) ==
    /\ pc[t] = "idle" /\ Len(messages) < MaxMessages
    /\ messages' = Append(messages,
                          [thread |-> t, level |-> level, run |-> run, direct |-> FALSE])
    /\ current' = [current EXCEPT ![t] = Len(messages) + 1]
    /\ Goto(t, "enter")
    /\ UNCHANGED <<dropped, bufferSize, buffers, queue, locks>>

TryLock == nonRecursive = NoOwner

\* The logger's own warnings come this way, too: from open(), outside of
\* msgHandler(), they get into log().
Enter(t) ==
    /\ pc[t] \in {"enter", "warn"} /\ recursive \in {NoOwner, t}
    /\ TryLock
    /\ recursive' = t /\ nonRecursive' = t
    /\ Goto(t, "log")
    /\ UNCHANGED <<logged, bufferSize, current, buffers, queue, mutex>>

-----------------------------------------------------------------------------
(* log() *)

\* INFO messages count as DEBUG here ...
Triggers(m) == (IF LevelOf(m) = Info THEN Debug ELSE LevelOf(m)) >= MinLevel
\* ... but not if the buffer is disabled.
Printed(m) == LevelOf(m) >= MinLevel

BugDropNothing(b) == b
DropOldest(b) == Tail(b)

BugNewestFirst(t) == <<current[t]>> \o buffers[t]
Appended(t) == Append(buffers[t], current[t])

LogBuffered(t) ==
    LET filled == Appended(t)
        full == Len(filled) > bufferSize
        kept == IF full THEN DropOldest(filled) ELSE filled
    IN  /\ bufferSize > 0
        /\ dropped' = IF full THEN dropped \cup {Head(filled)} ELSE dropped
        /\ IF Triggers(current[t])
           THEN /\ buffers' = [buffers EXCEPT ![t] = <<>>]
                /\ queue' = [queue EXCEPT ![t] = kept]
           ELSE buffers' = [buffers EXCEPT ![t] = kept] /\ UNCHANGED queue
        /\ UNCHANGED messages

LogDirectly(t) ==
    /\ bufferSize = 0
    /\ queue' = [queue EXCEPT ![t] = IF Printed(current[t]) THEN <<current[t]>> ELSE <<>>]
    /\ messages' = [messages EXCEPT ![current[t]].direct = TRUE]
    /\ UNCHANGED <<dropped, buffers>>

Log(t) ==
    /\ pc[t] = "log" /\ mutex = NoOwner
    /\ mutex' = t
    /\ LogBuffered(t) \/ LogDirectly(t)
    /\ Goto(t, "print")
    /\ UNCHANGED <<bufferSize, current, recursive, nonRecursive>>

\* The buffer is printed: back to the caller.
LogReturns(t) ==
    /\ pc[t] = "print" /\ queue[t] = <<>>
    /\ recursive' = NoOwner /\ nonRecursive' = NoOwner /\ mutex' = NoOwner
    /\ current' = [current EXCEPT ![t] = 0]
    /\ Goto(t, "idle")
    /\ UNCHANGED <<logged, bufferSize, buffers, queue>>

\* clear(): a thread forgets what it has buffered.
Clear(t) ==
    /\ pc[t] = "idle" /\ mutex = NoOwner /\ buffers[t] # <<>>
    /\ dropped' = dropped \cup {buffers[t][i] : i \in DOMAIN buffers[t]}
    /\ buffers' = [buffers EXCEPT ![t] = <<>>]
    /\ UNCHANGED <<messages, bufferSize, pc, current, queue, locks>>
=============================================================================
