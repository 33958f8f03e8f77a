----------------------------- MODULE FileLogger -----------------------------
(***************************************************************************)
(* FileLogger: prints to a file, flushes it and rotates it by a timer of   *)
(* the main thread, and reads the settings again by another (filelogger    *)
(* .cpp).  The program can be killed at any step and started again.        *)
(*                                                                         *)
(* The contents of a file are messages, its size is their number.  To open *)
(* a file, to write a message, to remove and to rename a file can fail;    *)
(* the flush of the timer, which does not look at errors, is left to work. *)
(***************************************************************************)
EXTENDS Logger, SequencesExt

CONSTANTS
    Name,           \* names of log files
    Settings,       \* what the configuration file says over time
    NoFile,         \* a file that does not exist
    MaxSize,        \* maxSize of the settings
    MaxBackups,     \* maxBackups of the settings, not 0 (unlimited)
    MaxRuns         \* bound: starts of the program

ASSUME SettingsAssumption == Settings \subseteq [fileName : Name, bufferSize : Nat]
ASSUME MaxSizeAssumption == MaxSize \in Nat \ {0}
ASSUME MaxBackupsAssumption == MaxBackups \in Nat \ {0}
ASSUME MaxRunsAssumption == MaxRuns \in Nat
ASSUME NoFileAssumption == NoFile \notin Seq(Message)

VARIABLES
    files,          \* on disk: the log file (index 0) and the backups of every name
    fileName,       \* setting
    open,           \* is the pointer file not null?
    pending,        \* the bytes in the buffer of the QFile
    count,          \* of rotate(): the backup it is at
    up,             \* is the program running?
    runs,           \* how often it was started (bounded by MaxRuns)
    gone,           \* history: messages printed to stderr, removed with their
                    \* backup, or in the buffer of the QFile when writing failed
    errors          \* history: errors whose msgHandler() has returned

history == <<gone, errors>>
fileVars == <<files, fileName, open, pending, count>>
vars == <<loggerVars, fileVars, up, runs, history>>

Index == 0..(MaxBackups + 1)

\* Every variable has its type; in particular a ring buffer never has more
\* messages than the largest bufferSize there has been (logger.cpp:171).
TypeOK ==
    /\ LoggerTypeOK
    /\ \A t \in Thread : buffers[t] = <<>> \/ \E s \in Settings : Len(buffers[t]) <= s.bufferSize
    /\ DOMAIN files = Name /\ \A n \in Name : DOMAIN files[n] = Index
    /\ \A n \in Name, i \in Index : files[n][i] = NoFile \/ files[n][i] \in Seq(Message)
    /\ fileName \in Name /\ open \in BOOLEAN /\ pending \in Seq(Message)
    /\ ~open => pending = <<>>
    /\ count \in Index /\ up \in BOOLEAN /\ runs \in 0..MaxRuns
    /\ gone \cup errors \subseteq Message

\* The program has not been started yet.
Init ==
    /\ LoggerInit
    /\ files = [n \in Name |-> [i \in Index |-> NoFile]]
    /\ fileName \in Name
    /\ open = FALSE /\ pending = <<>> /\ count = 0
    /\ up = FALSE /\ runs = 0
    /\ gone = {} /\ errors = {}

Blocked(t) == pc[t] = "log" /\ mutex = t

-----------------------------------------------------------------------------
(* The file. *)

Flushed(f) == [f EXCEPT ![fileName][0] = IF open THEN @ \o pending ELSE @]
Created(f, n) == [f EXCEPT ![n][0] = IF @ = NoFile THEN <<>> ELSE @]

\* QFile::rename() never replaces a file.
Renamed(f, i, j) ==
    IF f[fileName][i] # NoFile /\ f[fileName][j] = NoFile
    THEN [f EXCEPT ![fileName][j] = f[fileName][i], ![fileName][i] = NoFile]
    ELSE f

-----------------------------------------------------------------------------
(* write() *)

\* "Flush error messages immediately": INFO is the highest type.
BugUrgentAbove(m) == LevelOf(m) > Critical
Urgent(m) == LevelOf(m) >= Critical

Printing(t) == pc[t] = "print" /\ queue[t] # <<>>

WriteToFile(t) ==
    /\ Printing(t) /\ open
    /\ LET m == Head(queue[t]) IN
         IF Urgent(m)
         THEN files' = [files EXCEPT ![fileName][0] = @ \o Append(pending, m)] /\ pending' = <<>>
         ELSE pending' = Append(pending, m) /\ UNCHANGED files
    /\ queue' = [queue EXCEPT ![t] = Tail(@)]
    /\ UNCHANGED <<logged, bufferSize, pc, current, buffers, locks, fileName, open, count, up, runs, history>>

\* Nothing gets to the disk, and write() warns of it ...
WriteFails(t) ==
    /\ Printing(t) /\ open
    /\ gone' = gone \cup ToSet(pending) /\ pending' = <<>>
    /\ Goto(t, "warn")
    /\ UNCHANGED <<logged, bufferSize, current, buffers, queue, locks, files, fileName, open, count,
                   up, runs, errors>>

\* ... inside of msgHandler(), so the warning goes to stderr; then it closes
\* the file.
WarnOnStderr(t) ==
    /\ pc[t] = "warn" /\ recursive = t /\ ~TryLock
    /\ open' = FALSE
    /\ Goto(t, "print")
    /\ UNCHANGED <<logged, bufferSize, current, buffers, queue, locks, files, fileName, pending, count,
                   up, runs, history>>

WriteToStderr(t) ==
    /\ Printing(t) /\ ~open
    /\ gone' = gone \cup {Head(queue[t])}
    /\ queue' = [queue EXCEPT ![t] = Tail(@)]
    /\ UNCHANGED <<logged, bufferSize, pc, current, buffers, locks, fileVars, up, runs, errors>>

-----------------------------------------------------------------------------
(* The program ends, and with it what was only in memory. *)

Stop ==
    /\ up' = FALSE /\ open' = FALSE /\ pending' = <<>> /\ count' = 0
    /\ ThreadsReset
    /\ UNCHANGED <<logged, bufferSize, files, fileName, runs>>

\* abort() after a fatal message; otherwise msgHandler() returns.
Return(t) ==
    /\ pc[t] = "print" /\ queue[t] = <<>>
    /\ errors' = errors \cup {m \in {current[t]} : LevelOf(m) >= Critical /\ Triggers(m)}
    /\ \/ LevelOf(current[t]) = Fatal /\ Stop
       \/ LevelOf(current[t]) # Fatal /\ LogReturns(t) /\ UNCHANGED <<fileVars, up, runs>>
    /\ UNCHANGED gone

Kill == up /\ Stop /\ UNCHANGED history

\* The constructor opens the file before the message handler is installed.
Start ==
    /\ ~up /\ runs < MaxRuns
    /\ up' = TRUE /\ runs' = runs + 1
    /\ \E s \in Settings :
        /\ bufferSize' = s.bufferSize /\ fileName' = s.fileName
        /\ \/ open' = TRUE /\ files' = Created(files, s.fileName)
           \/ open' = FALSE /\ UNCHANGED files
    /\ UNCHANGED <<logged, pc, current, buffers, queue, locks, pending, count, history>>

-----------------------------------------------------------------------------
(* The timers, in the main thread. *)

MainIdle == up /\ pc[Main] = "idle"

\* refreshSettings(): when the name has changed, the old file is closed and the
\* new one opened; open() warns with the mutex held.
SwitchTo(n) ==
    /\ fileName' = n /\ pending' = <<>>
    /\ \/ open' = TRUE /\ files' = Created(Flushed(files), n) /\ UNCHANGED <<mutex, pc>>
       \/ open' = FALSE /\ files' = Flushed(files) /\ mutex' = Main /\ Goto(Main, "warn")
    /\ UNCHANGED count

Refresh ==
    /\ MainIdle /\ mutex = NoOwner
    /\ \E s \in Settings :
        /\ bufferSize' = s.bufferSize
        /\ \/ s.fileName = fileName /\ UNCHANGED <<fileVars, mutex, pc>>
           \/ s.fileName # fileName /\ SwitchTo(s.fileName)
    /\ UNCHANGED <<logged, current, buffers, queue, recursive, nonRecursive, up, runs, history>>

\* timerEvent() looks at the pointer before it takes the mutex.
FlushTimer ==
    /\ MainIdle /\ open
    /\ Goto(Main, "flush")
    /\ UNCHANGED <<logged, bufferSize, current, buffers, queue, locks, fileVars, up, runs, history>>

\* rotate() counts the backups without a gap.
Backups == CHOOSE k \in 0..MaxBackups :
    /\ \A i \in 1..k : files[fileName][i] # NoFile
    /\ files[fileName][k + 1] = NoFile

BugNeverTooLarge == FALSE
TooLarge == Len(Flushed(files)[fileName][0]) >= MaxSize

FlushFile ==
    /\ pc[Main] = "flush" /\ mutex = NoOwner /\ open
    /\ files' = Flushed(files) /\ pending' = <<>>
    /\ \/ TooLarge /\ open' = FALSE /\ count' = Backups /\ mutex' = Main /\ Goto(Main, "rotate")
       \/ ~TooLarge /\ Goto(Main, "idle") /\ UNCHANGED <<open, count, mutex>>
    /\ UNCHANGED <<logged, bufferSize, current, buffers, queue, recursive, nonRecursive, fileName,
                   up, runs, history>>

\* Another thread has closed the file meanwhile: a null pointer is used.
FlushNull ==
    /\ pc[Main] = "flush" /\ mutex = NoOwner /\ ~open
    /\ Stop /\ UNCHANGED history

BugTooManyLater == count > MaxBackups
TooMany == count >= MaxBackups

RemoveBackup ==
    /\ pc[Main] = "rotate" /\ TooMany
    /\ \/ /\ files' = [files EXCEPT ![fileName][count] = NoFile]
          /\ gone' = gone \cup ToSet(files[fileName][count])
       \/ UNCHANGED <<files, gone>>
    /\ count' = count - 1
    /\ UNCHANGED <<loggerVars, fileName, open, pending, up, runs, errors>>

ShiftBackup ==
    /\ pc[Main] = "rotate" /\ ~TooMany /\ count > 0
    /\ files' \in {files, Renamed(files, count, count + 1)}
    /\ count' = count - 1
    /\ UNCHANGED <<loggerVars, fileName, open, pending, up, runs, history>>

BackupFile ==
    /\ pc[Main] = "rotate" /\ count = 0
    /\ files' \in {files, Renamed(files, 0, 1)}
    /\ Goto(Main, "reopen")
    /\ UNCHANGED <<logged, bufferSize, current, buffers, queue, locks, fileName, open, pending, count,
                   up, runs, history>>

Reopen ==
    /\ pc[Main] = "reopen"
    /\ \/ /\ files' = Created(files, fileName) /\ open' = TRUE
          /\ mutex' = NoOwner /\ Goto(Main, "idle")
       \/ Goto(Main, "warn") /\ UNCHANGED <<files, open, mutex>>
    /\ UNCHANGED <<logged, bufferSize, current, buffers, queue, recursive, nonRecursive, fileName,
                   pending, count, up, runs, history>>

-----------------------------------------------------------------------------
Handler(t) ==
    \/ (Enter(t) \/ Log(t)) /\ UNCHANGED <<fileVars, up, runs, history>>
    \/ WriteToFile(t) \/ WriteFails(t) \/ WarnOnStderr(t) \/ WriteToStderr(t) \/ Return(t)

Timer == FlushTimer \/ FlushFile \/ FlushNull \/ RemoveBackup \/ ShiftBackup \/ BackupFile \/ Reopen

Callers ==
    /\ up
    /\ \E t \in Thread : Clear(t) \/ \E l \in Level[t] : Call(t, l, runs)
    /\ UNCHANGED <<fileVars, up, runs, history>>

Next == Callers \/ (\E t \in Thread : Handler(t)) \/ Timer \/ Refresh \/ Kill \/ Start

Spec == Init /\ [][Next]_vars

\* The threads keep running; a mutex that is free again and again is got.
Fairness == SF_vars(Timer) /\ \A t \in Thread : SF_vars(Handler(t))

FairSpec == Spec /\ Fairness

-----------------------------------------------------------------------------
(* Properties. *)

\* "maxBackups defines the number of backup files to keep" (filelogger.h:41),
\* also when files cannot be renamed or removed, and between two steps of a
\* rotation.
BackupsWithinLimit == \A n \in Name : files[n][MaxBackups + 1] = NoFile

Contents(n, i) == IF files[n][i] = NoFile THEN <<>> ELSE files[n][i]

\* What is read of the file or of a backup, with what is on its way to it.
Text(n, i) == Contents(n, i) \o IF i = 0 /\ n = fileName THEN pending ELSE <<>>

\* Was m logged after k by the same thread?  Only a message logged while the
\* buffer was disabled can overtake an older one.
Precedes(k, m) == messages[k].thread = messages[m].thread => k < m \/ messages[k].direct

\* The messages of a thread are read in the order in which they were logged, the
\* oldest backup first, the file last, whatever was rotated, and wherever a
\* rotation was interrupted (filelogger.cpp:134-171).
MessagesInOrder ==
    \A n \in Name : \A i, j \in Index : \A x \in DOMAIN Text(n, i), y \in DOMAIN Text(n, j) :
        i > j \/ (i = j /\ x < y) => Precedes(Text(n, i)[x], Text(n, j)[y])

OnDisk(m) == \E n \in Name, i \in Index : m \in ToSet(Contents(n, i))
Kept(m) == OnDisk(m) \/ m \in gone

\* "Flush error messages immediately, to ensure that no important message gets
\* lost" (filelogger.cpp:87): once the call that logged an error has returned,
\* neither the error nor the messages of the same thread that were buffered
\* before it are lost with the program.
ErrorsSurvive ==
    \A m \in errors :
        /\ Kept(m)
        /\ ~messages[m].direct =>
            \A k \in 1..m :
                \/ messages[k].thread # messages[m].thread \/ messages[k].run # messages[m].run
                \/ messages[k].direct \/ k \in dropped
                \/ Kept(k)

\* The only messages that block the logger are its own warnings from open(),
\* which it logs while it holds its mutex.
WarnsUnderMutex ==
    \/ mutex = Main /\ nonRecursive # Main /\ pc[Main] = "warn"
    \/ Blocked(Main)

\* A file that has grown too large is rotated or closed, as long as the settings
\* do not name another file (the timer's rotate()).
FileIsRotated ==
    \A n \in Name :
        (open /\ fileName = n /\ Len(Contents(n, 0) \o pending) >= MaxSize)
            ~> (~open \/ fileName # n \/ WarnsUnderMutex)

-----------------------------------------------------------------------------
(***************************************************************************)
(* The inductive invariant behind the safety properties: FileLogger_proofs *)
(* proves it for every number of threads, messages, backups and runs.      *)
(***************************************************************************)
Logged == 1..Len(messages)

\* Inside of msgHandler(), which has both of its mutexes.
InHandler(t) == pc[t] \in {"log", "print"} \/ (pc[t] = "warn" /\ current[t] # 0)

\* Where a thread is says which mutexes it has and what it holds.
ThreadOK(t) ==
    /\ (recursive = t <=> InHandler(t)) /\ (nonRecursive = t <=> InHandler(t))
    /\ pc[t] \in {"print", "warn", "rotate", "reopen"} => mutex = t
    /\ pc[t] \in {"flush", "rotate", "reopen"} => t = Main
    /\ pc[t] \in {"rotate", "reopen"} => ~open
    /\ pc[t] = "warn" => pending = <<>>
    /\ pc[t] = "rotate" => count <= MaxBackups /\ \A i \in 1..count : files[fileName][i] # NoFile
    /\ pc[t] \in {"idle", "flush", "rotate", "reopen"} => current[t] = 0
    /\ pc[t] \in {"enter", "print"} => current[t] # 0
    /\ pc[t] = "log" => current[t] # 0 \/ mutex = t
    /\ queue[t] # <<>> => pc[t] \in {"print", "warn"} /\ current[t] # 0
    /\ current[t] # 0 =>
        /\ current[t] \in Logged /\ messages[current[t]].thread = t
        /\ messages[current[t]].run = runs

ProgramOK ==
    /\ ~up => ~open /\ \A t \in Thread : pc[t] = "idle" /\ buffers[t] = <<>>
    /\ up => \E s \in Settings : bufferSize = s.bufferSize
    /\ open => files[fileName][0] # NoFile
    /\ \A k \in Logged : messages[k].run <= runs

\* A message has been given to msgHandler(), and log() has not got it yet.
Entering(t) == pc[t] \in {"enter", "log"} /\ current[t] # 0

\* A thread holds a message that has not been printed or dropped yet.
Held(k, t) == k \in ToSet(queue[t]) \/ k \in ToSet(buffers[t]) \/ (Entering(t) /\ k = current[t])

\* Nothing is lost but with the program: where a message of this run is.
Accounted ==
    up => \A k \in Logged, t \in Thread : messages[k].thread = t /\ messages[k].run = runs =>
        messages[k].direct \/ k \in dropped \/ Kept(k) \/ k \in ToSet(pending) \/ Held(k, t)

\* An error is the last that its call prints, and takes the buffer of the file
\* to the disk with it.
ErrorIsLast(t) ==
    pc[t] \in {"print", "warn"} /\ current[t] # 0 /\ Urgent(current[t]) /\ Triggers(current[t]) =>
        /\ messages[current[t]].direct \/ buffers[t] = <<>>
        /\ \/ queue[t] # <<>> /\ Last(queue[t]) = current[t]
           \/ queue[t] = <<>> /\ pending = <<>> /\ Kept(current[t])

\* A thread holds messages of its own, in their order.
Own(t, s) ==
    \A x \in DOMAIN s :
        /\ s[x] \in Logged /\ messages[s[x]].thread = t
        /\ \A y \in 1..(x - 1) : s[y] < s[x]

\* What is written has been logged before what is not.
Written(k) == OnDisk(k) \/ k \in ToSet(pending)

MemoryOK(t) ==
    /\ Own(t, queue[t]) /\ Own(t, buffers[t])
    /\ \A k \in ToSet(buffers[t]) :
        /\ \A m \in ToSet(queue[t]) : Precedes(m, k)
        /\ Entering(t) => k < current[t]
    /\ \A k \in Logged : Written(k) =>
        /\ \A m \in ToSet(queue[t]) \cup ToSet(buffers[t]) : Precedes(k, m)
        /\ Entering(t) => Precedes(k, current[t])

WrittenLogged == \A k \in Message : Written(k) => k \in Logged

\* Three layers, each of which rests on the one before.
StepsOK == TypeOK /\ ProgramOK /\ BackupsWithinLimit /\ \A t \in Thread : ThreadOK(t)
OrderOK == WrittenLogged /\ MessagesInOrder /\ \A t \in Thread : MemoryOK(t)
ErrorsOK ==
    /\ Accounted /\ \A t \in Thread : ErrorIsLast(t)
    /\ errors \subseteq Logged /\ ErrorsSurvive

IndInv == StepsOK /\ OrderOK /\ ErrorsOK

-----------------------------------------------------------------------------
(* What the documentation says and the code does not do. *)

\* "But allow recursive calls, which is required to prevent a deadlock if the
\* logger itself produces an error message." (logger.cpp:50-51)
NoSelfDeadlock == \A t \in Thread : ~Blocked(t)
=============================================================================
