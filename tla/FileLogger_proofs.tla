--------------------------- MODULE FileLogger_proofs ---------------------------
(***************************************************************************)
(* Proofs that the logger and its files keep IndInv for any number of      *)
(* threads, messages, backups and runs, and that the safety properties of  *)
(* FileLogger follow from it.                                              *)
(***************************************************************************)
EXTENDS FileLogger, SequenceTheorems, WellFoundedInduction, TLAPS

-----------------------------------------------------------------------------
(* Types. *)

Record == [thread : Thread, level : 0..4, run : Nat, direct : BOOLEAN]

\* The facts of TypeOK that most steps need.
LEMMA Types ==
  ASSUME TypeOK
  PROVE  /\ messages \in Seq(Record) /\ Len(messages) \in Nat /\ Len(messages) <= MaxMessages
         /\ DOMAIN messages = Logged /\ Logged \subseteq Message /\ Message \subseteq Nat
         /\ pc \in [Thread -> PC] /\ current \in [Thread -> 0..MaxMessages]
         /\ buffers \in [Thread -> Seq(Message)] /\ queue \in [Thread -> Seq(Message)]
         /\ pending \in Seq(Message) /\ fileName \in Name /\ bufferSize \in Nat
         /\ \A n \in Name, i \in Index : Contents(n, i) \in Seq(Message)
         /\ NoOwner \notin Thread /\ Main \in Thread /\ runs \in Nat /\ runs <= MaxRuns
  <1>1. /\ messages \in Seq(Record) /\ Len(messages) <= MaxMessages
        /\ pc \in [Thread -> PC] /\ current \in [Thread -> 0..MaxMessages]
        /\ buffers \in [Thread -> Seq(Message)] /\ queue \in [Thread -> Seq(Message)]
        /\ pending \in Seq(Message) /\ fileName \in Name /\ bufferSize \in Nat
        /\ \A n \in Name, i \in Index : files[n][i] = NoFile \/ files[n][i] \in Seq(Message)
    BY DEF TypeOK, LoggerTypeOK, Record
  <1>2. Len(messages) \in Nat /\ DOMAIN messages = 1..Len(messages)
    BY <1>1, LenProperties
  <1>3. \A n \in Name, i \in Index : Contents(n, i) \in Seq(Message)
    BY <1>1, EmptySeq DEF Contents
  <1> QED
    BY <1>1, <1>2, <1>3, ThreadAssumption, MaxMessagesAssumption, MaxRunsAssumption
    DEF Logged, Message, Thread, TypeOK

-----------------------------------------------------------------------------
(* The first layer: types, mutexes and backups. *)

\* TypeOK in the parts that steps change separately.
MemoryTyped ==
    /\ messages \in Seq(Record) /\ Len(messages) <= MaxMessages /\ dropped \subseteq Message
    /\ current \in [Thread -> 0..MaxMessages]
    /\ buffers \in [Thread -> Seq(Message)] /\ queue \in [Thread -> Seq(Message)]
    /\ \A t \in Thread : buffers[t] = <<>> \/ \E s \in Settings : Len(buffers[t]) <= s.bufferSize

FilesTyped ==
    /\ DOMAIN files = Name /\ \A n \in Name : DOMAIN files[n] = Index
    /\ \A n \in Name, i \in Index : files[n][i] = NoFile \/ files[n][i] \in Seq(Message)
    /\ pending \in Seq(Message) /\ (~open => pending = <<>>)

ControlTyped ==
    /\ bufferSize \in Nat /\ pc \in [Thread -> PC]
    /\ {recursive, nonRecursive, mutex} \subseteq Thread \cup {NoOwner}
    /\ fileName \in Name /\ open \in BOOLEAN /\ count \in Index
    /\ up \in BOOLEAN /\ runs \in 0..MaxRuns
    /\ gone \subseteq Message /\ errors \subseteq Message

LEMMA TypeParts == TypeOK <=> MemoryTyped /\ FilesTyped /\ ControlTyped
  BY DEF TypeOK, LoggerTypeOK, MemoryTyped, FilesTyped, ControlTyped, Record

LEMMA TypePartsPrimed == TypeOK' <=> MemoryTyped' /\ FilesTyped' /\ ControlTyped'
  BY DEF TypeOK, LoggerTypeOK, MemoryTyped, FilesTyped, ControlTyped, Record

LEMMA CallSteps ==
  ASSUME StepsOK, up, NEW t \in Thread, NEW l \in Level[t], Call(t, l, runs),
         UNCHANGED <<fileVars, up, runs, history>>
  PROVE  StepsOK'
  <1>1. PICK r \in Record : r = [thread |-> t, level |-> l, run |-> runs, direct |-> FALSE]
    <2>1. l \in 0..4 /\ runs \in Nat
      BY LevelAssumption, Types DEF StepsOK
    <2> QED
      BY <2>1 DEF Record
  <1>2. /\ messages' = Append(messages, r) /\ messages \in Seq(Record)
        /\ Len(messages) < MaxMessages /\ Len(messages) \in Nat
    BY <1>1, Types DEF Call, StepsOK
  <1>3. /\ messages' \in Seq(Record) /\ Len(messages') = Len(messages) + 1
        /\ \A k \in Logged : messages'[k] = messages[k]
        /\ messages'[Len(messages) + 1] = r
    BY <1>2, AppendProperties DEF Logged
  <1>4. Logged' = Logged \cup {Len(messages) + 1}
    BY <1>2, <1>3 DEF Logged
  <1>5. TypeOK'
    <2>1. MemoryTyped'
      BY <1>2, <1>3, MaxMessagesAssumption, TypeParts DEF StepsOK, MemoryTyped, Call
    <2>2. FilesTyped'
      BY TypeParts DEF StepsOK, FilesTyped, fileVars
    <2>3. ControlTyped'
      BY TypeParts DEF StepsOK, ControlTyped, Call, Goto, PC, locks, fileVars, history
    <2> QED
      BY <2>1, <2>2, <2>3, TypePartsPrimed
  <1>6. ProgramOK'
    <2>1. r.run = runs /\ runs \in Nat /\ runs' = runs
      BY <1>1, Types DEF StepsOK
    <2>2. \A k \in Logged' : messages'[k].run <= runs'
      BY <2>1, <1>3, <1>4 DEF StepsOK, ProgramOK
    <2>3. up' /\ UNCHANGED <<bufferSize, open, files, fileName>>
      BY DEF Call, fileVars
    <2> QED
      BY <2>2, <2>3 DEF StepsOK, ProgramOK
  <1>7. ASSUME NEW g \in Thread PROVE ThreadOK(g)'
    <2>1. /\ g # t => pc'[g] = pc[g] /\ current'[g] = current[g]
          /\ pc'[t] = "enter" /\ current'[t] = Len(messages) + 1
      BY Types DEF StepsOK, Call, Goto
    <2>2. /\ pc[t] = "idle"
          /\ UNCHANGED <<queue, recursive, nonRecursive, mutex, files, fileName, open, pending, count, runs>>
      BY DEF Call, locks, fileVars
    <2>3. CASE g # t
      BY <2>1, <2>2, <2>3, <1>3, <1>4 DEF StepsOK, ThreadOK, InHandler
    <2>4. CASE g = t
      <3>1. r.thread = t /\ r.run = runs /\ Len(messages) + 1 # 0
        BY <1>1, <1>2
      <3> QED
        BY <2>1, <2>2, <2>4, <3>1, <1>3, <1>4 DEF StepsOK, ThreadOK, InHandler
    <2> QED
      BY <2>3, <2>4
  <1> QED
    BY <1>5, <1>6, <1>7 DEF StepsOK, BackupsWithinLimit, fileVars

\* What a step of the threads that leaves the messages, the files and the
\* program alone has to show of the types.
LEMMA ClearSteps ==
  ASSUME StepsOK, NEW t \in Thread, up, Clear(t), UNCHANGED <<fileVars, up, runs, history>>
  PROVE  StepsOK'
  <1>1. TypeOK'
    <2>1. {buffers[t][i] : i \in DOMAIN buffers[t]} \subseteq Message
      BY Types, LenProperties, ElementOfSeq DEF StepsOK
    <2>2. buffers' \in [Thread -> Seq(Message)] /\ \A g \in Thread : buffers'[g] \in {<<>>, buffers[g]}
      BY Types, EmptySeq DEF StepsOK, Clear
    <2>3. MemoryTyped'
      BY <2>1, <2>2, TypeParts DEF StepsOK, MemoryTyped, Clear
    <2>4. FilesTyped' /\ ControlTyped'
      BY TypeParts DEF StepsOK, FilesTyped, ControlTyped, fileVars, history, Clear, locks
    <2> QED
      BY <2>3, <2>4, TypePartsPrimed
  <1>2. UNCHANGED <<Logged, messages, pc, current, queue, recursive, nonRecursive, mutex, open, pending, count,
                    runs, up, bufferSize, files, fileName>>
    BY DEF Clear, locks, fileVars, Logged
  <1>3. ASSUME NEW g \in Thread PROVE ThreadOK(g)'
    BY <1>2 DEF StepsOK, ThreadOK, InHandler
  <1> QED
    BY <1>1, <1>2, <1>3 DEF StepsOK, BackupsWithinLimit, ProgramOK

LEMMA EnterSteps ==
  ASSUME StepsOK, NEW t \in Thread, Enter(t), UNCHANGED <<fileVars, up, runs, history>>
  PROVE  StepsOK'
  <1>1. TypeOK'
    <2>1. MemoryTyped' /\ FilesTyped'
      BY TypeParts DEF StepsOK, MemoryTyped, FilesTyped, fileVars, Enter, logged
    <2>2. ControlTyped'
      BY TypeParts DEF StepsOK, ControlTyped, Enter, Goto, PC, fileVars, history
    <2> QED
      BY <2>1, <2>2, TypePartsPrimed
  <1>2. UNCHANGED <<Logged, messages, current, queue, mutex, open, pending, count,
                    runs, up, bufferSize, buffers, files, fileName>>
    BY DEF Enter, logged, fileVars, Logged
  <1>3. /\ \A g \in Thread : g # t => pc'[g] = pc[g]
        /\ pc'[t] = "log" /\ pc[t] \in {"enter", "warn"}
        /\ recursive' = t /\ nonRecursive' = t /\ nonRecursive = NoOwner /\ NoOwner \notin Thread
    BY Types DEF StepsOK, Enter, Goto, TryLock
  <1>4. ASSUME NEW g \in Thread PROVE ThreadOK(g)'
    BY <1>2, <1>3 DEF StepsOK, ThreadOK, InHandler
  <1> QED
    BY <1>1, <1>2, <1>3, <1>4 DEF StepsOK, BackupsWithinLimit, ProgramOK

LEMMA Elements ==
  ASSUME NEW S, NEW s \in Seq(S)
  PROVE  ToSet(s) \subseteq S /\ \A e \in ToSet(s) : \E i \in 1..Len(s) : e = s[i]
  BY LenProperties, ElementOfSeq DEF ToSet

LEMMA LogSteps ==
  ASSUME StepsOK, NEW t \in Thread, Log(t), UNCHANGED <<fileVars, up, runs, history>>
  PROVE  StepsOK'
  <1>1. /\ pc[t] = "log" /\ mutex = NoOwner /\ mutex' = t /\ current[t] # 0
        /\ current[t] \in Logged /\ current[t] \in Message /\ NoOwner \notin Thread
    BY Types DEF StepsOK, ThreadOK, Log
  <1>2. /\ Logged' = Logged /\ messages' \in Seq(Record) /\ Len(messages') <= MaxMessages
        /\ \A k \in Logged : messages'[k].thread = messages[k].thread /\ messages'[k].run = messages[k].run
    <2>1. CASE messages' = messages
      BY <2>1, Types DEF StepsOK, Logged
    <2>2. CASE messages' = [messages EXCEPT ![current[t]].direct = TRUE]
      <3> DEFINE r == [messages[current[t]] EXCEPT !.direct = TRUE]
      <3>1. messages' = [messages EXCEPT ![current[t]] = r]
        BY <2>2
      <3>2. r \in Record /\ r.thread = messages[current[t]].thread /\ r.run = messages[current[t]].run
        <4>1. messages[current[t]] \in Record
          BY <1>1, Types, ElementOfSeq DEF StepsOK, Logged
        <4> QED
          BY <4>1 DEF Record
      <3> HIDE DEF r
      <3>3. /\ messages' \in Seq(Record) /\ Len(messages') = Len(messages)
            /\ \A k \in Logged : messages'[k] = IF k = current[t] THEN r ELSE messages[k]
        BY <1>1, <3>1, <3>2, Types, ExceptSeq DEF StepsOK, Logged
      <3> QED
        BY <3>2, <3>3, Types DEF StepsOK, Logged
    <2> QED
      BY <2>1, <2>2 DEF Log, LogBuffered, LogDirectly
  <1>3. /\ buffers' \in [Thread -> Seq(Message)] /\ queue' \in [Thread -> Seq(Message)]
        /\ \A g \in Thread : g # t => buffers'[g] = buffers[g] /\ queue'[g] = queue[g]
        /\ buffers'[t] \in {<<>>, buffers[t]} \/ \E s \in Settings : Len(buffers'[t]) <= s.bufferSize
        /\ dropped' \subseteq Message
    <2>1. CASE LogDirectly(t)
      <3>1. <<current[t]>> \in Seq(Message)
        BY <1>1
      <3> QED
        BY <2>1, <3>1, EmptySeq, Types, TypeParts DEF StepsOK, LogDirectly, MemoryTyped
    <2>2. CASE LogBuffered(t)
      <3> DEFINE filled == Appended(t)
                 kept == IF Len(filled) > bufferSize THEN DropOldest(filled) ELSE filled
      <3>1. /\ filled \in Seq(Message) /\ filled # <<>> /\ Len(filled) = Len(buffers[t]) + 1
            /\ Len(filled) \in Nat
        <4>1. buffers[t] \in Seq(Message) /\ Len(buffers[t]) \in Nat
          BY Types, LenProperties DEF StepsOK
        <4> QED
          BY <1>1, <4>1, AppendProperties DEF Appended
      <3>2. Head(filled) \in Message /\ Tail(filled) \in Seq(Message) /\ Len(Tail(filled)) = Len(filled) - 1
        BY <3>1, HeadTailProperties
      <3>3. /\ kept \in Seq(Message)
            /\ Len(kept) <= bufferSize \/ Len(kept) = Len(buffers[t])
        BY <3>1, <3>2, Types DEF StepsOK, DropOldest
      <3>4. /\ dropped' = IF Len(filled) > bufferSize THEN dropped \cup {Head(filled)} ELSE dropped
            /\ \/ buffers' = [buffers EXCEPT ![t] = <<>>] /\ queue' = [queue EXCEPT ![t] = kept]
               \/ buffers' = [buffers EXCEPT ![t] = kept] /\ queue' = queue
        BY <2>2 DEF LogBuffered
      <3>5. up
        BY <1>1 DEF StepsOK, ProgramOK
      <3>6. PICK s \in Settings : bufferSize = s.bufferSize
        BY <3>5 DEF StepsOK, ProgramOK
      <3>7. \E z \in Settings : Len(kept) <= z.bufferSize
        <4>1. CASE Len(kept) <= bufferSize
          BY <4>1, <3>6
        <4>2. CASE Len(kept) = Len(buffers[t]) /\ buffers[t] # <<>>
          BY <4>2, TypeParts DEF StepsOK, MemoryTyped
        <4>3. CASE Len(kept) = Len(buffers[t]) /\ buffers[t] = <<>>
          <5>1. Len(kept) = 0 /\ s.bufferSize \in Nat
            BY <4>3, SettingsAssumption
          <5> QED
            BY <5>1
        <4> QED
          BY <4>1, <4>2, <4>3, <3>3
      <3> HIDE DEF filled, kept
      <3>8. dropped \subseteq Message /\ queue \in [Thread -> Seq(Message)] /\ buffers \in [Thread -> Seq(Message)]
        BY TypeParts DEF StepsOK, MemoryTyped
      <3>9. <<>> \in Seq(Message)
        BY EmptySeq
      <3> QED
        BY <3>2, <3>3, <3>4, <3>7, <3>8, <3>9
    <2> QED
      BY <2>1, <2>2 DEF Log
  <1>4. TypeOK'
    <2>1. MemoryTyped'
      BY <1>2, <1>3, TypeParts DEF StepsOK, MemoryTyped, Log
    <2>2. FilesTyped' /\ ControlTyped'
      BY TypeParts DEF StepsOK, FilesTyped, ControlTyped, Log, Goto, PC, fileVars, history
    <2> QED
      BY <2>1, <2>2, TypePartsPrimed
  <1>5. /\ UNCHANGED <<current, recursive, nonRecursive, open, pending, count, runs, up, bufferSize, files,
                       fileName>>
        /\ \A g \in Thread : g # t => pc'[g] = pc[g]
        /\ pc'[t] = "print"
    BY Types DEF StepsOK, Log, Goto, fileVars
  <1>6. ASSUME NEW g \in Thread PROVE ThreadOK(g)'
    <2>1. ThreadOK(g) /\ ThreadOK(t)
      BY DEF StepsOK
    <2>2. CASE g = t
      BY <1>1, <1>2, <1>5, <2>1, <2>2 DEF ThreadOK, InHandler
    <2>3. CASE g # t
      BY <1>1, <1>2, <1>3, <1>5, <2>1, <2>3 DEF ThreadOK, InHandler
    <2> QED
      BY <2>2, <2>3
  <1>7. ProgramOK'
    BY <1>1, <1>2, <1>5 DEF StepsOK, ProgramOK
  <1> QED
    BY <1>4, <1>5, <1>6, <1>7 DEF StepsOK, BackupsWithinLimit

-----------------------------------------------------------------------------
(* The files. *)

TypedFiles(f) ==
    /\ DOMAIN f = Name /\ \A n \in Name : DOMAIN f[n] = Index
    /\ \A n \in Name, i \in Index : f[n][i] = NoFile \/ f[n][i] \in Seq(Message)

NoneBeyond(f) == \A n \in Name : f[n][MaxBackups + 1] = NoFile

LEMMA Indices == /\ 0 \in Index /\ MaxBackups + 1 \in Index /\ MaxBackups + 1 # 0
                 /\ \A i \in 0..MaxBackups : i \in Index /\ i + 1 \in Index /\ i # MaxBackups + 1
                 /\ Index \subseteq Nat
  BY MaxBackupsAssumption DEF Index

\* To write at the end of the open file.
Extended(s) == [files EXCEPT ![fileName][0] = @ \o s]

LEMMA Appending ==
  ASSUME StepsOK, open, NEW s \in Seq(Message), NEW f,
         f = Extended(s)
  PROVE  /\ TypedFiles(f) /\ NoneBeyond(f) /\ f[fileName][0] # NoFile
         /\ files[fileName][0] \in Seq(Message) /\ f[fileName][0] = files[fileName][0] \o s
         /\ \A n \in Name, i \in Index : n # fileName \/ i # 0 => f[n][i] = files[n][i]
  <1>1. TypedFiles(files) /\ fileName \in Name /\ NoneBeyond(files)
    BY TypeParts DEF StepsOK, FilesTyped, TypedFiles, ControlTyped, NoneBeyond, BackupsWithinLimit
  <1>2. files[fileName][0] \in Seq(Message)
    BY <1>1, Indices DEF StepsOK, ProgramOK, TypedFiles
  <1>3. files[fileName][0] \o s \in Seq(Message)
    BY <1>2, ConcatProperties
  <1>4. /\ DOMAIN f = Name /\ \A n \in Name : DOMAIN f[n] = Index
        /\ \A n \in Name, i \in Index :
              f[n][i] = IF n = fileName /\ i = 0 THEN files[fileName][0] \o s ELSE files[n][i]
    BY <1>1, Indices DEF TypedFiles, Extended
  <1>5. TypedFiles(f)
    BY <1>1, <1>3, <1>4 DEF TypedFiles
  <1>6. NoneBeyond(f)
    BY <1>1, <1>4, Indices DEF NoneBeyond
  <1>7. f[fileName][0] = files[fileName][0] \o s
    BY <1>1, <1>4, Indices
  <1>8. f[fileName][0] # NoFile
    BY <1>3, <1>7, NoFileAssumption
  <1> QED
    BY <1>2, <1>4, <1>5, <1>6, <1>7, <1>8

LEMMA FlushedFiles ==
  ASSUME StepsOK
  PROVE  /\ TypedFiles(Flushed(files)) /\ NoneBeyond(Flushed(files))
         /\ open => Flushed(files)[fileName][0] # NoFile
         /\ \A n \in Name, i \in Index :
              IF open /\ n = fileName /\ i = 0
              THEN files[n][i] \in Seq(Message) /\ Flushed(files)[n][i] = files[n][i] \o pending
              ELSE Flushed(files)[n][i] = files[n][i]
  <1>1. TypedFiles(files) /\ fileName \in Name /\ NoneBeyond(files) /\ pending \in Seq(Message)
    BY TypeParts DEF StepsOK, FilesTyped, TypedFiles, ControlTyped, NoneBeyond, BackupsWithinLimit
  <1>2. CASE open
    <2>1. Flushed(files) = Extended(pending)
      BY <1>2 DEF Flushed, Extended
    <2>2. PICK s \in Seq(Message), f \in {Flushed(files)} : s = pending /\ f = Flushed(files)
      BY <1>1
    <2>3. f = Extended(s)
      BY <2>1, <2>2
    <2>4. /\ TypedFiles(f) /\ NoneBeyond(f) /\ f[fileName][0] # NoFile
          /\ files[fileName][0] \in Seq(Message) /\ f[fileName][0] = files[fileName][0] \o s
          /\ \A n \in Name, i \in Index : n # fileName \/ i # 0 => f[n][i] = files[n][i]
      BY <1>2, <2>3, Appending
    <2> QED
      BY <1>2, <2>2, <2>4
  <1>3. CASE ~open
    <2>1. /\ DOMAIN Flushed(files) = Name /\ \A n \in Name : DOMAIN Flushed(files)[n] = Index
          /\ \A n \in Name, i \in Index : Flushed(files)[n][i] = files[n][i]
      BY <1>1, <1>3, Indices DEF TypedFiles, Flushed
    <2> QED
      BY <1>1, <1>3, <2>1, Indices DEF TypedFiles, NoneBeyond
  <1> QED
    BY <1>2, <1>3

LEMMA CreatedFiles ==
  ASSUME NEW f, TypedFiles(f), NoneBeyond(f), NEW n \in Name
  PROVE  /\ TypedFiles(Created(f, n)) /\ NoneBeyond(Created(f, n)) /\ Created(f, n)[n][0] # NoFile
         /\ \A k \in Name, i \in Index :
              Created(f, n)[k][i] = IF k = n /\ i = 0 /\ f[k][i] = NoFile THEN <<>> ELSE f[k][i]
  <1> DEFINE g == Created(f, n)
  <1>1. /\ DOMAIN g = Name /\ \A k \in Name : DOMAIN g[k] = Index
        /\ \A k \in Name, i \in Index : g[k][i] = IF k = n /\ i = 0 /\ f[k][i] = NoFile THEN <<>> ELSE f[k][i]
    BY Indices DEF TypedFiles, Created
  <1>2. <<>> \in Seq(Message) /\ <<>> # NoFile
    BY EmptySeq, NoFileAssumption
  <1> HIDE DEF g
  <1>3. TypedFiles(g)
    BY <1>1, <1>2 DEF TypedFiles
  <1>4. NoneBeyond(g)
    BY <1>1, Indices DEF NoneBeyond
  <1>5. g[n][0] # NoFile
    BY <1>1, <1>2, Indices
  <1> QED
    BY <1>1, <1>3, <1>4, <1>5 DEF g

\* To rename the backup i of the current file to the next.
LEMMA RenamedFiles ==
  ASSUME NEW f, TypedFiles(f), NoneBeyond(f), fileName \in Name, NEW i \in Index, i < MaxBackups
  PROVE  /\ i + 1 \in Index
         /\ TypedFiles(Renamed(f, i, i + 1)) /\ NoneBeyond(Renamed(f, i, i + 1))
         /\ \/ Renamed(f, i, i + 1) = f
            \/ /\ f[fileName][i + 1] = NoFile
               /\ \A n \in Name, j \in Index :
                    Renamed(f, i, i + 1)[n][j] =
                      IF n = fileName /\ j = i THEN NoFile
                      ELSE IF n = fileName /\ j = i + 1 THEN f[fileName][i]
                      ELSE f[n][j]
  <1> DEFINE g == [f EXCEPT ![fileName][i + 1] = f[fileName][i], ![fileName][i] = NoFile]
  <1>1. i + 1 \in Index /\ i # i + 1 /\ i \in Nat /\ i + 1 # MaxBackups + 1 /\ i # MaxBackups + 1
    BY MaxBackupsAssumption DEF Index
  <1>2. /\ DOMAIN g = Name /\ \A n \in Name : DOMAIN g[n] = Index
        /\ \A n \in Name, j \in Index :
             g[n][j] = IF n = fileName /\ j = i THEN NoFile
                       ELSE IF n = fileName /\ j = i + 1 THEN f[fileName][i]
                       ELSE f[n][j]
    BY <1>1 DEF TypedFiles
  <1>3. CASE f[fileName][i] # NoFile /\ f[fileName][i + 1] = NoFile
    <2>1. Renamed(f, i, i + 1) = g
      BY <1>3 DEF Renamed
    <2> HIDE DEF g
    <2>2. TypedFiles(g)
      BY <1>2 DEF TypedFiles
    <2>3. NoneBeyond(g)
      BY <1>1, <1>2, Indices DEF NoneBeyond
    <2> QED
      BY <1>1, <1>2, <1>3, <2>1, <2>2, <2>3
  <1>4. CASE ~(f[fileName][i] # NoFile /\ f[fileName][i + 1] = NoFile)
    BY <1>1, <1>4 DEF Renamed
  <1> QED
    BY <1>3, <1>4

-----------------------------------------------------------------------------
(* The first layer of the steps that write. *)

LEMMA Queues ==
  ASSUME StepsOK, NEW t \in Thread, Printing(t)
  PROVE  /\ queue[t] \in Seq(Message) /\ Head(queue[t]) \in Message /\ Tail(queue[t]) \in Seq(Message)
         /\ Head(queue[t]) = queue[t][1] /\ Len(queue[t]) \in Nat \ {0}
         /\ Len(Tail(queue[t])) = Len(queue[t]) - 1
         /\ \A x \in 1..Len(Tail(queue[t])) : Tail(queue[t])[x] = queue[t][x + 1]
         /\ mutex = t /\ current[t] \in Logged /\ pc[t] = "print" /\ up
  <1>1. queue[t] \in Seq(Message) /\ queue[t] # <<>>
    BY Types DEF StepsOK, Printing
  <1>2. mutex = t /\ current[t] \in Logged /\ pc[t] = "print" /\ up
    BY DEF StepsOK, ThreadOK, ProgramOK, Printing
  <1> QED
    BY <1>1, <1>2, HeadTailProperties, EmptySeq

\* What a step that only prints has to show of the types.
LEMMA Printed1 ==
  ASSUME StepsOK, NEW t \in Thread, Printing(t),
         UNCHANGED <<logged, bufferSize, current, buffers, locks, fileName, count, up, runs, errors>>,
         UNCHANGED pc \/ (Goto(t, "warn") /\ pending' = <<>>), UNCHANGED open,
         queue' = queue \/ queue' = [queue EXCEPT ![t] = Tail(@)],
         gone' \subseteq Message, FilesTyped', files'[fileName][0] # NoFile \/ ~open,
         BackupsWithinLimit'
  PROVE  StepsOK'
  <1>1. TypeOK'
    <2>1. MemoryTyped'
      BY Queues, TypeParts DEF StepsOK, MemoryTyped, logged
    <2>2. ControlTyped'
      BY TypeParts DEF StepsOK, ControlTyped, Goto, PC, locks
    <2> QED
      BY <2>1, <2>2, TypePartsPrimed
  <1>2. UNCHANGED <<Logged, messages, recursive, nonRecursive, mutex, current, open, count, runs>>
    BY DEF logged, Logged, locks
  <1>3. \A g \in Thread : g # t => pc'[g] = pc[g] /\ queue'[g] = queue[g]
    BY Types DEF StepsOK, Goto
  <1>4. /\ pc'[t] = "print" \/ (pc'[t] = "warn" /\ pending' = <<>>)
        /\ pc[t] = "print" /\ mutex = t
    BY Types, Queues DEF StepsOK, Goto, Printing
  <1>5. ASSUME NEW g \in Thread PROVE ThreadOK(g)'
    <2>1. ThreadOK(g)
      BY DEF StepsOK
    <2>2. CASE g = t
      <3>1. /\ recursive = t /\ nonRecursive = t /\ mutex = t /\ current[t] # 0
            /\ current[t] \in Logged /\ messages[current[t]].thread = t /\ messages[current[t]].run = runs
        BY <1>4, <2>1, <2>2 DEF ThreadOK, InHandler
      <3>2. pc'[t] \in {"print", "warn"} /\ (pc'[t] = "warn" => pending' = <<>>)
        BY <1>4
      <3> QED
        BY <1>2, <2>2, <3>1, <3>2 DEF ThreadOK, InHandler
    <2>3. CASE g # t
      BY <1>2, <1>3, <1>4, <2>1, <2>3 DEF ThreadOK, InHandler
    <2> QED
      BY <2>2, <2>3
  <1>6. ProgramOK'
    BY <1>2, Queues DEF StepsOK, ProgramOK
  <1> QED
    BY <1>1, <1>5, <1>6 DEF StepsOK

LEMMA WriteToFileSteps ==
  ASSUME StepsOK, NEW t \in Thread, WriteToFile(t)
  PROVE  StepsOK'
  <1>1. PICK m \in Message : m = Head(queue[t])
    BY Queues DEF WriteToFile
  <1>2. pending \in Seq(Message) /\ Append(pending, m) \in Seq(Message)
    BY Types, AppendProperties DEF StepsOK
  <1>3. PICK s \in Seq(Message) : s = Append(pending, m)
    BY <1>2
  <1>4. /\ TypedFiles(files') /\ NoneBeyond(files') /\ files'[fileName][0] # NoFile /\ pending' \in Seq(Message)
    <2>1. CASE Urgent(m)
      <3>1. files' = Extended(s) /\ pending' = <<>> /\ open
        BY <1>1, <1>3, <2>1 DEF WriteToFile, Extended
      <3>2. PICK f : f = Extended(s)
        OBVIOUS
      <3>3. TypedFiles(f) /\ NoneBeyond(f) /\ f[fileName][0] # NoFile
        BY <3>1, <3>2, Appending
      <3> QED
        BY <3>1, <3>2, <3>3, EmptySeq
    <2>2. CASE ~Urgent(m)
      <3>1. files' = files /\ pending' = s /\ open
        BY <1>1, <1>3, <2>2 DEF WriteToFile
      <3> QED
        BY <3>1, TypeParts DEF StepsOK, ProgramOK, FilesTyped, TypedFiles, NoneBeyond, BackupsWithinLimit
    <2> QED
      BY <2>1, <2>2
  <1>5. FilesTyped' /\ BackupsWithinLimit'
    BY <1>4 DEF FilesTyped, TypedFiles, NoneBeyond, BackupsWithinLimit, WriteToFile
  <1>6. gone' \subseteq Message
    BY TypeParts DEF StepsOK, ControlTyped, WriteToFile, history
  <1> QED
    BY <1>4, <1>5, <1>6, Printed1 DEF WriteToFile, history

LEMMA WriteFailsSteps ==
  ASSUME StepsOK, NEW t \in Thread, WriteFails(t)
  PROVE  StepsOK'
  <1>1. gone' \subseteq Message
    BY Types, Elements, TypeParts DEF StepsOK, ControlTyped, WriteFails
  <1>2. FilesTyped'
    BY TypeParts, EmptySeq DEF StepsOK, FilesTyped, WriteFails
  <1>3. files'[fileName][0] # NoFile /\ BackupsWithinLimit'
    BY DEF StepsOK, ProgramOK, BackupsWithinLimit, WriteFails
  <1> QED
    BY <1>1, <1>2, <1>3, Printed1 DEF WriteFails

LEMMA WriteToStderrSteps ==
  ASSUME StepsOK, NEW t \in Thread, WriteToStderr(t)
  PROVE  StepsOK'
  <1>1. gone' \subseteq Message
    BY Queues, TypeParts DEF StepsOK, ControlTyped, WriteToStderr
  <1>2. FilesTyped' /\ BackupsWithinLimit'
    BY TypeParts DEF StepsOK, FilesTyped, WriteToStderr, fileVars, BackupsWithinLimit
  <1> QED
    BY <1>1, <1>2, Printed1 DEF WriteToStderr, fileVars

LEMMA WarnOnStderrSteps ==
  ASSUME StepsOK, NEW t \in Thread, WarnOnStderr(t)
  PROVE  StepsOK'
  <1>1. /\ pc[t] = "warn" /\ recursive = t /\ current[t] # 0 /\ mutex = t /\ pending = <<>>
        /\ pc' = [pc EXCEPT ![t] = "print"] /\ pc'[t] = "print"
        /\ \A g \in Thread : g # t => pc'[g] = pc[g]
    BY Types DEF StepsOK, ThreadOK, InHandler, WarnOnStderr, Goto
  <1>2. /\ open' = FALSE /\ UNCHANGED <<logged, bufferSize, current, buffers, queue, locks, files, fileName,
                                 pending, count, up, runs, gone, errors>>
    BY DEF WarnOnStderr, history
  <1>3. TypeOK'
    <2>1. MemoryTyped' /\ FilesTyped'
      BY <1>1, <1>2, TypeParts DEF StepsOK, MemoryTyped, FilesTyped, logged
    <2>2. ControlTyped'
      <3>1. pc' \in [Thread -> PC]
        BY <1>1, Types DEF StepsOK, PC
      <3> QED
        BY <1>2, <3>1, TypeParts DEF StepsOK, ControlTyped, locks
    <2> QED
      BY <2>1, <2>2, TypePartsPrimed
  <1>4. UNCHANGED <<Logged, messages, recursive, nonRecursive, mutex>>
    BY <1>2 DEF logged, Logged, locks
  <1>5. ASSUME NEW g \in Thread PROVE ThreadOK(g)'
    <2>1. ThreadOK(g)
      BY DEF StepsOK
    <2>2. CASE g = t
      BY <1>1, <1>2, <1>4, <2>1, <2>2 DEF ThreadOK, InHandler
    <2>3. CASE g # t
      BY <1>1, <1>2, <1>4, <2>1, <2>3 DEF ThreadOK, InHandler
    <2> QED
      BY <2>2, <2>3
  <1>6. ProgramOK' /\ BackupsWithinLimit'
    BY <1>1, <1>2, <1>4 DEF StepsOK, ProgramOK, BackupsWithinLimit
  <1> QED
    BY <1>3, <1>5, <1>6 DEF StepsOK

-----------------------------------------------------------------------------
(* The first layer of the steps that end or start the program. *)

LEMMA StopSteps ==
  ASSUME StepsOK, Stop, gone' \subseteq Message, errors' \subseteq Message
  PROVE  StepsOK'
  <1>1. /\ \A t \in Thread : pc'[t] = "idle" /\ current'[t] = 0 /\ buffers'[t] = <<>> /\ queue'[t] = <<>>
        /\ recursive' = NoOwner /\ nonRecursive' = NoOwner /\ mutex' = NoOwner
        /\ ~up' /\ ~open' /\ UNCHANGED <<messages, Logged, bufferSize, files, fileName, runs>>
    BY DEF Stop, ThreadsReset, logged, Logged
  <1>2. TypeOK'
    <2>1. <<>> \in Seq(Message) /\ 0 \in 0..MaxMessages
      BY EmptySeq, MaxMessagesAssumption
    <2>2. MemoryTyped'
      BY <1>1, <2>1, TypeParts DEF StepsOK, MemoryTyped, Stop, ThreadsReset, logged
    <2>3. FilesTyped'
      BY <1>1, <2>1, TypeParts DEF StepsOK, FilesTyped, Stop
    <2>4. ControlTyped'
      BY <1>1, Indices, TypeParts DEF StepsOK, ControlTyped, Stop, ThreadsReset, PC
    <2> QED
      BY <2>2, <2>3, <2>4, TypePartsPrimed
  <1>3. ASSUME NEW g \in Thread PROVE ThreadOK(g)'
    BY <1>1, Types DEF StepsOK, ThreadOK, InHandler
  <1>4. ProgramOK' /\ BackupsWithinLimit'
    BY <1>1 DEF StepsOK, ProgramOK, BackupsWithinLimit
  <1> QED
    BY <1>2, <1>3, <1>4 DEF StepsOK

LEMMA ReturnSteps ==
  ASSUME StepsOK, NEW t \in Thread, Return(t)
  PROVE  StepsOK'
  <1>1. current[t] \in Message /\ current[t] \in Logged
    BY Types DEF StepsOK, ThreadOK, Return
  <1>2. gone' \subseteq Message /\ errors' \subseteq Message
    BY <1>1, TypeParts DEF StepsOK, ControlTyped, Return
  <1>3. CASE Stop
    BY <1>2, <1>3, StopSteps
  <1>4. CASE LogReturns(t) /\ UNCHANGED <<fileVars, up, runs>>
    <2>1. /\ \A g \in Thread : g # t => pc'[g] = pc[g] /\ current'[g] = current[g]
          /\ pc'[t] = "idle" /\ current'[t] = 0 /\ pc[t] = "print" /\ queue[t] = <<>> /\ mutex = t
          /\ recursive = t /\ nonRecursive = t
          /\ recursive' = NoOwner /\ nonRecursive' = NoOwner /\ mutex' = NoOwner
      BY <1>4, Types DEF StepsOK, LogReturns, Goto, ThreadOK, InHandler
    <2>2. UNCHANGED <<messages, dropped, Logged, bufferSize, buffers, queue, files, fileName, open, pending,
                      count, up, runs>>
      BY <1>4 DEF LogReturns, fileVars, logged, Logged
    <2>3. TypeOK'
      <3>1. MemoryTyped' /\ FilesTyped'
        BY <1>4, <2>2, MaxMessagesAssumption, TypeParts DEF StepsOK, MemoryTyped, FilesTyped, LogReturns
      <3>2. ControlTyped'
        BY <1>2, <1>4, <2>1, <2>2, TypeParts DEF StepsOK, ControlTyped, LogReturns, Goto, PC
      <3> QED
        BY <3>1, <3>2, TypePartsPrimed
    <2>4. ASSUME NEW g \in Thread PROVE ThreadOK(g)'
      <3>1. ThreadOK(g) /\ NoOwner \notin Thread
        BY Types DEF StepsOK
      <3>2. CASE g = t
        BY <2>1, <2>2, <3>1, <3>2 DEF ThreadOK, InHandler
      <3>3. CASE g # t
        BY <2>1, <2>2, <3>1, <3>3 DEF ThreadOK, InHandler
      <3> QED
        BY <3>2, <3>3
    <2>5. ProgramOK' /\ BackupsWithinLimit'
      BY <2>1, <2>2 DEF StepsOK, ProgramOK, BackupsWithinLimit
    <2> QED
      BY <2>3, <2>4, <2>5 DEF StepsOK
  <1> QED
    BY <1>3, <1>4 DEF Return

LEMMA StartSteps ==
  ASSUME StepsOK, Start
  PROVE  StepsOK'
  <1>1. PICK s \in Settings :
          /\ bufferSize' = s.bufferSize /\ fileName' = s.fileName
          /\ \/ open' = TRUE /\ files' = Created(files, s.fileName)
             \/ open' = FALSE /\ UNCHANGED files
    BY DEF Start
  <1>2. s.bufferSize \in Nat /\ s.fileName \in Name
    BY SettingsAssumption
  <1>3. /\ ~up /\ up' /\ runs' = runs + 1 /\ runs \in Nat /\ runs < MaxRuns
        /\ UNCHANGED <<messages, dropped, Logged, pc, current, buffers, queue, recursive, nonRecursive, mutex,
                       pending, count, gone, errors>>
    BY Types DEF StepsOK, Start, logged, Logged, locks, history
  <1>4. /\ TypedFiles(files') /\ NoneBeyond(files')
        /\ open' \in BOOLEAN /\ (open' => files'[fileName'][0] # NoFile)
    <2>1. TypedFiles(files) /\ NoneBeyond(files)
      BY TypeParts DEF StepsOK, FilesTyped, TypedFiles, NoneBeyond, BackupsWithinLimit
    <2> PICK n \in Name : n = s.fileName
      BY <1>2
    <2>2. PICK f : f = files /\ n = s.fileName
      OBVIOUS
    <2>3. TypedFiles(Created(f, n)) /\ NoneBeyond(Created(f, n)) /\ Created(f, n)[n][0] # NoFile
      BY <2>1, <2>2, CreatedFiles
    <2> QED
      BY <1>1, <2>1, <2>2, <2>3
  <1>5. TypeOK'
    <2>1. MemoryTyped'
      BY <1>3, TypeParts DEF StepsOK, MemoryTyped
    <2>2. pending = <<>>
      BY <1>3, TypeParts DEF StepsOK, ProgramOK, FilesTyped
    <2>3. FilesTyped'
      BY <1>3, <1>4, <2>2, EmptySeq DEF FilesTyped, TypedFiles
    <2>4. ControlTyped'
      BY <1>1, <1>2, <1>3, <1>4, MaxRunsAssumption, TypeParts DEF StepsOK, ControlTyped
    <2> QED
      BY <2>1, <2>3, <2>4, TypePartsPrimed
  <1>6. \A g \in Thread : pc[g] = "idle" /\ current[g] = 0
    BY <1>3 DEF StepsOK, ProgramOK, ThreadOK
  <1>7. ASSUME NEW g \in Thread PROVE ThreadOK(g)'
    BY <1>3, <1>6 DEF StepsOK, ThreadOK, InHandler
  <1>8. ProgramOK'
    <2>1. \A k \in Logged : messages[k].run \in Nat
      <3>1. \A k \in Logged : messages[k] \in Record
        BY Types, ElementOfSeq DEF StepsOK, Logged
      <3> QED
        BY <3>1 DEF Record
    <2> QED
      BY <1>1, <1>3, <1>4, <2>1 DEF StepsOK, ProgramOK
  <1>9. BackupsWithinLimit'
    BY <1>4 DEF NoneBeyond, BackupsWithinLimit
  <1> QED
    BY <1>5, <1>7, <1>8, <1>9 DEF StepsOK

-----------------------------------------------------------------------------
(* The first layer of the timers. *)

Timing == {"idle", "flush", "rotate", "reopen"}

\* What a step of the main thread's timers has to show.
LEMMA TimerSteps ==
  ASSUME StepsOK, up, pc[Main] \in Timing,
         UNCHANGED <<logged, current, buffers, queue, recursive, nonRecursive, up, runs, errors>>,
         NEW l \in Timing \cup {"warn"}, pc' = [pc EXCEPT ![Main] = l],
         mutex' = mutex \/ {mutex, mutex'} = {NoOwner, Main},
         l \in {"rotate", "reopen", "warn"} => mutex' = Main,
         l \in {"rotate", "reopen"} => ~open',
         l = "warn" => pending' = <<>>,
         l = "rotate" => count' <= MaxBackups /\ \A i \in 1..count' : files'[fileName'][i] # NoFile,
         pending' \in {pending, <<>>},
         \E s \in Settings : bufferSize' = s.bufferSize,
         count' \in Index, fileName' \in Name, open' \in BOOLEAN, gone' \subseteq Message,
         FilesTyped', BackupsWithinLimit', open' => files'[fileName'][0] # NoFile
  PROVE  StepsOK'
  <1>1. UNCHANGED <<messages, dropped, Logged>>
    BY DEF logged, Logged
  <1>2. TypeOK'
    <2>1. MemoryTyped'
      BY <1>1, TypeParts DEF StepsOK, MemoryTyped
    <2>2. bufferSize' \in Nat
      BY SettingsAssumption
    <2>3. pc' \in [Thread -> PC]
      BY Types DEF StepsOK, PC, Timing
    <2>4. mutex' \in Thread \cup {NoOwner}
      BY Types, TypeParts DEF StepsOK, ControlTyped
    <2>5. ControlTyped'
      BY <2>2, <2>3, <2>4, TypeParts DEF StepsOK, ControlTyped
    <2> QED
      BY <2>1, <2>5, TypePartsPrimed
  <1>3. ASSUME NEW g \in Thread PROVE ThreadOK(g)'
    <2>1. ThreadOK(g) /\ ThreadOK(Main) /\ NoOwner \notin Thread /\ Main \in Thread
      BY Types DEF StepsOK
    <2>2. pc'[g] = IF g = Main THEN l ELSE pc[g]
      BY Types DEF StepsOK
    <2>3. CASE g = Main
      <3>1. current[Main] = 0 /\ queue[Main] = <<>> /\ recursive # Main /\ nonRecursive # Main
        BY <2>1 DEF ThreadOK, InHandler, Timing
      <3> QED
        BY <2>2, <2>3, <3>1 DEF ThreadOK, InHandler, Timing
    <2>4. CASE g # Main
      <3>1. pc[g] \notin {"flush", "rotate", "reopen"}
        BY <2>1, <2>4 DEF ThreadOK
      <3>2. mutex = g => mutex' = g
        BY <2>1, <2>4
      <3> QED
        BY <1>1, <2>1, <2>2, <2>4, <3>1, <3>2 DEF ThreadOK, InHandler
    <2> QED
      BY <2>3, <2>4
  <1>4. ProgramOK'
    BY <1>1 DEF StepsOK, ProgramOK
  <1> QED
    BY <1>2, <1>3, <1>4 DEF StepsOK

\* To leave the files alone.
LEMMA SameFiles ==
  ASSUME StepsOK, UNCHANGED files, UNCHANGED pending \/ pending' = <<>>, ~open' => pending' = <<>>
  PROVE  FilesTyped' /\ BackupsWithinLimit'
  BY TypeParts, EmptySeq DEF StepsOK, FilesTyped, BackupsWithinLimit

LEMMA NewFiles ==
  ASSUME TypedFiles(files'), NoneBeyond(files'), pending' \in Seq(Message), ~open' => pending' = <<>>
  PROVE  FilesTyped' /\ BackupsWithinLimit'
  BY DEF FilesTyped, TypedFiles, BackupsWithinLimit, NoneBeyond

\* A state of a running program in which the main thread waits or rotates.
LEMMA MainSteps ==
  ASSUME StepsOK, pc[Main] \in Timing, pc[Main] # "idle" \/ up
  PROVE  /\ up /\ Main \in Thread /\ pc = [pc EXCEPT ![Main] = pc[Main]]
         /\ \E s \in Settings : bufferSize = s.bufferSize
         /\ TypedFiles(files) /\ NoneBeyond(files) /\ fileName \in Name /\ open \in BOOLEAN
         /\ count \in Index /\ gone \subseteq Message /\ pending \in Seq(Message)
         /\ (~open => pending = <<>>) /\ (open => files[fileName][0] # NoFile)
         /\ pc[Main] \in {"rotate", "reopen"} => mutex = Main /\ ~open
         /\ pc[Main] = "rotate" => count <= MaxBackups /\ \A i \in 1..count : files[fileName][i] # NoFile
  <1>1. up /\ Main \in Thread /\ \E s \in Settings : bufferSize = s.bufferSize
    BY Types DEF StepsOK, ProgramOK
  <1>2. pc = [pc EXCEPT ![Main] = pc[Main]]
    BY <1>1, Types DEF StepsOK
  <1>3. TypedFiles(files) /\ NoneBeyond(files) /\ pending \in Seq(Message) /\ (~open => pending = <<>>)
    BY TypeParts DEF StepsOK, FilesTyped, TypedFiles, NoneBeyond, BackupsWithinLimit
  <1>4. fileName \in Name /\ open \in BOOLEAN /\ count \in Index /\ gone \subseteq Message
    BY TypeParts DEF StepsOK, ControlTyped
  <1>5. open => files[fileName][0] # NoFile
    BY DEF StepsOK, ProgramOK
  <1>6. /\ pc[Main] \in {"rotate", "reopen"} => mutex = Main /\ ~open
        /\ pc[Main] = "rotate" => count <= MaxBackups /\ \A i \in 1..count : files[fileName][i] # NoFile
    BY <1>1 DEF StepsOK, ThreadOK
  <1> QED
    BY <1>1, <1>2, <1>3, <1>4, <1>5, <1>6

LEMMA FlushTimerSteps ==
  ASSUME StepsOK, FlushTimer
  PROVE  StepsOK'
  <1>1. pc[Main] \in Timing /\ up /\ "flush" \in Timing \cup {"warn"}
    BY DEF FlushTimer, MainIdle, Timing
  <1>2. /\ UNCHANGED <<logged, bufferSize, current, buffers, queue, recursive, nonRecursive, mutex, up, runs,
                       errors, gone, files, fileName, open, pending, count>>
        /\ pc' = [pc EXCEPT ![Main] = "flush"]
    BY DEF FlushTimer, Goto, locks, fileVars, history
  <1>3. FilesTyped' /\ BackupsWithinLimit'
    BY <1>1, <1>2, MainSteps, SameFiles
  <1> QED
    BY <1>1, <1>2, <1>3, MainSteps, TimerSteps

LEMMA RemoveBackupSteps ==
  ASSUME StepsOK, RemoveBackup
  PROVE  StepsOK'
  <1>1. /\ pc[Main] = "rotate" /\ pc[Main] \in Timing /\ "rotate" \in Timing \cup {"warn"}
        /\ count >= MaxBackups /\ count' = count - 1
    BY DEF RemoveBackup, Timing, TooMany
  <1>2. UNCHANGED <<logged, bufferSize, pc, current, buffers, queue, recursive, nonRecursive, mutex, up, runs,
                    errors, fileName, open, pending>>
    BY DEF RemoveBackup, loggerVars, locks
  <1>3. count = MaxBackups /\ count \in Index /\ count' \in Index /\ count' <= MaxBackups
    BY <1>1, MainSteps, MaxBackupsAssumption DEF Index
  <1>4. TypedFiles(files') /\ NoneBeyond(files') /\ gone' \subseteq Message
    <2>1. CASE UNCHANGED <<files, gone>>
      BY <1>1, <2>1, MainSteps
    <2>2. CASE /\ files' = [files EXCEPT ![fileName][count] = NoFile]
               /\ gone' = gone \cup ToSet(files[fileName][count])
      <3>1. TypedFiles(files) /\ NoneBeyond(files) /\ fileName \in Name /\ gone \subseteq Message
        BY <1>1, MainSteps
      <3>2. files[fileName][count] \in Seq(Message)
        <4>1. files[fileName][count] # NoFile
          BY <1>1, <1>3, MainSteps, MaxBackupsAssumption
        <4> QED
          BY <1>3, <3>1, <4>1 DEF TypedFiles
      <3>3. gone' \subseteq Message
        BY <2>2, <3>1, <3>2, Elements
      <3>4. /\ DOMAIN files' = Name /\ \A n \in Name : DOMAIN files'[n] = Index
            /\ \A n \in Name, i \in Index :
                 files'[n][i] = IF n = fileName /\ i = count THEN NoFile ELSE files[n][i]
        BY <1>3, <2>2, <3>1 DEF TypedFiles
      <3> QED
        BY <3>1, <3>3, <3>4, Indices DEF TypedFiles, NoneBeyond
    <2> QED
      BY <2>1, <2>2 DEF RemoveBackup
  <1>5. FilesTyped' /\ BackupsWithinLimit'
    BY <1>1, <1>2, <1>4, MainSteps, NewFiles
  <1>6. \A i \in 1..count' : files'[fileName'][i] # NoFile
    <2>1. \A i \in 1..count' : files'[fileName][i] = files[fileName][i] /\ i \in 1..count
      BY <1>1, <1>3, MainSteps, MaxBackupsAssumption DEF RemoveBackup, Index, TypedFiles
    <2> QED
      BY <1>1, <1>2, <2>1, MainSteps
  <1> QED
    BY <1>1, <1>2, <1>3, <1>4, <1>5, <1>6, MainSteps, TimerSteps

\* Either way a file is renamed or left alone.
LEMMA MovedFiles ==
  ASSUME StepsOK, pc[Main] \in Timing, up, NEW i \in Index, i < MaxBackups,
         files' \in {files, Renamed(files, i, i + 1)},
         UNCHANGED <<fileName, open, pending>>
  PROVE  /\ FilesTyped' /\ BackupsWithinLimit' /\ i + 1 \in Index
         /\ \/ files' = files
            \/ /\ files[fileName][i + 1] = NoFile
               /\ \A n \in Name, j \in Index :
                    files'[n][j] = IF n = fileName /\ j = i THEN NoFile
                                   ELSE IF n = fileName /\ j = i + 1 THEN files[fileName][i]
                                   ELSE files[n][j]
  <1> PICK f : f = files
    OBVIOUS
  <1>1. TypedFiles(f) /\ NoneBeyond(f) /\ fileName \in Name
    BY MainSteps
  <1>2. /\ i + 1 \in Index
        /\ TypedFiles(Renamed(f, i, i + 1)) /\ NoneBeyond(Renamed(f, i, i + 1))
        /\ \/ Renamed(f, i, i + 1) = f
           \/ /\ f[fileName][i + 1] = NoFile
              /\ \A n \in Name, j \in Index :
                   Renamed(f, i, i + 1)[n][j] =
                     IF n = fileName /\ j = i THEN NoFile
                     ELSE IF n = fileName /\ j = i + 1 THEN f[fileName][i]
                     ELSE f[n][j]
    BY <1>1, RenamedFiles
  <1>3. TypedFiles(files') /\ NoneBeyond(files')
    BY <1>1, <1>2
  <1> QED
    BY <1>2, <1>3, MainSteps, NewFiles

LEMMA ShiftBackupSteps ==
  ASSUME StepsOK, ShiftBackup
  PROVE  StepsOK'
  <1>1. /\ pc[Main] = "rotate" /\ pc[Main] \in Timing /\ "rotate" \in Timing \cup {"warn"}
        /\ count < MaxBackups /\ count > 0 /\ count \in Index /\ count' = count - 1
    BY MainSteps, MaxBackupsAssumption DEF ShiftBackup, Timing, TooMany, Index
  <1>2. UNCHANGED <<logged, bufferSize, pc, current, buffers, queue, recursive, nonRecursive, mutex, up, runs,
                    errors, gone, fileName, open, pending>>
    BY DEF ShiftBackup, loggerVars, locks, history
  <1>3. PICK i \in Index : i = count
    BY <1>1
  <1>4. /\ FilesTyped' /\ BackupsWithinLimit'
        /\ \/ files' = files
           \/ \A n \in Name, j \in Index :
                    files'[n][j] = IF n = fileName /\ j = i THEN NoFile
                                   ELSE IF n = fileName /\ j = i + 1 THEN files[fileName][i]
                                   ELSE files[n][j]
    BY <1>1, <1>2, <1>3, MainSteps, MovedFiles DEF ShiftBackup
  <1>5. count' \in Index /\ count' <= MaxBackups
    BY <1>1, MaxBackupsAssumption DEF Index
  <1>6. \A j \in 1..count' : files'[fileName'][j] # NoFile
    <2>1. \A j \in 1..count' : j \in 1..count /\ j \in Index /\ j # i /\ j # i + 1
      BY <1>1, <1>3, MaxBackupsAssumption DEF Index
    <2> QED
      BY <1>1, <1>2, <1>4, <2>1, MainSteps
  <1> QED
    BY <1>1, <1>2, <1>4, <1>5, <1>6, MainSteps, TimerSteps

LEMMA BackupFileSteps ==
  ASSUME StepsOK, BackupFile
  PROVE  StepsOK'
  <1>1. /\ pc[Main] = "rotate" /\ pc[Main] \in Timing /\ "reopen" \in Timing \cup {"warn"}
        /\ 0 \in Index /\ 0 < MaxBackups /\ 0 + 1 = 1
    BY Indices, MaxBackupsAssumption DEF BackupFile, Timing
  <1>2. /\ UNCHANGED <<logged, bufferSize, current, buffers, queue, recursive, nonRecursive, mutex, up, runs,
                       errors, gone, fileName, open, pending, count>>
        /\ pc' = [pc EXCEPT ![Main] = "reopen"]
    BY DEF BackupFile, Goto, locks, history
  <1>3. PICK i \in Index : i = 0 /\ i + 1 = 1
    BY <1>1
  <1>4. FilesTyped' /\ BackupsWithinLimit'
    BY <1>1, <1>2, <1>3, MainSteps, MovedFiles DEF BackupFile
  <1> QED
    BY <1>1, <1>2, <1>4, MainSteps, TimerSteps

LEMMA ReopenSteps ==
  ASSUME StepsOK, Reopen
  PROVE  StepsOK'
  <1>1. pc[Main] = "reopen" /\ pc[Main] \in Timing /\ mutex = Main /\ ~open /\ pending = <<>>
    BY MainSteps DEF Reopen, Timing
  <1>2. UNCHANGED <<logged, bufferSize, current, buffers, queue, recursive, nonRecursive, up, runs,
                    errors, gone, fileName, pending, count>>
    BY DEF Reopen, history
  <1>3. CASE files' = Created(files, fileName) /\ open' = TRUE /\ mutex' = NoOwner /\ Goto(Main, "idle")
    <2>1. pc' = [pc EXCEPT ![Main] = "idle"] /\ "idle" \in Timing \cup {"warn"}
      BY <1>3 DEF Goto, Timing
    <2>2. PICK n \in Name : n = fileName
      BY <1>1, MainSteps
    <2>3. PICK f : f = files
      OBVIOUS
    <2>4. TypedFiles(Created(f, n)) /\ NoneBeyond(Created(f, n)) /\ Created(f, n)[n][0] # NoFile
      BY <1>1, <2>3, MainSteps, CreatedFiles
    <2>5. TypedFiles(files') /\ NoneBeyond(files') /\ files'[fileName'][0] # NoFile
      BY <1>2, <1>3, <2>2, <2>3, <2>4
    <2>6. FilesTyped' /\ BackupsWithinLimit'
      BY <1>1, <1>2, <1>3, <2>5, MainSteps, NewFiles
    <2> QED
      BY <1>1, <1>2, <1>3, <2>1, <2>5, <2>6, MainSteps, TimerSteps
  <1>4. CASE Goto(Main, "warn") /\ UNCHANGED <<files, open, mutex>>
    <2>1. pc' = [pc EXCEPT ![Main] = "warn"] /\ "warn" \in Timing \cup {"warn"}
      BY <1>4 DEF Goto
    <2>2. FilesTyped' /\ BackupsWithinLimit'
      BY <1>1, <1>2, <1>4, MainSteps, SameFiles
    <2> QED
      BY <1>1, <1>2, <1>4, <2>1, <2>2, MainSteps, TimerSteps
  <1> QED
    BY <1>3, <1>4 DEF Reopen

\* A set of numbers that is not empty has a least one.
LEMMA Least ==
  ASSUME NEW U \in SUBSET Nat, U # {}
  PROVE  \E n \in U : \A m \in U : n <= m
  <1>1. OpToRel(<, Nat) = {p \in Nat \X Nat : p[1] < p[2]}
    BY DEF OpToRel
  <1>2. IsWellFoundedOn(OpToRel(<, Nat), Nat)
    BY NatLessThanWellFounded
  <1>3. PICK n \in U : \A m \in U : ~(<<m, n>> \in OpToRel(<, Nat))
    BY <1>2, WFMin
  <1>4. \A m \in U : ~(m < n)
    BY <1>1, <1>3
  <1> QED
    BY <1>4

\* rotate() finds the first backup that does not exist (filelogger.cpp:136-142).
LEMMA BackupsCounted ==
  ASSUME StepsOK
  PROVE  /\ Backups \in 0..MaxBackups
         /\ \A i \in 1..Backups : files[fileName][i] # NoFile
         /\ files[fileName][Backups + 1] = NoFile
  <1> DEFINE U == {k \in 0..MaxBackups : files[fileName][k + 1] = NoFile}
  <1>1. files[fileName][MaxBackups + 1] = NoFile
    BY Types DEF StepsOK, BackupsWithinLimit
  <1>2. MaxBackups \in U /\ U \in SUBSET Nat
    BY <1>1, MaxBackupsAssumption
  <1>3. PICK k \in U : \A m \in U : k <= m
    BY <1>2, Least
  <1>4. \A i \in 1..k : files[fileName][i] # NoFile
    <2> SUFFICES ASSUME NEW i \in 1..k, files[fileName][i] = NoFile PROVE FALSE
      OBVIOUS
    <2>1. i - 1 \in 0..MaxBackups /\ (i - 1) + 1 = i /\ k \in Nat /\ ~(k <= i - 1)
      BY <1>3, MaxBackupsAssumption
    <2> QED
      BY <1>3, <2>1
  <1>5. \E j \in 0..MaxBackups : /\ \A i \in 1..j : files[fileName][i] # NoFile
                                 /\ files[fileName][j + 1] = NoFile
    BY <1>3, <1>4
  <1> QED
    BY <1>5 DEF Backups

LEMMA FlushFileSteps ==
  ASSUME StepsOK, FlushFile
  PROVE  StepsOK'
  <1>1. pc[Main] = "flush" /\ pc[Main] \in Timing /\ mutex = NoOwner /\ open
    BY DEF FlushFile, Timing
  <1>2. UNCHANGED <<logged, bufferSize, current, buffers, queue, recursive, nonRecursive, up, runs,
                    errors, gone, fileName>>
    BY DEF FlushFile, history
  <1>3. /\ TypedFiles(files') /\ NoneBeyond(files') /\ files'[fileName'][0] # NoFile
        /\ files' = Flushed(files) /\ pending' = <<>>
    BY <1>1, <1>2, FlushedFiles DEF FlushFile
  <1>4. FilesTyped' /\ BackupsWithinLimit'
    BY <1>3, EmptySeq, NewFiles
  <1>5. CASE ~TooLarge /\ Goto(Main, "idle") /\ UNCHANGED <<open, count, mutex>>
    <2>1. pc' = [pc EXCEPT ![Main] = "idle"] /\ "idle" \in Timing \cup {"warn"}
      BY <1>5 DEF Goto, Timing
    <2> QED
      BY <1>1, <1>2, <1>3, <1>4, <1>5, <2>1, MainSteps, TimerSteps
  <1>6. CASE TooLarge /\ open' = FALSE /\ count' = Backups /\ mutex' = Main /\ Goto(Main, "rotate")
    <2>1. pc' = [pc EXCEPT ![Main] = "rotate"] /\ "rotate" \in Timing \cup {"warn"}
      BY <1>6 DEF Goto, Timing
    <2>2. count' \in Index /\ count' <= MaxBackups /\ \A i \in 1..count' : i \in Index /\ i # 0
      BY <1>6, BackupsCounted, MaxBackupsAssumption DEF Index
    <2>3. \A i \in 1..count' : files'[fileName'][i] # NoFile
      BY <1>1, <1>2, <1>3, <1>6, <2>2, BackupsCounted, FlushedFiles, MainSteps
    <2> QED
      BY <1>1, <1>2, <1>3, <1>4, <1>6, <2>1, <2>2, <2>3, MainSteps, TimerSteps
  <1> QED
    BY <1>5, <1>6 DEF FlushFile

LEMMA RefreshSteps ==
  ASSUME StepsOK, Refresh
  PROVE  StepsOK'
  <1>1. pc[Main] = "idle" /\ pc[Main] \in Timing /\ up /\ mutex = NoOwner
    BY DEF Refresh, MainIdle, Timing
  <1>2. UNCHANGED <<logged, current, buffers, queue, recursive, nonRecursive, up, runs, errors, gone>>
    BY DEF Refresh, history
  <1>3. PICK s \in Settings :
          /\ bufferSize' = s.bufferSize
          /\ \/ s.fileName = fileName /\ UNCHANGED <<fileVars, mutex, pc>>
             \/ s.fileName # fileName /\ SwitchTo(s.fileName)
    BY DEF Refresh
  <1>4. CASE UNCHANGED <<fileVars, mutex, pc>>
    <2>1. UNCHANGED <<files, fileName, open, pending, count, mutex>>
      BY <1>4 DEF fileVars
    <2>2. pc' = [pc EXCEPT ![Main] = "idle"] /\ "idle" \in Timing \cup {"warn"}
      BY <1>1, <1>4, MainSteps DEF Timing
    <2>3. FilesTyped' /\ BackupsWithinLimit'
      BY <1>1, <2>1, MainSteps, SameFiles
    <2> QED
      BY <1>1, <1>2, <1>3, <2>1, <2>2, <2>3, MainSteps, TimerSteps
  <1>5. CASE SwitchTo(s.fileName)
    <2>1. PICK n \in Name : n = s.fileName
      BY SettingsAssumption
    <2>2. PICK f : f = Flushed(files)
      OBVIOUS
    <2>3. TypedFiles(f) /\ NoneBeyond(f)
      BY <2>2, FlushedFiles
    <2>4. TypedFiles(Created(f, n)) /\ NoneBeyond(Created(f, n)) /\ Created(f, n)[n][0] # NoFile
      BY <2>3, CreatedFiles
    <2>5. fileName' = n /\ pending' = <<>> /\ count' = count
      BY <1>5, <2>1 DEF SwitchTo
    <2>6. CASE open' = TRUE /\ files' = Created(f, n) /\ UNCHANGED <<mutex, pc>>
      <3>1. pc' = [pc EXCEPT ![Main] = "idle"] /\ "idle" \in Timing \cup {"warn"}
        BY <1>1, <2>6, MainSteps DEF Timing
      <3>2. FilesTyped' /\ BackupsWithinLimit'
        BY <2>4, <2>5, <2>6, EmptySeq, NewFiles
      <3> QED
        BY <1>1, <1>2, <1>3, <2>4, <2>5, <2>6, <3>1, <3>2, MainSteps, TimerSteps
    <2>7. CASE open' = FALSE /\ files' = f /\ mutex' = Main /\ Goto(Main, "warn")
      <3>1. pc' = [pc EXCEPT ![Main] = "warn"] /\ "warn" \in Timing \cup {"warn"}
        BY <2>7 DEF Goto
      <3>2. FilesTyped' /\ BackupsWithinLimit'
        BY <2>3, <2>5, <2>7, EmptySeq, NewFiles
      <3> QED
        BY <1>1, <1>2, <1>3, <2>5, <2>7, <3>1, <3>2, MainSteps, TimerSteps
    <2> QED
      BY <1>5, <2>1, <2>2, <2>6, <2>7 DEF SwitchTo
  <1> QED
    BY <1>3, <1>4, <1>5

\* The program is killed, or crashes in the timer.
LEMMA EndSteps ==
  ASSUME StepsOK, Stop, UNCHANGED history
  PROVE  StepsOK'
  BY StopSteps, TypeParts DEF StepsOK, ControlTyped, history

LEMMA StutterSteps ==
  ASSUME StepsOK, UNCHANGED vars
  PROVE  StepsOK'
  <1>1. UNCHANGED <<messages, dropped, bufferSize, pc, current, buffers, queue, recursive, nonRecursive, mutex,
                    files, fileName, open, pending, count, up, runs, gone, errors, Logged>>
    BY DEF vars, loggerVars, logged, locks, fileVars, history, Logged
  <1>2. TypeOK'
    BY <1>1, TypeParts, TypePartsPrimed DEF StepsOK, MemoryTyped, FilesTyped, ControlTyped
  <1>3. ProgramOK' /\ BackupsWithinLimit'
    BY <1>1 DEF StepsOK, ProgramOK, BackupsWithinLimit
  <1>4. ASSUME NEW g \in Thread PROVE ThreadOK(g)'
    BY <1>1 DEF StepsOK, ThreadOK, InHandler
  <1> QED
    BY <1>2, <1>3, <1>4 DEF StepsOK

\* The first layer by itself.
LEMMA StepsInductive ==
  ASSUME StepsOK, [Next]_vars
  PROVE  StepsOK'
  <1>1. ASSUME Callers PROVE StepsOK'
    BY <1>1, ClearSteps, CallSteps DEF Callers
  <1>2. ASSUME NEW t \in Thread, Handler(t) PROVE StepsOK'
    BY <1>2, EnterSteps, LogSteps, WriteToFileSteps, WriteFailsSteps, WarnOnStderrSteps, WriteToStderrSteps,
       ReturnSteps DEF Handler
  <1>3. ASSUME Timer PROVE StepsOK'
    BY <1>3, FlushTimerSteps, FlushFileSteps, EndSteps, RemoveBackupSteps, ShiftBackupSteps, BackupFileSteps,
       ReopenSteps DEF Timer, FlushNull
  <1>4. ASSUME Kill PROVE StepsOK'
    BY <1>4, EndSteps DEF Kill
  <1> QED
    BY <1>1, <1>2, <1>3, <1>4, RefreshSteps, StartSteps, StutterSteps DEF Next

LEMMA StepsInitially ==
  ASSUME Init
  PROVE  StepsOK
  <1>1. /\ messages = <<>> /\ dropped = {} /\ bufferSize = 0
        /\ pc = [t \in Thread |-> "idle"] /\ current = [t \in Thread |-> 0]
        /\ buffers = [t \in Thread |-> <<>>] /\ queue = [t \in Thread |-> <<>>]
        /\ recursive = NoOwner /\ nonRecursive = NoOwner /\ mutex = NoOwner
    BY DEF Init, LoggerInit
  <1>2. /\ files = [n \in Name |-> [i \in Index |-> NoFile]] /\ fileName \in Name
        /\ open = FALSE /\ pending = <<>> /\ count = 0 /\ up = FALSE /\ runs = 0 /\ gone = {} /\ errors = {}
    BY DEF Init
  <1>3. <<>> \in Seq(Record) /\ <<>> \in Seq(Message) /\ Len(<<>>) = 0 /\ 1..0 = {}
    BY EmptySeq
  <1>4. MemoryTyped
    BY <1>1, <1>3, MaxMessagesAssumption DEF MemoryTyped
  <1>5. FilesTyped
    BY <1>2, <1>3 DEF FilesTyped
  <1>6. ControlTyped
    <2>1. bufferSize \in Nat /\ pc \in [Thread -> PC] /\ runs \in 0..MaxRuns
      BY <1>1, <1>2, MaxRunsAssumption DEF PC
    <2> QED
      BY <1>1, <1>2, <2>1, Indices DEF ControlTyped
  <1>7. ProgramOK /\ BackupsWithinLimit
    BY <1>1, <1>2, <1>3, Indices DEF ProgramOK, BackupsWithinLimit, Logged
  <1>8. ASSUME NEW t \in Thread PROVE ThreadOK(t)
    BY <1>1, <1>2, ThreadAssumption DEF ThreadOK, InHandler
  <1> QED
    BY <1>4, <1>5, <1>6, <1>7, <1>8, TypeParts DEF StepsOK

-----------------------------------------------------------------------------
(* The second layer: the order of the messages.  A message is written when *)
(* it is read in one of the texts.                                         *)

Joins(s, p, r) ==
    /\ r \in Seq(Message) /\ Len(r) \in Nat /\ Len(s) \in Nat /\ Len(p) \in Nat /\ Len(r) = Len(s) + Len(p)
    /\ DOMAIN r = 1..Len(r)
    /\ \A x \in DOMAIN r : r[x] = IF x <= Len(s) THEN s[x] ELSE p[x - Len(s)]
    /\ \A e : (e \in ToSet(s) \/ e \in ToSet(p)) <=> \E x \in DOMAIN r : r[x] = e

LEMMA Joined ==
  ASSUME NEW s \in Seq(Message), NEW p \in Seq(Message), NEW r, r = s \o p
  PROVE  Joins(s, p, r)
  <1>1. /\ r \in Seq(Message) /\ Len(r) = Len(s) + Len(p)
        /\ \A x \in 1..(Len(s) + Len(p)) : r[x] = IF x <= Len(s) THEN s[x] ELSE p[x - Len(s)]
    BY ConcatProperties
  <1>2. /\ Len(s) \in Nat /\ Len(p) \in Nat /\ Len(r) \in Nat
        /\ DOMAIN s = 1..Len(s) /\ DOMAIN p = 1..Len(p) /\ DOMAIN r = 1..Len(r)
    BY <1>1, LenProperties
  <1>3. ASSUME NEW e, e \in ToSet(s) \/ e \in ToSet(p)
        PROVE  \E x \in DOMAIN r : r[x] = e
    <2>1. CASE e \in ToSet(s)
      <3>1. PICK x \in 1..Len(s) : s[x] = e
        BY <1>2, <2>1 DEF ToSet
      <3> QED
        BY <1>1, <1>2, <3>1
    <2>2. CASE e \in ToSet(p)
      <3>1. PICK x \in 1..Len(p) : p[x] = e
        BY <1>2, <2>2 DEF ToSet
      <3>2. Len(s) + x \in 1..(Len(s) + Len(p)) /\ ~(Len(s) + x <= Len(s)) /\ (Len(s) + x) - Len(s) = x
        BY <1>2, <3>1
      <3> QED
        BY <1>1, <1>2, <3>1, <3>2
    <2> QED
      BY <1>3, <2>1, <2>2
  <1>4. ASSUME NEW x \in DOMAIN r PROVE r[x] \in ToSet(s) \/ r[x] \in ToSet(p)
    <2>1. CASE x <= Len(s)
      BY <1>1, <1>2, <2>1 DEF ToSet
    <2>2. CASE ~(x <= Len(s))
      <3>1. x - Len(s) \in 1..Len(p)
        BY <1>1, <1>2, <2>2
      <3> QED
        BY <1>1, <1>2, <2>2, <3>1 DEF ToSet
    <2> QED
      BY <2>1, <2>2
  <1> QED
    BY <1>1, <1>2, <1>3, <1>4 DEF Joins

\* What a file of this layer is made of.
Readable == TypedFiles(files) /\ fileName \in Name /\ pending \in Seq(Message)

LEMMA ReadableFiles == StepsOK => Readable
  BY TypeParts DEF StepsOK, FilesTyped, ControlTyped, TypedFiles, Readable

LEMMA ReadableFilesPrimed == StepsOK' => Readable'
  BY TypePartsPrimed DEF StepsOK, FilesTyped, ControlTyped, TypedFiles, Readable

ContentsOf(f, n, i) == IF f[n][i] = NoFile THEN <<>> ELSE f[n][i]
TextOf(f, c, p, n, i) == ContentsOf(f, n, i) \o IF i = 0 /\ n = c THEN p ELSE <<>>

ReadAs(f, c, p) ==
    /\ \A n \in Name, i \in Index :
         /\ ContentsOf(f, n, i) \in Seq(Message)
         /\ TextOf(f, c, p, n, i) \in Seq(Message) /\ Len(TextOf(f, c, p, n, i)) \in Nat
         /\ DOMAIN TextOf(f, c, p, n, i) = 1..Len(TextOf(f, c, p, n, i))
         /\ TextOf(f, c, p, n, i) = IF i = 0 /\ n = c THEN ContentsOf(f, n, i) \o p ELSE ContentsOf(f, n, i)
    /\ \A k : (\E n \in Name, i \in Index : k \in ToSet(ContentsOf(f, n, i))) \/ k \in ToSet(p)
         <=> \E n \in Name, i \in Index : \E x \in DOMAIN TextOf(f, c, p, n, i) : TextOf(f, c, p, n, i)[x] = k

LEMMA Reading ==
  ASSUME NEW f, TypedFiles(f), NEW c \in Name, NEW p \in Seq(Message)
  PROVE  ReadAs(f, c, p)
  <1>1. \A n \in Name, i \in Index : ContentsOf(f, n, i) \in Seq(Message)
    BY EmptySeq DEF TypedFiles, ContentsOf
  <1>2. ASSUME NEW n \in Name, NEW i \in Index
        PROVE  /\ TextOf(f, c, p, n, i) \in Seq(Message) /\ Len(TextOf(f, c, p, n, i)) \in Nat
               /\ DOMAIN TextOf(f, c, p, n, i) = 1..Len(TextOf(f, c, p, n, i))
               /\ TextOf(f, c, p, n, i) = IF i = 0 /\ n = c THEN ContentsOf(f, n, i) \o p
                                          ELSE ContentsOf(f, n, i)
               /\ \A k : (\E x \in DOMAIN TextOf(f, c, p, n, i) : TextOf(f, c, p, n, i)[x] = k)
                    <=> k \in ToSet(ContentsOf(f, n, i)) \/ (i = 0 /\ n = c /\ k \in ToSet(p))
    <2>1. PICK s \in Seq(Message) : s = ContentsOf(f, n, i)
      BY <1>1
    <2>2. CASE i = 0 /\ n = c
      <3>1. PICK r : r = s \o p
        OBVIOUS
      <3>2. Joins(s, p, r)
        BY <3>1, Joined
      <3>3. TextOf(f, c, p, n, i) = r
        BY <2>1, <2>2, <3>1 DEF TextOf
      <3> QED
        BY <2>1, <2>2, <3>1, <3>2, <3>3 DEF Joins
    <2>3. CASE ~(i = 0 /\ n = c)
      <3>1. TextOf(f, c, p, n, i) = s
        BY <2>1, <2>3, ConcatEmptySeq DEF TextOf
      <3> QED
        BY <2>1, <2>3, <3>1, LenProperties DEF ToSet
    <2> QED
      BY <2>2, <2>3
  <1>3. ASSUME NEW k
        PROVE  (\E n \in Name, i \in Index : k \in ToSet(ContentsOf(f, n, i))) \/ k \in ToSet(p)
                 <=> \E n \in Name, i \in Index : \E x \in DOMAIN TextOf(f, c, p, n, i) :
                       TextOf(f, c, p, n, i)[x] = k
    BY <1>2, Indices
  <1> QED
    BY <1>1, <1>2, <1>3 DEF ReadAs

\* The same of the state and of the next.
LEMMA Texts ==
  ASSUME StepsOK
  PROVE  /\ ReadAs(files, fileName, pending)
         /\ \A n, i : Contents(n, i) = ContentsOf(files, n, i)
         /\ \A n, i : Text(n, i) = TextOf(files, fileName, pending, n, i)
         /\ \A k : Written(k) <=> (\E n \in Name, i \in Index : k \in ToSet(Contents(n, i))) \/ k \in ToSet(pending)
         /\ \A k : Written(k) <=> \E n \in Name, i \in Index : \E x \in DOMAIN Text(n, i) : Text(n, i)[x] = k
         /\ WrittenLogged => \A k : Written(k) => k \in Logged
  <1>1. TypedFiles(files) /\ fileName \in Name /\ pending \in Seq(Message)
    BY ReadableFiles DEF Readable
  <1>2. PICK f, c, p : f = files /\ c = fileName /\ p = pending
    OBVIOUS
  <1>3. ReadAs(f, c, p)
    BY <1>1, <1>2, Reading
  <1>4. /\ \A n, i : Contents(n, i) = ContentsOf(files, n, i)
        /\ \A n, i : Text(n, i) = TextOf(files, fileName, pending, n, i)
    BY DEF Contents, ContentsOf, Text, TextOf
  <1>5. \A k : Written(k) <=> (\E n \in Name, i \in Index : k \in ToSet(Contents(n, i))) \/ k \in ToSet(pending)
    BY DEF Written, OnDisk
  <1>6. \A k : Written(k) <=> \E n \in Name, i \in Index : \E x \in DOMAIN Text(n, i) : Text(n, i)[x] = k
    BY <1>2, <1>3, <1>4, <1>5 DEF ReadAs
  <1>7. \A k : Written(k) => k \in Message
    <2>1. \A n \in Name, i \in Index : Contents(n, i) \in Seq(Message)
      BY <1>2, <1>3, <1>4 DEF ReadAs
    <2> QED
      BY <1>1, <1>5, <2>1, Elements
  <1> QED
    BY <1>2, <1>3, <1>4, <1>5, <1>6, <1>7 DEF WrittenLogged

LEMMA TextsPrimed ==
  ASSUME StepsOK'
  PROVE  /\ ReadAs(files', fileName', pending')
         /\ \A n, i : Contents(n, i)' = ContentsOf(files', n, i)
         /\ \A n, i : Text(n, i)' = TextOf(files', fileName', pending', n, i)
         /\ \A k : Written(k)' <=> (\E n \in Name, i \in Index : k \in ToSet(Contents(n, i)')) \/ k \in ToSet(pending')
         /\ \A k : Written(k)' <=> \E n \in Name, i \in Index : \E x \in DOMAIN Text(n, i)' : Text(n, i)'[x] = k
  <1>1. TypedFiles(files') /\ fileName' \in Name /\ pending' \in Seq(Message)
    BY ReadableFilesPrimed DEF Readable, TypedFiles
  <1>2. PICK f, c, p : f = files' /\ c = fileName' /\ p = pending'
    OBVIOUS
  <1>3. ReadAs(f, c, p)
    BY <1>1, <1>2, Reading
  <1>4. /\ \A n, i : Contents(n, i)' = ContentsOf(files', n, i)
        /\ \A n, i : Text(n, i)' = TextOf(files', fileName', pending', n, i)
    BY DEF Contents, ContentsOf, Text, TextOf
  <1>5. \A k : Written(k)' <=> (\E n \in Name, i \in Index : k \in ToSet(Contents(n, i)')) \/ k \in ToSet(pending')
    BY DEF Written, OnDisk
  <1>6. ASSUME NEW k
        PROVE  Written(k)' <=> \E n \in Name, i \in Index : \E x \in DOMAIN Text(n, i)' : Text(n, i)'[x] = k
    <2>1. (\E n \in Name, i \in Index : k \in ToSet(ContentsOf(f, n, i))) \/ k \in ToSet(p)
            <=> \E n \in Name, i \in Index : \E x \in DOMAIN TextOf(f, c, p, n, i) :
                  TextOf(f, c, p, n, i)[x] = k
      BY <1>3 DEF ReadAs
    <2>2. Written(k)' <=> (\E n \in Name, i \in Index : k \in ToSet(ContentsOf(f, n, i))) \/ k \in ToSet(p)
      BY <1>2, <1>4, <1>5
    <2>3. \A n, i : Text(n, i)' = TextOf(f, c, p, n, i)
      BY <1>2, <1>4
    <2> QED
      BY <2>1, <2>2, <2>3
  <1> QED
    BY <1>2, <1>3, <1>4, <1>5, <1>6

\* What a thread holds can get less, and what it is about to log stays.
Forgetting ==
    /\ UNCHANGED messages
    /\ \A t \in Thread :
         /\ Own(t, queue[t])' /\ ToSet(queue'[t]) \subseteq ToSet(queue[t])
         /\ Own(t, buffers[t])' /\ ToSet(buffers'[t]) \subseteq ToSet(buffers[t])
         /\ Entering(t)' => Entering(t) /\ current'[t] = current[t]

\* The texts can get other places, in the same order, and shorter.
Rearranging(g) ==
    /\ \A n \in Name, i \in Index : \A x \in DOMAIN Text(n, i)' :
         x \in DOMAIN Text(n, g[n][i]) /\ Text(n, i)'[x] = Text(n, g[n][i])[x]
    /\ \A n \in Name, i, j \in Index : \A x \in DOMAIN Text(n, i)', y \in DOMAIN Text(n, j)' :
         i > j => g[n][i] > g[n][j]

LEMMA Rearranged ==
  ASSUME StepsOK, StepsOK', OrderOK, NEW g \in [Name -> [Index -> Index]], Rearranging(g), Forgetting
  PROVE  OrderOK'
  <1>1. messages' = messages /\ Logged' = Logged /\ \A k, m : Precedes(k, m)' <=> Precedes(k, m)
    BY DEF Forgetting, Logged, Precedes
  <1>2. ASSUME NEW k, Written(k)' PROVE Written(k) /\ k \in Logged
    <2>1. PICK n \in Name, i \in Index : \E x \in DOMAIN Text(n, i)' : Text(n, i)'[x] = k
      BY <1>2, TextsPrimed
    <2>2. g[n][i] \in Index /\ \E x \in DOMAIN Text(n, g[n][i]) : Text(n, g[n][i])[x] = k
      BY <2>1 DEF Rearranging
    <2>3. Written(k)
      BY <2>2, Texts
    <2> QED
      BY <2>3, Texts DEF OrderOK
  <1>3. WrittenLogged'
    BY <1>1, <1>2 DEF WrittenLogged
  <1>4. MessagesInOrder'
    <2> SUFFICES ASSUME NEW n \in Name, NEW i \in Index, NEW j \in Index,
                        NEW x \in DOMAIN Text(n, i)', NEW y \in DOMAIN Text(n, j)',
                        i > j \/ (i = j /\ x < y)
                 PROVE  Precedes(Text(n, i)'[x], Text(n, j)'[y])
      BY <1>1 DEF MessagesInOrder, Precedes
    <2>1. PICK a \in Index, b \in Index : a = g[n][i] /\ b = g[n][j]
      OBVIOUS
    <2>2. /\ x \in DOMAIN Text(n, a) /\ Text(n, i)'[x] = Text(n, a)[x]
          /\ y \in DOMAIN Text(n, b) /\ Text(n, j)'[y] = Text(n, b)[y]
      BY <2>1 DEF Rearranging
    <2>3. a > b \/ (a = b /\ x < y)
      BY <2>1 DEF Rearranging
    <2>4. Precedes(Text(n, a)[x], Text(n, b)[y])
      BY <2>2, <2>3 DEF OrderOK, MessagesInOrder
    <2> QED
      BY <2>2, <2>4
  <1>5. ASSUME NEW t \in Thread PROVE MemoryOK(t)'
    <2>1. MemoryOK(t)
      BY DEF OrderOK
    <2>2. /\ Own(t, queue[t])' /\ ToSet(queue'[t]) \subseteq ToSet(queue[t])
          /\ Own(t, buffers[t])' /\ ToSet(buffers'[t]) \subseteq ToSet(buffers[t])
          /\ Entering(t)' => Entering(t) /\ current'[t] = current[t]
      BY DEF Forgetting
    <2>3. \A k \in ToSet(buffers'[t]) :
            (\A m \in ToSet(queue'[t]) : Precedes(m, k)') /\ (Entering(t)' => k < current'[t])
      BY <1>1, <2>1, <2>2 DEF MemoryOK
    <2>4. \A k \in Logged : Written(k)' =>
            /\ \A m \in ToSet(queue'[t]) \cup ToSet(buffers'[t]) : Precedes(k, m)'
            /\ Entering(t)' => Precedes(k, current[t])'
      BY <1>1, <1>2, <2>1, <2>2 DEF MemoryOK, Precedes
    <2> QED
      BY <1>1, <2>2, <2>3, <2>4 DEF MemoryOK
  <1> QED
    BY <1>3, <1>4, <1>5 DEF OrderOK

LEMMA Forgets ==
  ASSUME StepsOK, OrderOK, UNCHANGED messages,
         \A t \in Thread : /\ queue'[t] \in {queue[t], <<>>} /\ buffers'[t] \in {buffers[t], <<>>}
                           /\ Entering(t)' => Entering(t) /\ current'[t] = current[t]
  PROVE  Forgetting
  <1>1. ASSUME NEW t \in Thread
        PROVE  /\ Own(t, queue[t])' /\ ToSet(queue'[t]) \subseteq ToSet(queue[t])
               /\ Own(t, buffers[t])' /\ ToSet(buffers'[t]) \subseteq ToSet(buffers[t])
    <2>1. Own(t, queue[t]) /\ Own(t, buffers[t])
      BY DEF OrderOK, MemoryOK
    <2>2. Own(t, queue[t])' /\ Own(t, buffers[t])'
      BY <2>1 DEF Own, Logged
    <2>3. ToSet(<<>>) = {}
      BY DEF ToSet
    <2> QED
      BY <2>2, <2>3
  <1> QED
    BY <1>1 DEF Forgetting

\* The texts stay at their places.
LEMMA Shortened ==
  ASSUME StepsOK, StepsOK', OrderOK, Forgetting,
         \A n \in Name, i \in Index : \A x \in DOMAIN Text(n, i)' :
            x \in DOMAIN Text(n, i) /\ Text(n, i)'[x] = Text(n, i)[x]
  PROVE  OrderOK'
  <1>1. PICK g \in [Name -> [Index -> Index]] : g = [n \in Name |-> [i \in Index |-> i]]
    OBVIOUS
  <1>2. Rearranging(g)
    BY <1>1 DEF Rearranging
  <1> QED
    BY <1>2, Rearranged

\* The buffer of the QFile is kept or lost.
LEMMA OrderOfSameFiles ==
  ASSUME StepsOK, StepsOK', OrderOK, Forgetting, UNCHANGED <<files, fileName>>, pending' \in {pending, <<>>}
  PROVE  OrderOK'
  <1>1. CASE pending' = pending
    BY <1>1, Shortened DEF Text, Contents
  <1>2. CASE pending' = <<>>
    <2> SUFFICES ASSUME NEW n \in Name, NEW i \in Index, NEW x \in DOMAIN Text(n, i)'
                 PROVE  x \in DOMAIN Text(n, i) /\ Text(n, i)'[x] = Text(n, i)[x]
      BY Shortened
    <2>1. PICK s \in Seq(Message), p \in Seq(Message), r \in {Text(n, i)} : s = Contents(n, i) /\ p = pending /\ r = Text(n, i)
      BY Texts, ReadableFiles DEF ReadAs, Readable
    <2>2. Text(n, i)' = s
      BY <1>2, <2>1, ConcatEmptySeq DEF Text, Contents
    <2>3. r = s \o p \/ r = s
      BY <2>1, Texts DEF ReadAs
    <2>4. CASE r = s
      BY <2>1, <2>2, <2>4
    <2>5. CASE r = s \o p
      <3>1. Joins(s, p, r)
        BY <2>5, Joined
      <3>2. x \in 1..Len(s)
        BY <2>2, LenProperties
      <3> QED
        BY <2>1, <2>2, <3>1, <3>2 DEF Joins
    <2> QED
      BY <2>3, <2>4, <2>5
  <1> QED
    BY <1>1, <1>2

\* Everything is on the disk.
LEMMA OrderOfFlushedFiles ==
  ASSUME StepsOK, StepsOK', OrderOK, Forgetting, pending' = <<>>,
         \A n \in Name, i \in Index : ContentsOf(files', n, i) = Text(n, i)
  PROVE  OrderOK'
  <1>1. ASSUME NEW n \in Name, NEW i \in Index PROVE Text(n, i)' = Text(n, i)
    <2>1. Text(n, i) \in Seq(Message)
      BY Texts DEF ReadAs
    <2>2. Text(n, i)' = Text(n, i) \o <<>>
      BY TextsPrimed DEF TextOf
    <2> QED
      BY <2>1, <2>2, ConcatEmptySeq
  <1> QED
    BY <1>1, Shortened

LEMMA ContentsOfCreated ==
  ASSUME NEW f, TypedFiles(f), NoneBeyond(f), NEW n \in Name
  PROVE  \A k \in Name, i \in Index : ContentsOf(Created(f, n), k, i) = ContentsOf(f, k, i)
  BY CreatedFiles DEF ContentsOf

LEMMA ContentsOfFlushed ==
  ASSUME StepsOK
  PROVE  \A n \in Name, i \in Index : ContentsOf(Flushed(files), n, i) = Text(n, i)
  <1> SUFFICES ASSUME NEW n \in Name, NEW i \in Index
               PROVE  ContentsOf(Flushed(files), n, i) = Text(n, i)
    OBVIOUS
  <1>1. PICK f : f = Flushed(files)
    OBVIOUS
  <1>2. /\ files[n][i] = NoFile \/ files[n][i] \in Seq(Message)
        /\ pending \in Seq(Message) /\ (~open => pending = <<>>)
    BY TypeParts DEF StepsOK, FilesTyped
  <1>3. CASE open /\ n = fileName /\ i = 0
    <2>1. files[n][i] \in Seq(Message) /\ f[n][i] = files[n][i] \o pending
      BY <1>1, <1>3, FlushedFiles
    <2>2. f[n][i] \in Seq(Message)
      BY <1>2, <2>1, ConcatProperties
    <2> QED
      BY <1>1, <1>3, <2>1, <2>2, NoFileAssumption DEF ContentsOf, Text, Contents
  <1>4. CASE ~(open /\ n = fileName /\ i = 0)
    <2>1. f[n][i] = files[n][i]
      BY <1>1, <1>4, FlushedFiles
    <2>2. Contents(n, i) \in Seq(Message)
      BY <1>2, EmptySeq DEF Contents
    <2>3. Text(n, i) = Contents(n, i) \o <<>>
      BY <1>2, <1>4 DEF Text
    <2> QED
      BY <1>1, <2>1, <2>2, <2>3, ConcatEmptySeq DEF ContentsOf, Contents
  <1> QED
    BY <1>3, <1>4

-----------------------------------------------------------------------------
(* The second layer of the steps that leave the messages where they are.   *)

LEMMA ClearOrder ==
  ASSUME StepsOK, StepsOK', OrderOK, NEW t \in Thread, Clear(t), UNCHANGED fileVars
  PROVE  OrderOK'
  <1>1. \A g \in Thread : buffers'[g] \in {buffers[g], <<>>}
    BY Types DEF StepsOK, Clear
  <1>2. Forgetting
    BY <1>1, Forgets DEF Clear, Entering
  <1> QED
    BY <1>2, OrderOfSameFiles DEF fileVars

LEMMA EnterOrder ==
  ASSUME StepsOK, StepsOK', OrderOK, NEW t \in Thread, Enter(t), UNCHANGED fileVars
  PROVE  OrderOK'
  <1>1. pc'[t] = "log" /\ \A g \in Thread : g # t => pc'[g] = pc[g]
    BY Types DEF StepsOK, Enter, Goto
  <1>2. pc[t] = "enter" \/ current[t] = 0
    BY Types DEF StepsOK, Enter, TryLock, ThreadOK, InHandler
  <1>3. Forgetting
    BY <1>1, <1>2, Forgets DEF Enter, Entering, logged
  <1> QED
    BY <1>3, OrderOfSameFiles DEF fileVars

LEMMA WriteFailsOrder ==
  ASSUME StepsOK, StepsOK', OrderOK, NEW t \in Thread, WriteFails(t)
  PROVE  OrderOK'
  <1>1. pc'[t] = "warn" /\ \A g \in Thread : g # t => pc'[g] = pc[g]
    BY Types DEF StepsOK, WriteFails, Goto
  <1>2. Forgetting
    BY <1>1, Forgets DEF WriteFails, Entering, logged
  <1> QED
    BY <1>2, OrderOfSameFiles DEF WriteFails

LEMMA WarnOnStderrOrder ==
  ASSUME StepsOK, StepsOK', OrderOK, NEW t \in Thread, WarnOnStderr(t)
  PROVE  OrderOK'
  <1>1. pc'[t] = "print" /\ \A g \in Thread : g # t => pc'[g] = pc[g]
    BY Types DEF StepsOK, WarnOnStderr, Goto
  <1>2. Forgetting
    BY <1>1, Forgets DEF WarnOnStderr, Entering, logged
  <1> QED
    BY <1>2, OrderOfSameFiles DEF WarnOnStderr

\* What is left of the queue of a thread when its first message is printed.
LEMMA TailOfQueue ==
  ASSUME StepsOK, OrderOK, NEW t \in Thread, Printing(t), UNCHANGED messages,
         queue' = [queue EXCEPT ![t] = Tail(@)]
  PROVE  /\ queue'[t] = Tail(queue[t]) /\ \A g \in Thread : g # t => queue'[g] = queue[g]
         /\ Own(t, queue[t])' /\ ToSet(queue'[t]) \subseteq ToSet(queue[t])
         /\ Head(queue[t]) \in ToSet(queue[t]) /\ Head(queue[t]) \in Logged
         /\ messages[Head(queue[t])].thread = t
         /\ \A m \in ToSet(queue'[t]) : Head(queue[t]) < m
  <1>1. queue'[t] = Tail(queue[t]) /\ \A g \in Thread : g # t => queue'[g] = queue[g]
    BY Types DEF StepsOK
  <1>2. PICK q \in Seq(Message), r \in Seq(Message) : q = queue[t] /\ r = Tail(queue[t])
    BY Queues
  <1>3. /\ DOMAIN q = 1..Len(q) /\ DOMAIN r = 1..Len(r) /\ Len(q) \in Nat \ {0} /\ Len(r) = Len(q) - 1
        /\ \A x \in 1..Len(r) : r[x] = q[x + 1]
        /\ Head(q) = q[1]
    BY <1>2, Queues, LenProperties
  <1>4. \A x \in DOMAIN q : /\ q[x] \in Logged /\ messages[q[x]].thread = t
                            /\ \A y \in 1..(x - 1) : q[y] < q[x]
    BY <1>2 DEF OrderOK, MemoryOK, Own
  <1>5. \A x \in DOMAIN r : x + 1 \in DOMAIN q /\ 1 \in DOMAIN q /\ 1 \in 1..((x + 1) - 1)
    BY <1>3
  <1>6. Own(t, r)
    BY <1>3, <1>4, <1>5 DEF Own
  <1>7. Own(t, queue[t])'
    BY <1>1, <1>2, <1>6 DEF Own, Logged
  <1>8. ToSet(r) \subseteq ToSet(q) /\ q[1] \in ToSet(q) /\ \A m \in ToSet(r) : q[1] < m
    <2>1. q[1] \in ToSet(q)
      BY <1>3 DEF ToSet
    <2>2. ASSUME NEW m \in ToSet(r) PROVE m \in ToSet(q) /\ q[1] < m
      <3>1. PICK x \in DOMAIN r : m = r[x]
        BY DEF ToSet
      <3>2. m = q[x + 1] /\ x + 1 \in DOMAIN q
        BY <1>3, <1>5, <3>1
      <3>3. q[1] < q[x + 1]
        BY <1>4, <1>5
      <3> QED
        BY <3>2, <3>3 DEF ToSet
    <2> QED
      BY <2>1, <2>2
  <1>9. Head(q) \in Logged /\ messages[Head(q)].thread = t
    BY <1>3, <1>4
  <1> QED
    BY <1>1, <1>2, <1>3, <1>7, <1>8, <1>9

LEMMA WriteToStderrOrder ==
  ASSUME StepsOK, StepsOK', OrderOK, NEW t \in Thread, WriteToStderr(t)
  PROVE  OrderOK'
  <1>1. /\ UNCHANGED <<messages, current, pc, buffers, Logged, files, fileName, pending>>
        /\ queue' = [queue EXCEPT ![t] = Tail(@)] /\ Printing(t)
    BY DEF WriteToStderr, logged, fileVars, Logged
  <1>2. ASSUME NEW g \in Thread
        PROVE  /\ Own(g, queue[g])' /\ ToSet(queue'[g]) \subseteq ToSet(queue[g])
               /\ Own(g, buffers[g])'
    <2>1. Own(g, queue[g]) /\ Own(g, buffers[g])
      BY DEF OrderOK, MemoryOK
    <2>2. Own(g, buffers[g])' /\ (g # t => Own(g, queue[g])' /\ queue'[g] = queue[g])
      BY <1>1, <2>1, TailOfQueue DEF Own
    <2>3. CASE g = t
      BY <1>1, <2>2, <2>3, TailOfQueue
    <2>4. CASE g # t
      BY <2>2, <2>4
    <2> QED
      BY <2>3, <2>4
  <1>3. Forgetting
    BY <1>1, <1>2 DEF Forgetting, Entering
  <1> QED
    BY <1>1, <1>3, OrderOfSameFiles

LEMMA StopOrder ==
  ASSUME StepsOK, StepsOK', OrderOK, Stop
  PROVE  OrderOK'
  <1>1. Forgetting
    BY Forgets DEF Stop, ThreadsReset, logged, Entering
  <1> QED
    BY <1>1, OrderOfSameFiles DEF Stop

LEMMA ReturnOrder ==
  ASSUME StepsOK, StepsOK', OrderOK, NEW t \in Thread, Return(t)
  PROVE  OrderOK'
  <1>1. CASE Stop
    BY <1>1, StopOrder
  <1>2. CASE LogReturns(t) /\ UNCHANGED fileVars
    <2>1. /\ pc'[t] = "idle" /\ \A g \in Thread : g # t => pc'[g] = pc[g] /\ current'[g] = current[g]
      BY <1>2, Types DEF StepsOK, LogReturns, Goto
    <2>2. Forgetting
      BY <1>2, <2>1, Forgets DEF LogReturns, logged, Entering
    <2> QED
      BY <1>2, <2>2, OrderOfSameFiles DEF fileVars
  <1> QED
    BY <1>1, <1>2 DEF Return

LEMMA StartOrder ==
  ASSUME StepsOK, StepsOK', OrderOK, Start
  PROVE  OrderOK'
  <1>1. /\ UNCHANGED <<messages, pc, current, buffers, queue, pending>> /\ pending = <<>>
    BY TypeParts DEF StepsOK, ProgramOK, FilesTyped, Start, logged
  <1>2. Forgetting
    BY <1>1, Forgets DEF Entering
  <1>3. PICK n \in Name : files' = Created(files, n) \/ files' = files
    BY SettingsAssumption DEF Start
  <1>4. TypedFiles(files) /\ NoneBeyond(files)
    BY ReadableFiles DEF Readable, StepsOK, NoneBeyond, BackupsWithinLimit
  <1>5. PICK f : f = files
    OBVIOUS
  <1>6. ASSUME NEW k \in Name, NEW i \in Index PROVE ContentsOf(files', k, i) = Text(k, i)
    <2>1. ContentsOf(files', k, i) = ContentsOf(f, k, i)
      BY <1>3, <1>4, <1>5, ContentsOfCreated
    <2>2. ContentsOf(f, k, i) \in Seq(Message) /\ Text(k, i) = ContentsOf(f, k, i) \o <<>>
      BY <1>1, <1>5, Texts DEF ReadAs, TextOf
    <2> QED
      BY <2>1, <2>2, ConcatEmptySeq
  <1> QED
    BY <1>1, <1>2, <1>6, OrderOfFlushedFiles

LEMMA FlushTimerOrder ==
  ASSUME StepsOK, StepsOK', OrderOK, FlushTimer
  PROVE  OrderOK'
  <1>1. pc'[Main] = "flush" /\ \A g \in Thread : g # Main => pc'[g] = pc[g]
    BY Types DEF StepsOK, FlushTimer, Goto
  <1>2. Forgetting
    BY <1>1, Forgets DEF FlushTimer, Entering, logged
  <1> QED
    BY <1>2, OrderOfSameFiles DEF FlushTimer, fileVars

LEMMA FlushFileOrder ==
  ASSUME StepsOK, StepsOK', OrderOK, FlushFile
  PROVE  OrderOK'
  <1>1. pc'[Main] \in {"rotate", "idle"} /\ \A g \in Thread : g # Main => pc'[g] = pc[g]
    BY Types DEF StepsOK, FlushFile, Goto
  <1>2. Forgetting
    BY <1>1, Forgets DEF FlushFile, Entering, logged
  <1>3. \A n \in Name, i \in Index : ContentsOf(files', n, i) = Text(n, i)
    BY ContentsOfFlushed DEF FlushFile
  <1> QED
    BY <1>2, <1>3, OrderOfFlushedFiles DEF FlushFile

LEMMA RefreshOrder ==
  ASSUME StepsOK, StepsOK', OrderOK, Refresh
  PROVE  OrderOK'
  <1>1. PICK s \in Settings : UNCHANGED <<fileVars, mutex, pc>> \/ SwitchTo(s.fileName)
    BY DEF Refresh
  <1>2. pc'[Main] \in {pc[Main], "warn"} /\ (\A g \in Thread : g # Main => pc'[g] = pc[g])
        /\ current[Main] = 0
    BY <1>1, Types DEF StepsOK, SwitchTo, Goto, Refresh, MainIdle, ThreadOK
  <1>3. Forgetting
    BY <1>2, Forgets DEF Refresh, Entering, logged
  <1>4. CASE UNCHANGED <<fileVars, mutex, pc>>
    BY <1>3, <1>4, OrderOfSameFiles DEF fileVars
  <1>5. CASE SwitchTo(s.fileName)
    <2>1. PICK n \in Name : n = s.fileName
      BY SettingsAssumption
    <2>2. PICK f : f = Flushed(files)
      OBVIOUS
    <2>3. TypedFiles(f) /\ NoneBeyond(f) /\ \A k \in Name, i \in Index : ContentsOf(f, k, i) = Text(k, i)
      BY <2>2, FlushedFiles, ContentsOfFlushed
    <2>4. \A k \in Name, i \in Index : ContentsOf(Created(f, n), k, i) = Text(k, i)
      BY <2>3, ContentsOfCreated
    <2>5. pending' = <<>> /\ (files' = f \/ files' = Created(f, n))
      BY <1>5, <2>1, <2>2 DEF SwitchTo
    <2>6. \A k \in Name, i \in Index : ContentsOf(files', k, i) = Text(k, i)
      BY <2>3, <2>4, <2>5
    <2> QED
      BY <1>3, <2>5, <2>6, OrderOfFlushedFiles
  <1> QED
    BY <1>1, <1>4, <1>5

LEMMA ReopenOrder ==
  ASSUME StepsOK, StepsOK', OrderOK, Reopen
  PROVE  OrderOK'
  <1>1. pc'[Main] \in {"warn", "idle"} /\ (\A g \in Thread : g # Main => pc'[g] = pc[g]) /\ current[Main] = 0
    BY Types DEF StepsOK, Reopen, Goto, ThreadOK
  <1>2. Forgetting
    BY <1>1, Forgets DEF Reopen, Entering, logged
  <1>3. pending = <<>> /\ pending' = <<>> /\ TypedFiles(files) /\ NoneBeyond(files) /\ fileName \in Name
    BY MainSteps DEF Reopen, Timing
  <1>4. PICK f : f = files
    OBVIOUS
  <1>5. ASSUME NEW k \in Name, NEW i \in Index PROVE ContentsOf(files', k, i) = Text(k, i)
    <2>1. ContentsOf(files', k, i) = ContentsOf(f, k, i)
      <3>1. PICK c \in Name : c = fileName
        BY <1>3
      <3>2. PICK h : h = files
        OBVIOUS
      <3>3. ContentsOf(Created(h, c), k, i) = ContentsOf(h, k, i)
        BY <1>3, <3>2, ContentsOfCreated
      <3>4. files' = h \/ files' = Created(h, c)
        BY <3>1, <3>2 DEF Reopen
      <3> QED
        BY <1>4, <3>2, <3>3, <3>4
    <2>2. ContentsOf(f, k, i) \in Seq(Message) /\ Text(k, i) = ContentsOf(f, k, i) \o <<>>
      BY <1>3, <1>4, Texts DEF ReadAs, TextOf
    <2> QED
      BY <2>1, <2>2, ConcatEmptySeq
  <1> QED
    BY <1>2, <1>3, <1>5, OrderOfFlushedFiles

LEMMA RemoveBackupOrder ==
  ASSUME StepsOK, StepsOK', OrderOK, RemoveBackup
  PROVE  OrderOK'
  <1>1. Forgetting
    BY Forgets DEF RemoveBackup, Entering, loggerVars, logged
  <1>2. CASE UNCHANGED files
    BY <1>1, <1>2, OrderOfSameFiles DEF RemoveBackup
  <1>3. CASE files' = [files EXCEPT ![fileName][count] = NoFile]
    <2>1. count \in Index /\ count # 0 /\ TypedFiles(files) /\ UNCHANGED <<fileName, pending>>
      BY MainSteps, MaxBackupsAssumption DEF RemoveBackup, TooMany, Timing, Index
    <2>2. \A n \in Name, i \in Index :
            files'[n][i] = IF n = fileName /\ i = count THEN NoFile ELSE files[n][i]
      BY <1>3, <2>1 DEF TypedFiles
    <2>3. ASSUME NEW n \in Name, NEW i \in Index, NEW x \in DOMAIN Text(n, i)'
          PROVE  x \in DOMAIN Text(n, i) /\ Text(n, i)'[x] = Text(n, i)[x]
      <3>1. CASE n = fileName /\ i = count
        <4>1. Text(n, i)' = <<>> \o <<>>
          BY <2>1, <2>2, <3>1 DEF Text, Contents
        <4>2. <<>> \o <<>> = <<>>
          BY EmptySeq, ConcatEmptySeq
        <4> QED
          BY <4>1, <4>2
      <3>2. CASE ~(n = fileName /\ i = count)
        BY <2>1, <2>2, <3>2 DEF Text, Contents
      <3> QED
        BY <3>1, <3>2
    <2> QED
      BY <1>1, <2>3, Shortened
  <1> QED
    BY <1>2, <1>3 DEF RemoveBackup

\* A file gets the place of the next backup.
LEMMA OrderOfMovedFiles ==
  ASSUME StepsOK, StepsOK', OrderOK, Forgetting, pc[Main] = "rotate",
         NEW i \in Index, i < MaxBackups,
         files' \in {files, Renamed(files, i, i + 1)},
         UNCHANGED <<fileName, open, pending>>
  PROVE  OrderOK'
  <1>1. pending = <<>> /\ up /\ pc[Main] \in Timing
    BY MainSteps DEF Timing
  <1>2. CASE files' = files
    BY <1>2, OrderOfSameFiles
  <1>3. CASE files' # files
    <2>1. /\ i + 1 \in Index /\ files[fileName][i + 1] = NoFile
          /\ \A n \in Name, j \in Index :
               files'[n][j] = IF n = fileName /\ j = i THEN NoFile
                              ELSE IF n = fileName /\ j = i + 1 THEN files[fileName][i]
                              ELSE files[n][j]
      BY <1>1, <1>3, MovedFiles
    <2>2. PICK c \in Name : c = fileName
      BY <1>1, MainSteps
    <2>3. PICK g \in [Name -> [Index -> Index]] :
            g = [n \in Name |-> [j \in Index |-> IF n = c /\ j = i + 1 THEN i ELSE j]]
      OBVIOUS
    <2>4. \A n \in Name, j \in Index : Text(n, j)' = IF n = c /\ j = i THEN <<>> ELSE Text(n, g[n][j])
      <3> SUFFICES ASSUME NEW n \in Name, NEW j \in Index
                   PROVE  Text(n, j)' = IF n = c /\ j = i THEN <<>> ELSE Text(n, g[n][j])
        OBVIOUS
      <3>1. ASSUME NEW k \in Index
            PROVE  Text(n, k) = Contents(n, k) /\ Text(n, k)' = Contents(n, k)'
        <4>1. Text(n, k) = Contents(n, k) \o <<>> /\ Text(n, k)' = Contents(n, k)' \o <<>>
          BY <1>1 DEF Text
        <4>2. Contents(n, k) \in Seq(Message) /\ Contents(n, k)' \in Seq(Message)
          BY Texts, TextsPrimed DEF ReadAs
        <4> QED
          BY <4>1, <4>2, ConcatEmptySeq
      <3>2. i # i + 1
        BY DEF Index
      <3>3. Contents(n, j)' = IF n = c /\ j = i THEN <<>> ELSE Contents(n, g[n][j])
        BY <2>1, <2>2, <2>3, <3>2 DEF Contents
      <3> QED
        BY <2>3, <3>1, <3>3
    <2>5. Rearranging(g)
      <3>1. ASSUME NEW n \in Name, NEW j \in Index, NEW x \in DOMAIN Text(n, j)'
            PROVE  /\ x \in DOMAIN Text(n, g[n][j]) /\ Text(n, j)'[x] = Text(n, g[n][j])[x]
                   /\ ~(n = c /\ j = i)
        BY <2>4
      <3>2. ASSUME NEW n \in Name, NEW j \in Index, NEW k \in Index, ~(n = c /\ j = i), ~(n = c /\ k = i), j > k
            PROVE  g[n][j] > g[n][k]
        BY <2>3, <3>2 DEF Index
      <3> QED
        BY <3>1, <3>2 DEF Rearranging
    <2> QED
      BY <2>5, Rearranged
  <1> QED
    BY <1>2, <1>3

LEMMA ShiftBackupOrder ==
  ASSUME StepsOK, StepsOK', OrderOK, ShiftBackup
  PROVE  OrderOK'
  <1>1. Forgetting
    BY Forgets DEF ShiftBackup, Entering, loggerVars, logged
  <1>2. pc[Main] = "rotate" /\ count \in Index /\ count < MaxBackups /\ UNCHANGED <<fileName, open, pending>>
    BY MainSteps, MaxBackupsAssumption DEF ShiftBackup, TooMany, Timing, Index
  <1>3. PICK i \in Index : i = count
    BY <1>2
  <1> QED
    BY <1>1, <1>2, <1>3, OrderOfMovedFiles DEF ShiftBackup

LEMMA BackupFileOrder ==
  ASSUME StepsOK, StepsOK', OrderOK, BackupFile
  PROVE  OrderOK'
  <1>1. pc'[Main] = "reopen" /\ \A g \in Thread : g # Main => pc'[g] = pc[g]
    BY Types DEF StepsOK, BackupFile, Goto
  <1>2. Forgetting
    BY <1>1, Forgets DEF BackupFile, Entering, logged
  <1>3. PICK i \in Index : i = 0 /\ i + 1 = 1 /\ i < MaxBackups
    BY Indices, MaxBackupsAssumption
  <1> QED
    BY <1>2, <1>3, OrderOfMovedFiles DEF BackupFile

-----------------------------------------------------------------------------
(* The second layer of the steps that hand a message on. *)

\* The texts stay and so does what messages they are of.
LEMMA OrderOfSameTexts ==
  ASSUME StepsOK, OrderOK, UNCHANGED <<files, fileName, pending>>,
         \A k, m \in Logged : Precedes(k, m) => Precedes(k, m)', Logged \subseteq Logged'
  PROVE  /\ WrittenLogged' /\ MessagesInOrder' /\ \A k : Written(k)' <=> Written(k)
  <1>1. \A n, i : Text(n, i)' = Text(n, i)
    BY DEF Text, Contents
  <1>2. \A k : Written(k)' <=> Written(k)
    BY DEF Written, OnDisk, Contents
  <1>3. WrittenLogged'
    BY <1>2 DEF OrderOK, WrittenLogged
  <1>4. MessagesInOrder'
    <2> SUFFICES ASSUME NEW n \in Name, NEW i \in Index, NEW j \in Index,
                        NEW x \in DOMAIN Text(n, i), NEW y \in DOMAIN Text(n, j),
                        i > j \/ (i = j /\ x < y)
                 PROVE  Precedes(Text(n, i)[x], Text(n, j)[y])'
      BY <1>1 DEF MessagesInOrder, Precedes
    <2>1. PICK k, m : k = Text(n, i)[x] /\ m = Text(n, j)[y]
      OBVIOUS
    <2>2. Written(k) /\ Written(m)
      BY <2>1, Texts
    <2>3. k \in Logged /\ m \in Logged
      BY <2>2, Texts DEF OrderOK
    <2>4. Precedes(k, m)
      BY <2>1 DEF OrderOK, MessagesInOrder
    <2>5. Precedes(k, m)'
      BY <2>3, <2>4
    <2> QED
      BY <1>1, <2>1, <2>5 DEF Precedes
  <1> QED
    BY <1>2, <1>3, <1>4

LEMMA CallOrder ==
  ASSUME StepsOK, StepsOK', OrderOK, NEW t \in Thread, NEW l \in Level[t], Call(t, l, runs), UNCHANGED fileVars
  PROVE  OrderOK'
  <1>1. PICK c : c = Len(messages) + 1
    OBVIOUS
  <1>2. /\ c \in Nat /\ Logged' = Logged \cup {c} /\ (\A k \in Logged : k < c)
        /\ \A k \in Logged : messages'[k] = messages[k]
        /\ messages'[c].thread = t
    <2>1. PICK r \in Record : r = [thread |-> t, level |-> l, run |-> runs, direct |-> FALSE]
      <3>1. l \in 0..4 /\ runs \in Nat
        BY LevelAssumption, Types DEF StepsOK
      <3> QED
        BY <3>1 DEF Record
    <2>2. messages' = Append(messages, r) /\ messages \in Seq(Record) /\ Len(messages) \in Nat
      BY <2>1, Types DEF Call, StepsOK
    <2>3. /\ Len(messages') = Len(messages) + 1 /\ messages'[c] = r
          /\ \A k \in 1..Len(messages) : messages'[k] = messages[k]
      BY <1>1, <2>2, AppendProperties
    <2> QED
      BY <1>1, <2>1, <2>2, <2>3 DEF Logged
  <1>3. /\ \A k, m \in Logged : Precedes(k, m) => Precedes(k, m)'
        /\ UNCHANGED <<files, fileName, pending, queue, buffers>>
    BY <1>2 DEF Precedes, Call, fileVars
  <1>4. WrittenLogged' /\ MessagesInOrder' /\ \A k : Written(k)' => Written(k) /\ k \in Logged
    BY <1>2, <1>3, OrderOfSameTexts, Texts DEF OrderOK
  <1>5. /\ current'[t] = c /\ pc'[t] = "enter"
        /\ \A g \in Thread : g # t => current'[g] = current[g] /\ pc'[g] = pc[g]
    BY <1>1, Types DEF StepsOK, Call, Goto
  <1>6. ASSUME NEW g \in Thread PROVE MemoryOK(g)'
    <2>1. MemoryOK(g)
      BY DEF OrderOK
    <2>2. \A m \in ToSet(queue[g]) \cup ToSet(buffers[g]) : m \in Logged
      BY <2>1 DEF MemoryOK, Own, ToSet
    <2>3. Own(g, queue[g])' /\ Own(g, buffers[g])'
      BY <1>2, <1>3, <2>1 DEF MemoryOK, Own
    <2>4. Entering(g)' => (g # t /\ Entering(g) /\ current'[g] = current[g] /\ current[g] \in Logged)
                          \/ (g = t /\ current'[g] = c)
      BY <1>5 DEF Entering, StepsOK, ThreadOK
    <2>5. \A k \in ToSet(buffers'[g]) :
            /\ \A m \in ToSet(queue'[g]) : Precedes(m, k)'
            /\ Entering(g)' => k < current'[g]
      BY <1>2, <1>3, <2>1, <2>2, <2>4 DEF MemoryOK
    <2>6. \A k \in Logged : Precedes(k, c)'
      BY <1>2 DEF Precedes
    <2>7. \A k \in Logged' : Written(k)' =>
            /\ \A m \in ToSet(queue'[g]) \cup ToSet(buffers'[g]) : Precedes(k, m)'
            /\ Entering(g)' => Precedes(k, current[g])'
      <3> SUFFICES ASSUME NEW k, Written(k)'
                   PROVE  /\ \A m \in ToSet(queue[g]) \cup ToSet(buffers[g]) : Precedes(k, m)'
                          /\ Entering(g)' => Precedes(k, current[g])'
        BY <1>3
      <3>1. Written(k) /\ k \in Logged
        BY <1>4
      <3>2. \A m \in ToSet(queue[g]) \cup ToSet(buffers[g]) : Precedes(k, m)'
        BY <1>3, <2>1, <2>2, <3>1 DEF MemoryOK
      <3>3. PICK d : d = current'[g]
        OBVIOUS
      <3>4. Entering(g)' => Precedes(k, d)'
        BY <1>3, <2>1, <2>4, <2>6, <3>1, <3>3 DEF MemoryOK
      <3> QED
        BY <3>2, <3>3, <3>4 DEF Precedes
    <2> QED
      BY <2>3, <2>5, <2>7 DEF MemoryOK
  <1> QED
    BY <1>4, <1>6 DEF OrderOK

\* What log() does to the messages: it marks the one it prints directly.
Marked ==
    /\ Logged' = Logged
    /\ \A k \in Logged : /\ messages'[k].thread = messages[k].thread /\ messages'[k].run = messages[k].run
                         /\ messages'[k].level = messages[k].level
                         /\ messages[k].direct => messages'[k].direct

LEMMA LogMarks ==
  ASSUME StepsOK, NEW t \in Thread, Log(t)
  PROVE  /\ Marked /\ current[t] \in Logged /\ current[t] \in Message /\ queue[t] = <<>> /\ pc[t] = "log"
         /\ LogDirectly(t) => messages'[current[t]].direct
         /\ LogBuffered(t) => UNCHANGED messages
  <1>1. /\ pc[t] = "log" /\ current[t] # 0 /\ current[t] \in Logged /\ current[t] \in Message
        /\ queue[t] = <<>>
    BY Types DEF StepsOK, ThreadOK, Log
  <1>2. ASSUME messages' = messages PROVE Marked
    BY <1>2 DEF Marked, Logged
  <1>3. ASSUME messages' = [messages EXCEPT ![current[t]].direct = TRUE] PROVE Marked
    <2>1. messages \in Seq(Record) /\ DOMAIN messages = Logged
      BY Types DEF StepsOK
    <2>2. PICK c \in Logged : c = current[t]
      BY <1>1
    <2>3. PICK m \in Record : m = messages[c]
      BY <2>1, ElementOfSeq DEF Logged
    <2>4. PICK r \in Record : /\ r = [m EXCEPT !.direct = TRUE]
                              /\ r.thread = m.thread /\ r.run = m.run /\ r.level = m.level /\ r.direct
      <3> DEFINE r == [m EXCEPT !.direct = TRUE]
      <3>1. r \in Record /\ r.thread = m.thread /\ r.run = m.run /\ r.level = m.level
        BY DEF Record
      <3>2. r.direct
        BY DEF Record
      <3> QED
        BY <3>1, <3>2
    <2>5. messages' = [messages EXCEPT ![c] = r]
      BY <1>3, <2>2, <2>3, <2>4
    <2>6. /\ Len(messages') = Len(messages)
          /\ \A k \in Logged : messages'[k] = IF k = c THEN r ELSE messages[k]
      BY <2>1, <2>5, ExceptSeq DEF Logged
    <2> QED
      BY <2>3, <2>4, <2>6 DEF Marked, Logged
  <1>4. LogDirectly(t) => messages'[current[t]].direct
    <2>1. messages \in Seq(Record) /\ DOMAIN messages = Logged /\ messages[current[t]] \in Record
      BY <1>1, Types, ElementOfSeq DEF StepsOK, Logged
    <2> QED
      BY <1>1, <2>1 DEF LogDirectly, Record
  <1> QED
    BY <1>1, <1>2, <1>3, <1>4 DEF Log, LogBuffered, LogDirectly

\* What log() hands to print() and what it keeps.
LogHandsOn(t, c) ==
    /\ \A g \in Thread : g # t => queue'[g] = queue[g] /\ buffers'[g] = buffers[g] /\ pc'[g] = pc[g]
    /\ pc'[t] = "print" /\ UNCHANGED current
    /\ Own(t, queue'[t]) /\ Own(t, buffers'[t])
    /\ ToSet(queue'[t]) \subseteq ToSet(buffers[t]) \cup {c}
    /\ ToSet(buffers'[t]) \subseteq ToSet(buffers[t]) \cup {c}
    /\ \/ queue'[t] = <<>>
       \/ buffers'[t] = <<>>
       \/ messages'[c].direct /\ queue'[t] = <<c>> /\ buffers'[t] = buffers[t]
    /\ dropped \subseteq dropped'
    /\ \A k \in ToSet(buffers[t]) \cup {c} :
         messages'[k].direct \/ k \in dropped' \/ k \in ToSet(queue'[t]) \/ k \in ToSet(buffers'[t])
    /\ Triggers(c) => /\ queue'[t] # <<>> /\ Last(queue'[t]) = c
                      /\ messages'[c].direct \/ buffers'[t] = <<>>

LEMMA LogHands ==
  ASSUME StepsOK, OrderOK, NEW t \in Thread, Log(t), NEW c, c = current[t]
  PROVE  LogHandsOn(t, c)
  <1>1. c \in Logged /\ c \in Message /\ queue[t] = <<>> /\ pc[t] = "log" /\ messages[c].thread = t
    <2>1. c \in Logged /\ c \in Message /\ queue[t] = <<>> /\ pc[t] = "log"
      BY LogMarks
    <2>2. c # 0
      BY <2>1 DEF Logged
    <2> QED
      BY <2>1, <2>2 DEF StepsOK, ThreadOK
  <1>2. /\ \A g \in Thread : g # t => pc'[g] = pc[g]
        /\ pc'[t] = "print" /\ UNCHANGED current
    BY Types DEF StepsOK, Log, Goto
  <1>3. PICK b \in Seq(Message) : b = buffers[t]
    BY Types DEF StepsOK
  <1>4. /\ DOMAIN b = 1..Len(b) /\ Len(b) \in Nat
        /\ \A x \in DOMAIN b : b[x] \in Logged /\ messages[b[x]].thread = t /\ \A y \in 1..(x - 1) : b[y] < b[x]
        /\ \A x \in DOMAIN b : b[x] < c
    <2>1. Own(t, b) /\ \A k \in ToSet(b) : k < c
      <3>1. Entering(t)
        BY <1>1, Types DEF StepsOK, Entering, Message
      <3> QED
        BY <1>3, <3>1 DEF OrderOK, MemoryOK
    <2> QED
      BY <1>3, <2>1, LenProperties DEF Own, ToSet
  <1>5. Own(t, <<>>) /\ ToSet(<<>>) = {}
    BY DEF Own, ToSet
  <1>6. CASE LogDirectly(t)
    <2>1. /\ buffers' = buffers /\ dropped' = dropped /\ messages'[c].direct
          /\ queue' = [queue EXCEPT ![t] = IF Printed(c) THEN <<c>> ELSE <<>>]
      BY <1>6, LogMarks DEF LogDirectly
    <2>2. /\ queue'[t] = IF Printed(c) THEN <<c>> ELSE <<>>
          /\ \A g \in Thread : g # t => queue'[g] = queue[g]
      BY <2>1, Types DEF StepsOK
    <2>3. Own(t, b)
      BY <1>3 DEF OrderOK, MemoryOK
    <2>4. Own(t, <<c>>) /\ ToSet(<<c>>) = {c} /\ <<c>> # <<>> /\ Last(<<c>>) = c
      BY <1>1 DEF Own, ToSet, Last
    <2>5. Triggers(c) => Printed(c)
      <3>1. messages[c].level \in 0..4
        <4>1. messages[c] \in Record
          BY <1>1, Types, ElementOfSeq DEF StepsOK, Logged
        <4> QED
          BY <4>1 DEF Record
      <3> QED
        BY <3>1, LevelAssumption DEF Triggers, Printed, LevelOf, Info, Debug
    <2>6. \A k \in ToSet(b) : k \in ToSet(buffers'[t])
      BY <1>3, <2>1
    <2> QED
      BY <1>2, <1>3, <1>5, <2>1, <2>2, <2>3, <2>4, <2>5, <2>6 DEF LogHandsOn
  <1>7. CASE LogBuffered(t)
    <2>1. PICK filled \in Seq(Message) : filled = Append(b, c)
      BY <1>1, <1>3, AppendProperties
    <2>2. /\ Len(filled) = Len(b) + 1 /\ DOMAIN filled = 1..(Len(b) + 1) /\ filled # <<>>
          /\ \A x \in 1..Len(b) : filled[x] = b[x]
          /\ filled[Len(b) + 1] = c
      BY <1>1, <2>1, AppendProperties, LenProperties
    <2>3. Own(t, filled)
      <3>1. ASSUME NEW x \in DOMAIN filled
            PROVE  /\ filled[x] \in Logged /\ messages[filled[x]].thread = t
                   /\ \A y \in 1..(x - 1) : filled[y] < filled[x]
        <4>1. CASE x = Len(b) + 1
          BY <1>1, <1>4, <2>2, <4>1
        <4>2. CASE x \in DOMAIN b
          BY <1>4, <2>2, <4>2
        <4> QED
          BY <1>4, <2>2, <4>1, <4>2
      <3> QED
        BY <3>1 DEF Own
    <2>4. /\ ToSet(filled) \subseteq ToSet(b) \cup {c}
          /\ \A k \in ToSet(b) \cup {c} : k \in ToSet(filled)
      <3>1. \A x \in DOMAIN b : x \in DOMAIN filled
        BY <1>4, <2>2
      <3>2. Len(b) + 1 \in DOMAIN filled
        BY <1>4, <2>2
      <3>3. \A x \in DOMAIN filled : x = Len(b) + 1 \/ x \in DOMAIN b
        BY <1>4, <2>2
      <3> QED
        BY <1>4, <2>2, <3>1, <3>2, <3>3 DEF ToSet
    <2>5. /\ Len(Tail(filled)) = Len(b) /\ DOMAIN Tail(filled) = 1..Len(b) /\ Head(filled) = filled[1]
          /\ \A x \in 1..Len(b) : Tail(filled)[x] = filled[x + 1]
      BY <1>4, <2>2, HeadTailProperties, LenProperties
    <2>6. Own(t, Tail(filled))
      <3>1. \A x \in 1..Len(b) : x + 1 \in DOMAIN filled /\ \A y \in 1..(x - 1) : y + 1 \in 1..((x + 1) - 1) /\ y \in 1..Len(b)
        BY <1>4, <2>2
      <3> QED
        BY <2>3, <2>5, <3>1 DEF Own
    <2>7. /\ ToSet(Tail(filled)) \subseteq ToSet(filled)
          /\ \A k \in ToSet(filled) : k \in ToSet(Tail(filled)) \/ k = Head(filled)
      <3>1. \A x \in 1..Len(b) : x + 1 \in DOMAIN filled
        BY <1>4, <2>2
      <3>2. \A x \in DOMAIN filled : x = 1 \/ (x - 1 \in 1..Len(b) /\ (x - 1) + 1 = x)
        BY <1>4, <2>2
      <3>3. ToSet(Tail(filled)) \subseteq ToSet(filled)
        BY <2>5, <3>1 DEF ToSet
      <3>4. ASSUME NEW x \in DOMAIN filled PROVE filled[x] \in ToSet(Tail(filled)) \/ filled[x] = Head(filled)
        BY <2>5, <3>2 DEF ToSet
      <3> QED
        BY <3>3, <3>4 DEF ToSet
    <2>8. PICK kept : /\ kept = IF Len(filled) > bufferSize THEN Tail(filled) ELSE filled
                      /\ dropped' = IF Len(filled) > bufferSize THEN dropped \cup {Head(filled)} ELSE dropped
                      /\ IF Triggers(c)
                         THEN buffers' = [buffers EXCEPT ![t] = <<>>] /\ queue' = [queue EXCEPT ![t] = kept]
                         ELSE buffers' = [buffers EXCEPT ![t] = kept] /\ queue' = queue
                      /\ bufferSize > 0
      BY <1>3, <1>7, <2>1 DEF LogBuffered, Appended, DropOldest
    <2>9. /\ Own(t, kept) /\ ToSet(kept) \subseteq ToSet(b) \cup {c} /\ dropped \subseteq dropped'
          /\ \A k \in ToSet(b) \cup {c} : k \in ToSet(kept) \/ k \in dropped'
      BY <2>3, <2>4, <2>6, <2>7, <2>8
    <2>10. kept # <<>> /\ Last(kept) = c
      <3>1. CASE Len(filled) > bufferSize
        <4>1. kept = Tail(filled) /\ Len(b) \in 1..Len(b) /\ Len(Tail(filled)) = Len(b)
          BY <1>4, <2>2, <2>5, <2>8, <3>1, Types DEF StepsOK
        <4>2. Tail(filled)[Len(b)] = c
          BY <2>2, <2>5, <4>1
        <4> QED
          BY <4>1, <4>2, EmptySeq DEF Last
      <3>2. CASE ~(Len(filled) > bufferSize)
        BY <2>2, <2>8, <3>2 DEF Last
      <3> QED
        BY <3>1, <3>2
    <2>11. /\ \A g \in Thread : g # t => queue'[g] = queue[g] /\ buffers'[g] = buffers[g]
           /\ IF Triggers(c) THEN buffers'[t] = <<>> /\ queue'[t] = kept
                             ELSE buffers'[t] = kept /\ queue'[t] = <<>>
      BY <1>1, <2>8, Types DEF StepsOK
    <2>12. CASE Triggers(c)
      BY <1>2, <1>3, <1>5, <2>9, <2>10, <2>11, <2>12 DEF LogHandsOn
    <2>13. CASE ~Triggers(c)
      BY <1>2, <1>3, <1>5, <2>9, <2>11, <2>13 DEF LogHandsOn
    <2> QED
      BY <2>12, <2>13
  <1> QED
    BY <1>6, <1>7 DEF Log

LEMMA LogOrder ==
  ASSUME StepsOK, StepsOK', OrderOK, NEW t \in Thread, Log(t), UNCHANGED fileVars
  PROVE  OrderOK'
  <1>1. PICK c \in Logged : c = current[t]
    BY LogMarks
  <1>2. LogHandsOn(t, c) /\ Marked /\ Entering(t) /\ queue[t] = <<>> /\ messages[c].thread = t
    BY <1>1, LogHands, LogMarks, Types DEF StepsOK, Entering, Message, ThreadOK
  <1>3. \A k, m \in Logged : Precedes(k, m) => Precedes(k, m)'
    BY <1>2 DEF Precedes, Marked
  <1>4. WrittenLogged' /\ MessagesInOrder' /\ \A k : Written(k)' => Written(k) /\ k \in Logged
    <2>1. UNCHANGED <<files, fileName, pending>> /\ Logged \subseteq Logged'
      BY <1>2 DEF fileVars, Marked
    <2> QED
      BY <1>3, <2>1, OrderOfSameTexts, Texts DEF OrderOK
  <1>5. ASSUME NEW g \in Thread PROVE MemoryOK(g)'
    <2>1. MemoryOK(g) /\ MemoryOK(t)
      BY DEF OrderOK
    <2>2. CASE g # t
      <3>1. /\ queue'[g] = queue[g] /\ buffers'[g] = buffers[g] /\ current'[g] = current[g]
            /\ Entering(g)' <=> Entering(g)
        BY <1>2, <2>2 DEF LogHandsOn, Entering
      <3>2. /\ \A m \in ToSet(queue[g]) \cup ToSet(buffers[g]) : m \in Logged
            /\ Entering(g) => current[g] \in Logged
        BY <2>1 DEF MemoryOK, Own, ToSet, Entering, StepsOK, ThreadOK
      <3>3. Own(g, queue[g])' /\ Own(g, buffers[g])'
        BY <1>2, <2>1, <3>1 DEF MemoryOK, Own, Marked
      <3>4. PICK d : d = current[g]
        OBVIOUS
      <3>5. \A k \in Logged' : Written(k)' =>
              /\ \A m \in ToSet(queue'[g]) \cup ToSet(buffers'[g]) : Precedes(k, m)'
              /\ Entering(g)' => Precedes(k, d)'
        BY <1>2, <1>3, <1>4, <2>1, <3>1, <3>2, <3>4 DEF MemoryOK, Marked
      <3>6. \A k \in ToSet(buffers'[g]) :
              /\ \A m \in ToSet(queue'[g]) : Precedes(m, k)'
              /\ Entering(g)' => k < current'[g]
        BY <1>3, <2>1, <3>1, <3>2 DEF MemoryOK
      <3> QED
        BY <3>1, <3>3, <3>4, <3>5, <3>6 DEF MemoryOK, Precedes
    <2>3. CASE g = t
      <3>1. ~Entering(t)'
        BY <1>2 DEF LogHandsOn, Entering
      <3>2. Own(t, queue[t])' /\ Own(t, buffers[t])'
        BY <1>2 DEF LogHandsOn, Own, Marked
      <3>3. \A m \in ToSet(buffers[t]) \cup {c} : m \in Logged
        BY <2>1 DEF MemoryOK, Own, ToSet
      <3>4. \A k \in Logged : Written(k) => \A m \in ToSet(buffers[t]) \cup {c} : Precedes(k, m)
        BY <1>1, <1>2, <2>1 DEF MemoryOK
      <3>5. \A k \in Logged' : Written(k)' =>
              \A m \in ToSet(queue'[t]) \cup ToSet(buffers'[t]) : Precedes(k, m)'
        BY <1>2, <1>3, <1>4, <3>3, <3>4 DEF LogHandsOn, Marked
      <3>6. \A k \in ToSet(buffers'[t]) : \A m \in ToSet(queue'[t]) : Precedes(m, k)'
        <4>1. ToSet(<<>>) = {} /\ ToSet(<<c>>) = {c}
          BY DEF ToSet
        <4>2. messages'[c].direct => \A k : Precedes(c, k)'
          BY DEF Precedes
        <4> QED
          BY <1>2, <4>1, <4>2 DEF LogHandsOn
      <3> QED
        BY <2>3, <3>1, <3>2, <3>5, <3>6 DEF MemoryOK
    <2> QED
      BY <2>2, <2>3
  <1> QED
    BY <1>4, <1>5 DEF OrderOK

\* The message m is written at the end of the text of the open file.
Adding(m, h) ==
    /\ \A n \in Name, i \in Index : n # h \/ i # 0 => Text(n, i)' = Text(n, i)
    /\ Len(Text(h, 0)) \in Nat
    /\ DOMAIN Text(h, 0) = 1..Len(Text(h, 0))
    /\ DOMAIN Text(h, 0)' = 1..(Len(Text(h, 0)) + 1)
    /\ \A x \in DOMAIN Text(h, 0) : Text(h, 0)'[x] = Text(h, 0)[x]
    /\ Text(h, 0)'[Len(Text(h, 0)) + 1] = m
    /\ \A k : Written(k)' => Written(k) \/ k = m
    /\ \A k : Written(k) => Written(k)'
    /\ Written(m)'

LEMMA WriteAdds ==
  ASSUME StepsOK, StepsOK', NEW t \in Thread, WriteToFile(t), NEW m, m = Head(queue[t]),
         NEW h \in Name, h = fileName
  PROVE  Adding(m, h)
  <1>1. m \in Message /\ open /\ fileName' = h /\ 0 \in Index
    BY Queues, ReadableFiles, Indices DEF WriteToFile, Readable
  <1>2. PICK p \in Seq(Message), q \in Seq(Message) : p = pending /\ q = Append(p, m)
    BY <1>1, Types, AppendProperties DEF StepsOK
  <1>3. PICK c \in Seq(Message) : c = files[h][0] /\ Contents(h, 0) = c
    <2>1. files[h][0] \in Seq(Message)
      BY <1>1, TypeParts DEF StepsOK, FilesTyped, ProgramOK
    <2> QED
      BY <2>1, NoFileAssumption DEF Contents
  <1>5. PICK u \in Seq(Message), v \in Seq(Message) : u = c \o p /\ v = c \o q
    BY ConcatProperties
  <1>6. v = Append(u, m)
    <2>1. <<m>> \in Seq(Message) /\ q = p \o <<m>> /\ Append(u, m) = u \o <<m>>
      BY <1>1, <1>2, AppendIsConcat
    <2> QED
      BY <1>5, <2>1, ConcatAssociative
  <1>7. /\ Len(v) = Len(u) + 1 /\ Len(u) \in Nat /\ DOMAIN u = 1..Len(u) /\ DOMAIN v = 1..(Len(u) + 1)
        /\ v[Len(u) + 1] = m
        /\ \A x \in 1..Len(u) : v[x] = u[x]
    BY <1>1, <1>6, AppendProperties, LenProperties
  <1>8. Text(h, 0) = u /\ Text(h, 0)' = v
    <2>1. Text(h, 0) = u
      BY <1>2, <1>3, <1>5 DEF Text
    <2>2. CASE Urgent(m)
      <3>1. PICK s \in Seq(Message), f \in {Extended(q)} : s = q /\ f = Extended(s)
        OBVIOUS
      <3>2. files' = f /\ pending' = <<>>
        BY <1>1, <1>2, <2>2, <3>1 DEF WriteToFile, Extended
      <3>3. f[h][0] # NoFile /\ f[h][0] = v
        BY <1>1, <1>3, <1>5, <3>1, Appending
      <3>4. Contents(h, 0)' = v
        BY <3>2, <3>3 DEF Contents
      <3> QED
        BY <1>1, <2>1, <3>2, <3>4, ConcatEmptySeq DEF Text
    <2>3. CASE ~Urgent(m)
      <3>1. files' = files /\ pending' = q
        BY <1>2, <2>3 DEF WriteToFile
      <3> QED
        BY <1>1, <1>3, <1>5, <2>1, <3>1 DEF Text, Contents
    <2> QED
      BY <2>2, <2>3
  <1>9. ASSUME NEW n \in Name, NEW i \in Index, n # h \/ i # 0 PROVE Text(n, i)' = Text(n, i)
    <2>1. files'[n][i] = files[n][i]
      <3>1. files' = Extended(q) \/ files' = files
        BY <1>2 DEF WriteToFile, Extended
      <3>2. PICK s \in Seq(Message), f \in {Extended(q)} : s = q /\ f = Extended(s)
        OBVIOUS
      <3>3. f[n][i] = files[n][i]
        BY <1>1, <1>9, <3>2, Appending
      <3> QED
        BY <3>1, <3>2, <3>3
    <2> QED
      BY <1>1, <1>9, <2>1 DEF Text, Contents
  <1>10. ASSUME NEW k, Written(k)' PROVE Written(k) \/ k = m
    <2>1. PICK n \in Name, i \in Index : \E x \in DOMAIN Text(n, i)' : Text(n, i)'[x] = k
      BY <1>10, TextsPrimed
    <2>2. CASE n = h /\ i = 0
      <3>1. PICK x \in DOMAIN v : v[x] = k
        BY <1>8, <2>1, <2>2
      <3>2. x = Len(u) + 1 \/ x \in DOMAIN u
        BY <1>7
      <3>3. k = m \/ \E y \in DOMAIN Text(h, 0) : Text(h, 0)[y] = k
        BY <1>7, <1>8, <3>1, <3>2
      <3> QED
        BY <1>1, <3>3, Texts
    <2>3. CASE ~(n = h /\ i = 0)
      BY <1>9, <2>1, <2>3, Texts
    <2> QED
      BY <2>2, <2>3
  <1>11. ASSUME NEW k, Written(k) PROVE Written(k)'
    <2>1. PICK n \in Name, i \in Index : \E x \in DOMAIN Text(n, i) : Text(n, i)[x] = k
      BY <1>11, Texts
    <2>2. \E x \in DOMAIN Text(n, i)' : Text(n, i)'[x] = k
      <3>1. CASE n = h /\ i = 0
        <4>1. PICK x \in DOMAIN u : u[x] = k
          BY <1>8, <2>1, <3>1
        <4>2. x \in DOMAIN v /\ v[x] = k
          BY <1>7, <4>1
        <4> QED
          BY <1>8, <3>1, <4>2
      <3>2. CASE ~(n = h /\ i = 0)
        BY <1>9, <2>1, <3>2
      <3> QED
        BY <3>1, <3>2
    <2> QED
      BY <2>2, TextsPrimed
  <1>12. Written(m)'
    <2>1. \E x \in DOMAIN Text(h, 0)' : Text(h, 0)'[x] = m
      BY <1>7, <1>8
    <2> QED
      BY <1>1, <2>1, TextsPrimed
  <1> QED
    BY <1>7, <1>8, <1>9, <1>10, <1>11, <1>12 DEF Adding

LEMMA WriteToFileOrder ==
  ASSUME StepsOK, StepsOK', OrderOK, NEW t \in Thread, WriteToFile(t)
  PROVE  OrderOK'
  <1>1. PICK m : m = Head(queue[t])
    OBVIOUS
  <1>2. /\ UNCHANGED <<messages, Logged, buffers, current, pc, fileName>> /\ Printing(t)
        /\ queue' = [queue EXCEPT ![t] = Tail(@)] /\ pc[t] = "print"
    BY DEF WriteToFile, logged, Logged, Printing
  <1>3. \A k, l : Precedes(k, l)' <=> Precedes(k, l)
    BY <1>2 DEF Precedes
  <1> PICK h \in Name : h = fileName
    BY ReadableFiles DEF Readable
  <1>4. Adding(m, h)
    BY <1>1, WriteAdds
  <1>5. /\ m \in Logged /\ m \in ToSet(queue[t]) /\ messages[m].thread = t
        /\ \A l \in ToSet(queue'[t]) : m < l
        /\ Own(t, queue[t])' /\ ToSet(queue'[t]) \subseteq ToSet(queue[t])
        /\ \A g \in Thread : g # t => queue'[g] = queue[g]
    BY <1>1, <1>2, TailOfQueue
  <1>6. ASSUME NEW k, Written(k)' PROVE k \in Logged /\ (Written(k) \/ k = m)
    BY <1>4, <1>5, <1>6, Texts DEF OrderOK, Adding
  <1>7. WrittenLogged'
    BY <1>2, <1>6 DEF WrittenLogged
  <1>8. \A k : Written(k) => Precedes(k, m)
    BY <1>5, Texts DEF OrderOK, MemoryOK
  <1>9. MessagesInOrder'
    <2> SUFFICES ASSUME NEW n \in Name, NEW i \in Index, NEW j \in Index,
                        NEW x \in DOMAIN Text(n, i)', NEW y \in DOMAIN Text(n, j)',
                        i > j \/ (i = j /\ x < y)
                 PROVE  Precedes(Text(n, i)'[x], Text(n, j)'[y])
      BY <1>3 DEF MessagesInOrder, Precedes
    <2>1. PICK l : l = Len(Text(h, 0)) + 1
      OBVIOUS
    <2>2. /\ l \in Nat \ {0}
          /\ \A k \in Index : ~(k < 0)
          /\ \A k \in Index : \A z \in DOMAIN Text(n, k)' :
               \/ z \in DOMAIN Text(n, k) /\ Text(n, k)'[z] = Text(n, k)[z] /\ (k = 0 /\ n = h => z < l)
               \/ k = 0 /\ n = h /\ z = l /\ Text(n, k)'[z] = m
      <3>1. l \in Nat \ {0} /\ \A k \in Index : ~(k < 0)
        BY <1>4, <2>1 DEF Adding, Index
      <3>2. ASSUME NEW k \in Index, NEW z \in DOMAIN Text(n, k)', k = 0, n = h
            PROVE  \/ z \in DOMAIN Text(n, k) /\ Text(n, k)'[z] = Text(n, k)[z] /\ z < l
                   \/ z = l /\ Text(n, k)'[z] = m
        <4>1. z \in 1..l /\ DOMAIN Text(n, k) = 1..(l - 1)
          BY <1>2, <1>4, <2>1, <3>2 DEF Adding
        <4>2. z = l \/ z \in 1..(l - 1)
          BY <3>1, <4>1
        <4> QED
          BY <1>2, <1>4, <2>1, <3>1, <3>2, <4>1, <4>2 DEF Adding
      <3>3. ASSUME NEW k \in Index, NEW z \in DOMAIN Text(n, k)', ~(k = 0 /\ n = h)
            PROVE  z \in DOMAIN Text(n, k) /\ Text(n, k)'[z] = Text(n, k)[z]
        BY <1>4, <3>3 DEF Adding
      <3> QED
        BY <3>1, <3>2, <3>3
    <2>3. CASE j = 0 /\ n = h /\ y = l /\ Text(n, j)'[y] = m
      <3>1. x \in DOMAIN Text(n, i) /\ Text(n, i)'[x] = Text(n, i)[x]
        <4>1. ~(i = 0 /\ x = l)
          BY <2>2, <2>3 DEF Index
        <4> QED
          BY <2>2, <4>1
      <3>2. Written(Text(n, i)[x])
        BY <3>1, Texts
      <3> QED
        BY <1>8, <2>3, <3>1, <3>2
    <2>4. CASE y \in DOMAIN Text(n, j) /\ Text(n, j)'[y] = Text(n, j)[y] /\ (j = 0 /\ n = h => y < l)
      <3>1. ~(i = 0 /\ n = h /\ x = l)
        <4> SUFFICES ASSUME i = 0, n = h, x = l PROVE FALSE
          OBVIOUS
        <4>1. y \in DOMAIN Text(n, 0) /\ j = 0 /\ y < l
          BY <2>2, <2>4 DEF Index
        <4>2. y \in Nat
          BY <1>4, <4>1 DEF Adding
        <4> QED
          BY <2>2, <4>1, <4>2
      <3>2. x \in DOMAIN Text(n, i) /\ Text(n, i)'[x] = Text(n, i)[x]
        BY <2>2, <3>1
      <3> QED
        BY <2>4, <3>2 DEF OrderOK, MessagesInOrder
    <2> QED
      BY <2>2, <2>3, <2>4
  <1>10. ASSUME NEW g \in Thread PROVE MemoryOK(g)'
    <2>1. MemoryOK(g) /\ MemoryOK(t)
      BY DEF OrderOK
    <2>2. Own(g, queue[g])' /\ Own(g, buffers[g])' /\ ToSet(queue'[g]) \subseteq ToSet(queue[g])
      BY <1>2, <1>5, <2>1 DEF MemoryOK, Own
    <2>3. \A k \in ToSet(buffers[g]) \cup ToSet(queue'[g]) : Precedes(m, k)
      <3>1. CASE g = t
        BY <1>5, <2>1, <3>1 DEF MemoryOK, Precedes
      <3>2. CASE g # t
        BY <1>5, <2>1, <3>2 DEF MemoryOK, Own, Precedes, ToSet
      <3> QED
        BY <3>1, <3>2
    <2>4. Entering(g) => Precedes(m, current[g])
      <3>1. Entering(g) => g # t /\ messages[current[g]].thread = g
        BY <1>2 DEF Entering, StepsOK, ThreadOK
      <3> QED
        BY <1>5, <3>1 DEF Precedes
    <2>5. Entering(g)' <=> Entering(g)
      BY <1>2 DEF Entering
    <2>6. \A k \in ToSet(buffers'[g]) :
            /\ \A l \in ToSet(queue'[g]) : Precedes(l, k)'
            /\ Entering(g)' => k < current'[g]
      BY <1>2, <1>3, <2>1, <2>2, <2>5 DEF MemoryOK
    <2>7. \A k \in Logged' : Written(k)' =>
            /\ \A l \in ToSet(queue'[g]) \cup ToSet(buffers'[g]) : Precedes(k, l)'
            /\ Entering(g)' => Precedes(k, current[g])'
      BY <1>2, <1>3, <1>6, <2>1, <2>2, <2>3, <2>4, <2>5 DEF MemoryOK, Precedes
    <2> QED
      BY <2>2, <2>6, <2>7 DEF MemoryOK
  <1> QED
    BY <1>7, <1>9, <1>10 DEF OrderOK

LEMMA OrderInductive ==
  ASSUME StepsOK, StepsOK', OrderOK, [Next]_vars
  PROVE  OrderOK'
  <1>1. ASSUME Callers PROVE OrderOK'
    BY <1>1, ClearOrder, CallOrder DEF Callers
  <1>2. ASSUME NEW t \in Thread, Handler(t) PROVE OrderOK'
    BY <1>2, EnterOrder, LogOrder, WriteToFileOrder, WriteFailsOrder, WarnOnStderrOrder, WriteToStderrOrder,
       ReturnOrder DEF Handler
  <1>3. ASSUME Timer PROVE OrderOK'
    BY <1>3, FlushTimerOrder, FlushFileOrder, StopOrder, RemoveBackupOrder, ShiftBackupOrder, BackupFileOrder,
       ReopenOrder DEF Timer, FlushNull
  <1>4. ASSUME Kill PROVE OrderOK'
    BY <1>4, StopOrder DEF Kill
  <1>5. ASSUME UNCHANGED vars PROVE OrderOK'
    <2>1. Forgetting
      BY <1>5, Forgets DEF vars, loggerVars, logged, Entering
    <2> QED
      BY <1>5, <2>1, OrderOfSameFiles DEF vars, fileVars
  <1> QED
    BY <1>1, <1>2, <1>3, <1>4, <1>5, RefreshOrder, StartOrder DEF Next

LEMMA OrderInitially ==
  ASSUME Init
  PROVE  OrderOK
  <1>1. \A n \in Name, i \in Index : Contents(n, i) = <<>> /\ Text(n, i) = <<>>
    <2>1. <<>> \o <<>> = <<>>
      BY EmptySeq, ConcatEmptySeq
    <2> QED
      BY <2>1 DEF Init, Contents, Text
  <1>2. ToSet(<<>>) = {} /\ pending = <<>>
    BY DEF ToSet, Init
  <1>3. \A k : ~Written(k)
    BY <1>1, <1>2 DEF Written, OnDisk
  <1>4. \A t \in Thread : queue[t] = <<>> /\ buffers[t] = <<>>
    BY DEF Init, LoggerInit
  <1>5. \A t \in Thread : MemoryOK(t)
    BY <1>2, <1>3, <1>4 DEF MemoryOK, Own
  <1>6. MessagesInOrder
    BY <1>1 DEF MessagesInOrder
  <1> QED
    BY <1>3, <1>5, <1>6 DEF OrderOK, WrittenLogged

-----------------------------------------------------------------------------
(* The third layer: no error is lost.                                      *)

\* What a step may do to what the third layer is about.
Growing ==
    /\ Logged \subseteq Logged' /\ dropped \subseteq dropped'
    /\ \A k \in Logged : /\ messages'[k].thread = messages[k].thread /\ messages'[k].run = messages[k].run
                         /\ messages'[k].level = messages[k].level
                         /\ messages[k].direct => messages'[k].direct
    /\ \A k : Kept(k) => Kept(k)'

LEMMA LoggedRange == ASSUME StepsOK PROVE \A m \in Logged : \A k \in 1..m : k \in Logged
  BY Types DEF StepsOK, Logged

LEMMA Surviving ==
  ASSUME StepsOK, ErrorsOK, Growing, UNCHANGED errors
  PROVE  errors' \subseteq Logged' /\ ErrorsSurvive'
  <1>1. errors' \subseteq Logged'
    BY DEF ErrorsOK, Growing
  <1>2. ASSUME NEW m \in errors
        PROVE  /\ Kept(m)'
               /\ ~messages'[m].direct =>
                    \A k \in 1..m :
                      \/ messages'[k].thread # messages'[m].thread \/ messages'[k].run # messages'[m].run
                      \/ messages'[k].direct \/ k \in dropped'
                      \/ Kept(k)'
    <2>1. m \in Logged /\ \A k \in 1..m : k \in Logged
      BY LoggedRange DEF ErrorsOK
    <2> QED
      BY <2>1 DEF ErrorsOK, ErrorsSurvive, Growing
  <1> QED
    BY <1>1, <1>2 DEF ErrorsSurvive

\* The messages stay accounted for when each thread's and the file's are.
LEMMA StillAccounted ==
  ASSUME StepsOK, Accounted, Growing, UNCHANGED <<up, runs, Logged>>,
         \A k \in ToSet(pending) : Kept(k)' \/ k \in ToSet(pending'),
         \A t \in Thread : \A k \in Logged : messages[k].thread = t /\ Held(k, t) =>
            messages'[k].direct \/ k \in dropped' \/ Kept(k)' \/ k \in ToSet(pending') \/ Held(k, t)'
  PROVE  Accounted'
  <1> SUFFICES ASSUME up, NEW k \in Logged, NEW t \in Thread, messages'[k].thread = t, messages'[k].run = runs
               PROVE  \/ messages'[k].direct \/ k \in dropped' \/ Kept(k)' \/ k \in ToSet(pending')
                      \/ Held(k, t)'
    BY DEF Accounted
  <1>1. messages[k].thread = t /\ messages[k].run = runs
    BY DEF Growing
  <1>2. messages[k].direct \/ k \in dropped \/ Kept(k) \/ k \in ToSet(pending) \/ Held(k, t)
    BY <1>1 DEF Accounted
  <1> QED
    BY <1>1, <1>2 DEF Growing

\* The disk and what was printed elsewhere stay.
LEMMA KeepsAll ==
  ASSUME UNCHANGED files, gone \subseteq gone'
  PROVE  \A k : Kept(k) => Kept(k)'
  BY DEF Kept, OnDisk, Contents

\* Nothing moves.
LEMMA QuietErrors ==
  ASSUME StepsOK, ErrorsOK, UNCHANGED <<logged, files, gone, pending, queue, buffers, current, up, runs, errors>>,
         \A g \in Thread : /\ Entering(g)' <=> Entering(g)
                           /\ pc'[g] \in {"print", "warn"} => pc[g] \in {"print", "warn"} \/ current[g] = 0
  PROVE  ErrorsOK'
  <1>1. UNCHANGED <<messages, dropped, Logged>>
    BY DEF logged, Logged
  <1>2. \A k : Kept(k)' <=> Kept(k)
    BY DEF Kept, OnDisk, Contents
  <1>3. Growing
    BY <1>1, <1>2 DEF Growing
  <1>4. Accounted'
    <2>1. \A k, t : Held(k, t) /\ t \in Thread => Held(k, t)'
      BY DEF Held
    <2> QED
      BY <1>1, <1>3, <2>1, StillAccounted DEF ErrorsOK
  <1>5. ASSUME NEW g \in Thread PROVE ErrorIsLast(g)'
    BY <1>1, <1>2 DEF ErrorsOK, ErrorIsLast, Urgent, Triggers, LevelOf
  <1> QED
    BY <1>3, <1>4, <1>5, Surviving DEF ErrorsOK

\* The main thread has the logger to itself.
LEMMA TimerErrors ==
  ASSUME StepsOK, ErrorsOK, pc[Main] \in Timing, mutex \in {NoOwner, Main},
         UNCHANGED <<logged, current, buffers, queue, up, runs, errors>>,
         NEW l \in Timing \cup {"warn"}, pc' = [pc EXCEPT ![Main] = l],
         \A k : Kept(k) => Kept(k)',
         \A k \in ToSet(pending) : Kept(k)' \/ k \in ToSet(pending')
  PROVE  ErrorsOK'
  <1>1. UNCHANGED <<messages, dropped, Logged>>
    BY DEF logged, Logged
  <1>2. /\ \A g \in Thread : g # Main => pc'[g] = pc[g]
        /\ current[Main] = 0 /\ Main \in Thread /\ NoOwner \notin Thread
    BY Types DEF StepsOK, ThreadOK, Timing
  <1>3. Growing
    BY <1>1 DEF Growing
  <1>4. Accounted'
    <2>1. \A t \in Thread : Entering(t)' <=> Entering(t)
      BY <1>2 DEF Entering
    <2>2. \A k, t : Held(k, t) /\ t \in Thread => Held(k, t)'
      BY <2>1 DEF Held
    <2> QED
      BY <1>1, <1>3, <2>2, StillAccounted DEF ErrorsOK
  <1>5. ASSUME NEW g \in Thread PROVE ErrorIsLast(g)'
    <2>1. g # Main => pc[g] \notin {"print", "warn"}
      BY <1>2 DEF StepsOK, ThreadOK
    <2> QED
      BY <1>2, <2>1 DEF ErrorIsLast
  <1> QED
    BY <1>1, <1>3, <1>4, <1>5, Surviving DEF ErrorsOK

LEMMA KeepsFlushed ==
  ASSUME StepsOK, gone \subseteq gone', \A n \in Name, i \in Index : ContentsOf(files', n, i) = Text(n, i)
  PROVE  /\ \A k : Kept(k) => Kept(k)'
         /\ \A k \in ToSet(pending) : Kept(k)'
  <1>1. ASSUME NEW k, Written(k) PROVE Kept(k)'
    <2>1. PICK n \in Name, i \in Index : \E x \in DOMAIN Text(n, i) : Text(n, i)[x] = k
      BY <1>1, Texts
    <2>2. PICK s : s = Text(n, i)
      OBVIOUS
    <2>3. Contents(n, i)' = s
      BY <2>2 DEF Contents, ContentsOf
    <2>4. k \in ToSet(s)
      BY <2>1, <2>2 DEF ToSet
    <2>5. k \in ToSet(Contents(n, i)')
      BY <2>3, <2>4
    <2> QED
      BY <2>5 DEF Kept, OnDisk
  <1>2. \A k : Kept(k) => Written(k) \/ k \in gone
    BY DEF Kept, Written
  <1>3. \A k : k \in gone => Kept(k)'
    BY DEF Kept
  <1> QED
    BY <1>1, <1>2, <1>3 DEF Written

LEMMA KeepsCreated ==
  ASSUME StepsOK, NEW n \in Name, files' = Created(files, n), gone \subseteq gone'
  PROVE  \A k : Kept(k) => Kept(k)'
  <1>1. TypedFiles(files) /\ NoneBeyond(files)
    BY ReadableFiles DEF Readable, StepsOK, NoneBeyond, BackupsWithinLimit
  <1>2. PICK f : f = files
    OBVIOUS
  <1>3. \A h \in Name, i \in Index : ContentsOf(Created(f, n), h, i) = ContentsOf(f, h, i)
    BY <1>1, <1>2, ContentsOfCreated
  <1>4. \A h \in Name, i \in Index : Contents(h, i)' = Contents(h, i)
    BY <1>2, <1>3 DEF Contents, ContentsOf
  <1> QED
    BY <1>4 DEF Kept, OnDisk

LEMMA KeepsMoved ==
  ASSUME StepsOK, pc[Main] = "rotate", NEW i \in Index, i < MaxBackups,
         files' \in {files, Renamed(files, i, i + 1)},
         UNCHANGED <<fileName, open, pending, gone>>
  PROVE  \A k : Kept(k) => Kept(k)'
  <1>1. up /\ pc[Main] \in Timing /\ fileName \in Name
    BY MainSteps DEF Timing
  <1>2. CASE files' = files
    BY <1>2, KeepsAll
  <1>3. CASE files' # files
    <2>1. /\ i + 1 \in Index /\ files[fileName][i + 1] = NoFile /\ i # i + 1
          /\ \A n \in Name, j \in Index :
               files'[n][j] = IF n = fileName /\ j = i THEN NoFile
                              ELSE IF n = fileName /\ j = i + 1 THEN files[fileName][i]
                              ELSE files[n][j]
      BY <1>1, <1>3, MovedFiles DEF Index
    <2>2. ASSUME NEW k, OnDisk(k) PROVE OnDisk(k)'
      <3>1. PICK n \in Name, j \in Index : k \in ToSet(Contents(n, j))
        BY <2>2 DEF OnDisk
      <3>2. ToSet(<<>>) = {}
        BY DEF ToSet
      <3>3. CASE n = fileName /\ j = i
        <4>1. Contents(n, i + 1)' = Contents(n, j)
          BY <2>1, <3>3 DEF Contents
        <4> QED
          BY <2>1, <3>1, <4>1 DEF OnDisk
      <3>4. CASE ~(n = fileName /\ j = i)
        <4>1. ~(n = fileName /\ j = i + 1)
          BY <2>1, <3>1, <3>2 DEF Contents
        <4>2. Contents(n, j)' = Contents(n, j)
          BY <2>1, <3>4, <4>1 DEF Contents
        <4> QED
          BY <3>1, <4>2 DEF OnDisk
      <3> QED
        BY <3>3, <3>4
    <2> QED
      BY <2>2 DEF Kept
  <1> QED
    BY <1>2, <1>3

LEMMA FlushTimerErrors ==
  ASSUME StepsOK, ErrorsOK, FlushTimer
  PROVE  ErrorsOK'
  <1>1. pc'[Main] = "flush" /\ pc[Main] = "idle" /\ \A g \in Thread : g # Main => pc'[g] = pc[g]
    BY Types DEF StepsOK, FlushTimer, Goto, MainIdle
  <1> QED
    BY <1>1, QuietErrors DEF FlushTimer, fileVars, history, Entering

LEMMA FlushFileErrors ==
  ASSUME StepsOK, ErrorsOK, FlushFile
  PROVE  ErrorsOK'
  <1>1. \A n \in Name, i \in Index : ContentsOf(files', n, i) = Text(n, i)
    BY ContentsOfFlushed DEF FlushFile
  <1>2. (\A k : Kept(k) => Kept(k)') /\ (\A k \in ToSet(pending) : Kept(k)')
    BY <1>1, KeepsFlushed DEF FlushFile, history
  <1>3. PICK l \in Timing \cup {"warn"} : pc' = [pc EXCEPT ![Main] = l]
    BY DEF FlushFile, Goto, Timing
  <1> QED
    BY <1>2, <1>3, TimerErrors DEF FlushFile, history, Timing

LEMMA RefreshErrors ==
  ASSUME StepsOK, ErrorsOK, Refresh
  PROVE  ErrorsOK'
  <1>1. PICK s \in Settings : UNCHANGED <<fileVars, mutex, pc>> \/ SwitchTo(s.fileName)
    BY DEF Refresh
  <1>2. CASE UNCHANGED <<fileVars, mutex, pc>>
    BY <1>2, QuietErrors DEF fileVars, Refresh, history, Entering
  <1>3. CASE SwitchTo(s.fileName)
    <2>1. PICK n \in Name : n = s.fileName
      BY SettingsAssumption
    <2>2. PICK f : f = Flushed(files)
      OBVIOUS
    <2>3. TypedFiles(f) /\ NoneBeyond(f) /\ \A k \in Name, i \in Index : ContentsOf(f, k, i) = Text(k, i)
      BY <2>2, FlushedFiles, ContentsOfFlushed
    <2>4. \A k \in Name, i \in Index : ContentsOf(Created(f, n), k, i) = Text(k, i)
      BY <2>3, ContentsOfCreated
    <2>5. \A k \in Name, i \in Index : ContentsOf(files', k, i) = Text(k, i)
      BY <1>3, <2>1, <2>2, <2>3, <2>4 DEF SwitchTo
    <2>6. (\A k : Kept(k) => Kept(k)') /\ (\A k \in ToSet(pending) : Kept(k)')
      BY <2>5, KeepsFlushed DEF Refresh, history
    <2>7. pc[Main] = "idle" /\ up /\ mutex = NoOwner
      BY DEF Refresh, MainIdle
    <2>8. PICK l \in Timing \cup {"warn"} : pc' = [pc EXCEPT ![Main] = l]
      BY <1>3, <2>7, MainSteps DEF SwitchTo, Goto, Timing
    <2> QED
      BY <2>6, <2>7, <2>8, TimerErrors DEF Refresh, history, Timing
  <1> QED
    BY <1>1, <1>2, <1>3

LEMMA RemoveBackupErrors ==
  ASSUME StepsOK, ErrorsOK, RemoveBackup
  PROVE  ErrorsOK'
  <1>1. /\ mutex = Main /\ fileName \in Name /\ count \in Index /\ TypedFiles(files)
        /\ pc = [pc EXCEPT ![Main] = pc[Main]] /\ pc[Main] = "rotate" /\ pc' = pc /\ pending' = pending
    BY MainSteps DEF RemoveBackup, Timing, loggerVars
  <1>2. \A k : Kept(k) => Kept(k)'
    <2>1. CASE UNCHANGED <<files, gone>>
      BY <2>1, KeepsAll
    <2>2. CASE /\ files' = [files EXCEPT ![fileName][count] = NoFile]
               /\ gone' = gone \cup ToSet(files[fileName][count])
      <3>1. \A n \in Name, i \in Index :
              files'[n][i] = IF n = fileName /\ i = count THEN NoFile ELSE files[n][i]
        BY <1>1, <2>2 DEF TypedFiles
      <3>2. ASSUME NEW k, NEW n \in Name, NEW i \in Index, k \in ToSet(Contents(n, i)) PROVE Kept(k)'
        <4>1. CASE n = fileName /\ i = count
          <5>1. ToSet(<<>>) = {}
            BY DEF ToSet
          <5>2. k \in ToSet(files[fileName][count])
            BY <3>2, <4>1, <5>1 DEF Contents
          <5> QED
            BY <2>2, <5>2 DEF Kept
        <4>2. CASE ~(n = fileName /\ i = count)
          <5>1. Contents(n, i)' = Contents(n, i)
            BY <3>1, <4>2 DEF Contents
          <5> QED
            BY <3>2, <5>1 DEF Kept, OnDisk
        <4> QED
          BY <4>1, <4>2
      <3>3. \A k : k \in gone => Kept(k)'
        BY <2>2 DEF Kept
      <3> QED
        BY <3>2, <3>3 DEF Kept, OnDisk
    <2> QED
      BY <2>1, <2>2 DEF RemoveBackup
  <1>3. PICK l \in Timing \cup {"warn"} : pc' = [pc EXCEPT ![Main] = l]
    BY <1>1 DEF Timing
  <1> QED
    BY <1>1, <1>2, <1>3, TimerErrors DEF RemoveBackup, loggerVars, Timing

LEMMA ShiftBackupErrors ==
  ASSUME StepsOK, ErrorsOK, ShiftBackup
  PROVE  ErrorsOK'
  <1>1. /\ pc[Main] = "rotate" /\ count \in Index /\ count < MaxBackups /\ mutex = Main
        /\ pc = [pc EXCEPT ![Main] = pc[Main]] /\ pc' = pc
    BY MainSteps, MaxBackupsAssumption DEF ShiftBackup, TooMany, Timing, Index, loggerVars
  <1>2. PICK i \in Index : i = count
    BY <1>1
  <1>3. \A k : Kept(k) => Kept(k)'
    BY <1>1, <1>2, KeepsMoved DEF ShiftBackup, history
  <1>4. PICK l \in Timing \cup {"warn"} : pc' = [pc EXCEPT ![Main] = l]
    BY <1>1 DEF Timing
  <1> QED
    BY <1>1, <1>3, <1>4, TimerErrors DEF ShiftBackup, loggerVars, Timing, history

LEMMA BackupFileErrors ==
  ASSUME StepsOK, ErrorsOK, BackupFile
  PROVE  ErrorsOK'
  <1>1. pc[Main] = "rotate" /\ mutex = Main
    BY MainSteps DEF BackupFile, Timing
  <1>2. PICK i \in Index : i = 0 /\ i + 1 = 1 /\ i < MaxBackups
    BY Indices, MaxBackupsAssumption
  <1>3. \A k : Kept(k) => Kept(k)'
    BY <1>1, <1>2, KeepsMoved DEF BackupFile, history
  <1>4. PICK l \in Timing \cup {"warn"} : pc' = [pc EXCEPT ![Main] = l]
    BY DEF BackupFile, Goto, Timing
  <1> QED
    BY <1>1, <1>3, <1>4, TimerErrors DEF BackupFile, Timing, history

LEMMA ReopenErrors ==
  ASSUME StepsOK, ErrorsOK, Reopen
  PROVE  ErrorsOK'
  <1>1. pc[Main] = "reopen" /\ mutex = Main /\ fileName \in Name
    BY MainSteps DEF Reopen, Timing
  <1>2. PICK n \in Name : n = fileName
    BY <1>1
  <1>3. \A k : Kept(k) => Kept(k)'
    BY <1>2, KeepsCreated, KeepsAll DEF Reopen, history
  <1>4. PICK l \in Timing \cup {"warn"} : pc' = [pc EXCEPT ![Main] = l]
    BY DEF Reopen, Goto, Timing
  <1> QED
    BY <1>1, <1>3, <1>4, TimerErrors DEF Reopen, Timing, history

LEMMA ClearErrors ==
  ASSUME StepsOK, ErrorsOK, NEW t \in Thread, Clear(t), UNCHANGED <<fileVars, up, runs, history>>
  PROVE  ErrorsOK'
  <1>1. /\ UNCHANGED <<messages, Logged, pc, current, queue, files, pending, gone, errors, up, runs>>
        /\ dropped' = dropped \cup ToSet(buffers[t])
        /\ buffers'[t] = <<>> /\ \A g \in Thread : g # t => buffers'[g] = buffers[g]
    BY Types DEF StepsOK, Clear, fileVars, history, Logged, ToSet
  <1>2. \A k : Kept(k)' <=> Kept(k)
    BY <1>1 DEF Kept, OnDisk, Contents
  <1>3. Growing
    BY <1>1, <1>2 DEF Growing
  <1>4. Accounted'
    <2>1. \A g \in Thread : \A k : Held(k, g) => Held(k, g)' \/ k \in dropped'
      BY <1>1 DEF Held, Entering
    <2> QED
      BY <1>1, <1>3, <2>1, StillAccounted DEF ErrorsOK
  <1>5. ASSUME NEW g \in Thread PROVE ErrorIsLast(g)'
    BY <1>1, <1>2 DEF ErrorsOK, ErrorIsLast, Urgent, Triggers, LevelOf
  <1> QED
    BY <1>1, <1>3, <1>4, <1>5, Surviving DEF ErrorsOK

LEMMA EnterErrors ==
  ASSUME StepsOK, ErrorsOK, NEW t \in Thread, Enter(t), UNCHANGED <<fileVars, up, runs, history>>
  PROVE  ErrorsOK'
  <1>1. pc'[t] = "log" /\ \A g \in Thread : g # t => pc'[g] = pc[g]
    BY Types DEF StepsOK, Enter, Goto
  <1>2. pc[t] = "enter" \/ current[t] = 0
    BY Types DEF StepsOK, Enter, TryLock, ThreadOK, InHandler
  <1>3. \A g \in Thread : /\ Entering(g)' <=> Entering(g)
                          /\ pc'[g] \in {"print", "warn"} => pc[g] \in {"print", "warn"} \/ current[g] = 0
    BY <1>1, <1>2 DEF Entering, Enter
  <1> QED
    BY <1>3, QuietErrors DEF Enter, fileVars, history

LEMMA WarnOnStderrErrors ==
  ASSUME StepsOK, ErrorsOK, NEW t \in Thread, WarnOnStderr(t)
  PROVE  ErrorsOK'
  <1>1. pc[t] = "warn" /\ pc'[t] = "print" /\ \A g \in Thread : g # t => pc'[g] = pc[g]
    BY Types DEF StepsOK, WarnOnStderr, Goto
  <1>2. \A g \in Thread : /\ Entering(g)' <=> Entering(g)
                          /\ pc'[g] \in {"print", "warn"} => pc[g] \in {"print", "warn"} \/ current[g] = 0
    BY <1>1 DEF Entering, WarnOnStderr
  <1> QED
    BY <1>2, QuietErrors DEF WarnOnStderr, history

LEMMA CallErrors ==
  ASSUME StepsOK, StepsOK', ErrorsOK, NEW t \in Thread, NEW l \in Level[t], Call(t, l, runs),
         UNCHANGED <<fileVars, up, runs, history>>
  PROVE  ErrorsOK'
  <1>1. PICK c : c = Len(messages) + 1
    OBVIOUS
  <1>2. /\ c \in Nat \ {0} /\ Logged' = Logged \cup {c} /\ c \notin Logged
        /\ \A k \in Logged : messages'[k] = messages[k]
        /\ messages'[c].thread = t
    <2>1. PICK r \in Record : r = [thread |-> t, level |-> l, run |-> runs, direct |-> FALSE]
      <3>1. l \in 0..4 /\ runs \in Nat
        BY LevelAssumption, Types DEF StepsOK
      <3> QED
        BY <3>1 DEF Record
    <2>2. messages' = Append(messages, r) /\ messages \in Seq(Record) /\ Len(messages) \in Nat
      BY <2>1, Types DEF Call, StepsOK
    <2>3. /\ Len(messages') = Len(messages) + 1 /\ messages'[c] = r
          /\ \A k \in 1..Len(messages) : messages'[k] = messages[k]
      BY <1>1, <2>2, AppendProperties
    <2> QED
      BY <1>1, <2>1, <2>2, <2>3 DEF Logged
  <1>3. /\ UNCHANGED <<dropped, queue, buffers, files, pending, gone, errors, up, runs>>
        /\ pc[t] = "idle" /\ pc'[t] = "enter" /\ current'[t] = c
        /\ \A g \in Thread : g # t => pc'[g] = pc[g] /\ current'[g] = current[g]
    BY <1>1, Types DEF StepsOK, Call, Goto, fileVars, history
  <1>4. \A k : Kept(k)' <=> Kept(k)
    BY <1>3 DEF Kept, OnDisk, Contents
  <1>5. Growing
    BY <1>2, <1>3, <1>4 DEF Growing
  <1>6. Accounted'
    <2> SUFFICES ASSUME up, NEW k \in Logged', NEW g \in Thread, messages'[k].thread = g, messages'[k].run = runs
                 PROVE  \/ messages'[k].direct \/ k \in dropped' \/ Kept(k)' \/ k \in ToSet(pending')
                        \/ Held(k, g)'
      BY <1>3 DEF Accounted
    <2>1. CASE k = c
      BY <1>2, <1>3, <2>1 DEF Held, Entering
    <2>2. CASE k \in Logged
      <3>1. messages[k].direct \/ k \in dropped \/ Kept(k) \/ k \in ToSet(pending) \/ Held(k, g)
        BY <1>2, <2>2 DEF ErrorsOK, Accounted
      <3>2. Held(k, g) => Held(k, g)'
        BY <1>3 DEF Held, Entering
      <3> QED
        BY <1>2, <1>3, <1>4, <2>2, <3>1, <3>2
    <2> QED
      BY <1>2, <2>1, <2>2
  <1>7. ASSUME NEW g \in Thread PROVE ErrorIsLast(g)'
    <2>1. CASE g = t
      BY <1>3, <2>1 DEF ErrorIsLast
    <2>2. CASE g # t
      <3>1. current[g] # 0 => current[g] \in Logged
        BY DEF StepsOK, ThreadOK
      <3>2. PICK d : d = current[g] /\ d = current'[g]
        BY <1>3, <2>2
      <3>3. d # 0 => /\ (Urgent(d)' => Urgent(d)) /\ (Triggers(d)' => Triggers(d))
                     /\ (messages[d].direct => messages'[d].direct)
        BY <1>2, <3>1, <3>2 DEF Urgent, Triggers, LevelOf
      <3>4. (Urgent(d)' <=> Urgent(current[g])') /\ (Triggers(d)' <=> Triggers(current[g])')
        BY <3>2 DEF Urgent, Triggers, LevelOf
      <3>5. Kept(d)' <=> Kept(current[g])'
        BY <3>2 DEF Kept, OnDisk, Contents
      <3>6. ErrorIsLast(g)
        BY DEF ErrorsOK
      <3>7. pc'[g] \in {"print", "warn"} /\ d # 0 /\ Urgent(d) /\ Triggers(d) =>
              /\ messages[d].direct \/ buffers[g] = <<>>
              /\ \/ queue[g] # <<>> /\ Last(queue[g]) = d
                 \/ queue[g] = <<>> /\ pending = <<>> /\ Kept(d)
        BY <1>3, <2>2, <3>2, <3>6 DEF ErrorIsLast
      <3> QED
        BY <1>3, <1>4, <3>2, <3>3, <3>4, <3>5, <3>7 DEF ErrorIsLast
    <2> QED
      BY <2>1, <2>2
  <1> QED
    BY <1>3, <1>5, <1>6, <1>7, Surviving DEF ErrorsOK

LEMMA StopErrors ==
  ASSUME StepsOK, ErrorsOK, Stop, UNCHANGED history
  PROVE  ErrorsOK'
  <1>1. /\ UNCHANGED <<messages, Logged, dropped, files, gone, errors>> /\ ~up'
        /\ \A t \in Thread : pc'[t] = "idle"
    BY DEF Stop, logged, Logged, history, ThreadsReset
  <1>2. Growing
    BY <1>1, KeepsAll DEF Growing
  <1>3. Accounted' /\ \A t \in Thread : ErrorIsLast(t)'
    BY <1>1 DEF Accounted, ErrorIsLast
  <1> QED
    BY <1>1, <1>2, <1>3, Surviving DEF ErrorsOK

LEMMA StartErrors ==
  ASSUME StepsOK, ErrorsOK, Start
  PROVE  ErrorsOK'
  <1>1. /\ UNCHANGED <<messages, Logged, dropped, pc, gone, errors>> /\ ~up /\ runs' = runs + 1 /\ runs \in Nat
    BY Types DEF StepsOK, Start, logged, Logged, history
  <1>2. PICK n \in Name : files' = Created(files, n) \/ files' = files
    BY SettingsAssumption DEF Start
  <1>3. \A k : Kept(k) => Kept(k)'
    BY <1>1, <1>2, KeepsAll, KeepsCreated
  <1>4. Growing
    BY <1>1, <1>3 DEF Growing
  <1>5. Accounted'
    <2>1. \A k \in Logged : messages[k].run \in Nat /\ messages[k].run <= runs
      <3>1. \A k \in Logged : messages[k] \in Record
        BY Types, ElementOfSeq DEF StepsOK, Logged
      <3> QED
        BY <3>1 DEF Record, StepsOK, ProgramOK
    <2> QED
      BY <1>1, <2>1 DEF Accounted
  <1>6. \A t \in Thread : ErrorIsLast(t)'
    BY <1>1 DEF StepsOK, ProgramOK, ErrorIsLast
  <1> QED
    BY <1>1, <1>4, <1>5, <1>6, Surviving DEF ErrorsOK

LEMMA ReturnErrors ==
  ASSUME StepsOK, StepsOK', ErrorsOK, NEW t \in Thread, Return(t)
  PROVE  ErrorsOK'
  <1>1. /\ pc[t] = "print" /\ queue[t] = <<>> /\ gone' = gone
        /\ errors' = errors \cup {m \in {current[t]} : LevelOf(m) >= Critical /\ Triggers(m)}
        /\ UNCHANGED <<messages, dropped, Logged, files>>
    BY DEF Return, Stop, LogReturns, logged, fileVars, Logged
  <1>2. /\ current[t] # 0 /\ current[t] \in Logged /\ messages[current[t]].thread = t
        /\ messages[current[t]].run = runs /\ up /\ mutex = t
    BY <1>1 DEF StepsOK, ThreadOK, ProgramOK
  <1>3. \A k : Kept(k)' <=> Kept(k)
    BY <1>1 DEF Kept, OnDisk, Contents
  <1>4. ErrorsSurvive' /\ errors' \subseteq Logged'
    <2>1. errors' \subseteq Logged'
      BY <1>1, <1>2 DEF ErrorsOK
    <2>2. ASSUME NEW m \in errors'
          PROVE  /\ Kept(m)
                 /\ ~messages[m].direct =>
                      \A k \in 1..m :
                        \/ messages[k].thread # messages[m].thread \/ messages[k].run # messages[m].run
                        \/ messages[k].direct \/ k \in dropped
                        \/ Kept(k)
      <3>1. CASE m \in errors
        BY <3>1 DEF ErrorsOK, ErrorsSurvive
      <3>2. CASE m = current[t] /\ LevelOf(m) >= Critical /\ Triggers(m)
        <4>1. /\ pending = <<>> /\ Kept(m)
              /\ messages[m].direct \/ buffers[t] = <<>>
          BY <1>1, <1>2, <3>2 DEF ErrorsOK, ErrorIsLast, Urgent
        <4>2. ToSet(<<>>) = {} /\ ~Entering(t)
          BY <1>1 DEF ToSet, Entering
        <4>3. \A k \in 1..m : k \in Logged
          BY <1>2, <3>2, LoggedRange
        <4> QED
          BY <1>1, <1>2, <3>2, <4>1, <4>2, <4>3 DEF ErrorsOK, Accounted, Held
      <3> QED
        BY <1>1, <3>1, <3>2
    <2> QED
      BY <1>1, <1>3, <2>1, <2>2 DEF ErrorsSurvive
  <1>5. CASE Stop
    <2>1. ~up' /\ \A g \in Thread : pc'[g] = "idle"
      BY <1>5 DEF Stop, ThreadsReset
    <2> QED
      BY <1>4, <2>1 DEF ErrorsOK, Accounted, ErrorIsLast
  <1>6. CASE LogReturns(t) /\ UNCHANGED <<fileVars, up, runs>>
    <2>1. /\ \A g \in Thread : g # t => pc'[g] = pc[g] /\ current'[g] = current[g]
          /\ pc'[t] = "idle" /\ UNCHANGED <<queue, buffers, pending, up, runs>>
      BY <1>6, Types DEF StepsOK, LogReturns, Goto, fileVars
    <2>2. Accounted'
      <3>1. \A g \in Thread : \A k : Held(k, g) => Held(k, g)'
        BY <1>1, <2>1 DEF Held, Entering
      <3>2. Growing
        BY <1>1, <1>3 DEF Growing
      <3> QED
        BY <1>1, <2>1, <3>1, <3>2, StillAccounted DEF ErrorsOK
    <2>3. ASSUME NEW g \in Thread PROVE ErrorIsLast(g)'
      <3>1. g # t => pc[g] \notin {"print", "warn"}
        BY <1>2 DEF StepsOK, ThreadOK
      <3> QED
        BY <2>1, <3>1 DEF ErrorIsLast
    <2> QED
      BY <1>4, <2>2, <2>3 DEF ErrorsOK
  <1> QED
    BY <1>5, <1>6 DEF Return

LEMMA LogErrors ==
  ASSUME StepsOK, OrderOK, ErrorsOK, NEW t \in Thread, Log(t), UNCHANGED <<fileVars, up, runs, history>>
  PROVE  ErrorsOK'
  <1>1. PICK c \in Logged : c = current[t]
    BY LogMarks
  <1>2. LogHandsOn(t, c) /\ Marked /\ Entering(t) /\ queue[t] = <<>> /\ messages[c].thread = t
    BY <1>1, LogHands, LogMarks, Types DEF StepsOK, Entering, Message, ThreadOK
  <1>3. UNCHANGED <<files, pending, gone, errors, up, runs, Logged>> /\ mutex = NoOwner
    BY <1>2 DEF fileVars, history, Marked, Log
  <1>4. \A k : Kept(k)' <=> Kept(k)
    BY <1>3 DEF Kept, OnDisk, Contents
  <1>5. Growing
    BY <1>2, <1>3, <1>4 DEF Growing, Marked, LogHandsOn
  <1>6. Accounted'
    <2>1. ASSUME NEW g \in Thread, NEW k \in Logged, Held(k, g)
          PROVE  messages'[k].direct \/ k \in dropped' \/ Held(k, g)'
      <3>1. CASE g = t
        <4>1. ToSet(<<>>) = {}
          BY DEF ToSet
        <4>2. k \in ToSet(buffers[t]) \cup {c}
          BY <1>1, <1>2, <2>1, <3>1, <4>1 DEF Held
        <4> QED
          BY <1>2, <3>1, <4>2 DEF LogHandsOn, Held
      <3>2. CASE g # t
        BY <1>2, <2>1, <3>2 DEF LogHandsOn, Held, Entering
      <3> QED
        BY <3>1, <3>2
    <2> QED
      BY <1>3, <1>5, <2>1, StillAccounted DEF ErrorsOK
  <1>7. ASSUME NEW g \in Thread PROVE ErrorIsLast(g)'
    <2>1. CASE g = t
      <3>1. PICK d : d = current[t] /\ d = current'[t] /\ d = c
        BY <1>1, <1>2 DEF LogHandsOn
      <3>2. Triggers(d)' => Triggers(d)
        BY <1>2, <3>1 DEF Marked, Triggers, LevelOf
      <3>3. Triggers(current[t])' <=> Triggers(d)'
        BY <3>1 DEF Triggers, LevelOf
      <3> QED
        BY <1>2, <2>1, <3>1, <3>2, <3>3 DEF LogHandsOn, ErrorIsLast
    <2>2. CASE g # t
      <3>1. pc[g] \notin {"print", "warn"}
        BY <1>3, Types DEF StepsOK, ThreadOK
      <3> QED
        BY <1>2, <2>2, <3>1 DEF LogHandsOn, ErrorIsLast
    <2> QED
      BY <2>1, <2>2
  <1> QED
    BY <1>3, <1>5, <1>6, <1>7, Surviving DEF ErrorsOK

\* What a thread has printed leaves its queue; the last message leaves it last.
LEMMA QueueLess ==
  ASSUME StepsOK, NEW t \in Thread, Printing(t), queue' = [queue EXCEPT ![t] = Tail(@)]
  PROVE  /\ \A g \in Thread : g # t => queue'[g] = queue[g]
         /\ \A k \in ToSet(queue[t]) : k = Head(queue[t]) \/ k \in ToSet(queue'[t])
         /\ \/ queue'[t] = <<>> /\ Last(queue[t]) = Head(queue[t])
            \/ queue'[t] # <<>> /\ Last(queue'[t]) = Last(queue[t])
  <1>1. queue'[t] = Tail(queue[t]) /\ \A g \in Thread : g # t => queue'[g] = queue[g]
    BY Types DEF StepsOK
  <1>2. PICK q \in Seq(Message), r \in Seq(Message) : q = queue[t] /\ r = Tail(queue[t])
    BY Queues
  <1>3. /\ DOMAIN q = 1..Len(q) /\ DOMAIN r = 1..Len(r) /\ Len(q) \in Nat \ {0} /\ Len(r) = Len(q) - 1
        /\ \A x \in 1..Len(r) : r[x] = q[x + 1]
        /\ Head(q) = q[1]
    BY <1>2, Queues, LenProperties
  <1>4. \A k \in ToSet(q) : k = Head(q) \/ k \in ToSet(r)
    <2> SUFFICES ASSUME NEW x \in DOMAIN q PROVE q[x] = Head(q) \/ q[x] \in ToSet(r)
      BY DEF ToSet
    <2>1. x = 1 \/ (x - 1 \in 1..Len(r) /\ (x - 1) + 1 = x)
      BY <1>3
    <2> QED
      BY <1>3, <2>1 DEF ToSet
  <1>5. CASE r = <<>>
    <2>1. Len(r) = 0
      BY <1>5
    <2>2. Len(q) = 1
      <3>1. \A a \in Nat : 0 = a - 1 => a = 1
        OBVIOUS
      <3>2. Len(q) \in Nat /\ 0 = Len(q) - 1
        BY <1>3, <2>1
      <3> QED
        BY <3>1, <3>2
    <2>3. Last(q) = Head(q)
      BY <1>3, <2>2 DEF Last
    <2> QED
      BY <1>1, <1>2, <1>4, <1>5, <2>3
  <1>6. CASE r # <<>>
    <2>1. Len(r) # 0
      BY <1>2, <1>6, EmptySeq
    <2>2. Len(r) \in 1..Len(r) /\ Len(r) + 1 = Len(q)
      BY <1>3, <2>1
    <2>3. Last(r) = Last(q)
      BY <1>3, <2>2 DEF Last
    <2> QED
      BY <1>1, <1>2, <1>4, <1>6, <2>3
  <1> QED
    BY <1>5, <1>6

LEMMA WriteKeeps ==
  ASSUME StepsOK, StepsOK', NEW t \in Thread, WriteToFile(t), NEW m, m = Head(queue[t])
  PROVE  /\ \A k : Kept(k) => Kept(k)'
         /\ \A k \in ToSet(pending) \cup {m} : Kept(k)' \/ k \in ToSet(pending')
         /\ Urgent(m) => Kept(m)' /\ pending' = <<>>
  <1>1. PICK h \in Name : h = fileName
    BY ReadableFiles DEF Readable
  <1>2. (\A k : Written(k) => Written(k)') /\ Written(m)'
    BY <1>1, WriteAdds DEF Adding
  <1>3. UNCHANGED gone /\ (IF Urgent(m) THEN pending' = <<>> ELSE UNCHANGED files)
    BY DEF WriteToFile, history
  <1>4. ToSet(<<>>) = {}
    BY DEF ToSet
  <1>5. \A k : Written(k)' <=> OnDisk(k)' \/ k \in ToSet(pending')
    BY DEF Written
  <1>6. \A k : Kept(k)' <=> OnDisk(k)' \/ k \in gone'
    BY DEF Kept
  <1>7. ASSUME NEW k, Kept(k) PROVE Kept(k)'
    <2>1. CASE Urgent(m)
      BY <1>2, <1>3, <1>4, <1>5, <1>6, <1>7, <2>1 DEF Kept, Written
    <2>2. CASE ~Urgent(m)
      BY <1>3, <1>7, <2>2, KeepsAll
    <2> QED
      BY <2>1, <2>2
  <1>8. \A k \in ToSet(pending) \cup {m} : Kept(k)' \/ k \in ToSet(pending')
    BY <1>2, <1>5, <1>6 DEF Written
  <1>9. Urgent(m) => Kept(m)' /\ pending' = <<>>
    BY <1>2, <1>3, <1>4, <1>5, <1>6
  <1> QED
    BY <1>7, <1>8, <1>9

\* The thread that prints gives away its first message.
LEMMA PrintErrors ==
  ASSUME StepsOK, ErrorsOK, NEW t \in Thread, Printing(t), queue' = [queue EXCEPT ![t] = Tail(@)],
         UNCHANGED <<logged, pc, current, buffers, up, runs, errors>>,
         \A k : Kept(k) => Kept(k)',
         NEW m, m = Head(queue[t]),
         \A k \in ToSet(pending) \cup {m} : Kept(k)' \/ k \in ToSet(pending'),
         Urgent(m) => Kept(m)' /\ pending' = <<>>
  PROVE  ErrorsOK'
  <1>1. UNCHANGED <<messages, dropped, Logged>> /\ mutex = t
    BY Queues DEF logged, Logged
  <1>2. Growing
    BY <1>1 DEF Growing
  <1>3. Accounted'
    <2>1. ASSUME NEW g \in Thread, NEW k \in Logged, Held(k, g)
          PROVE  Kept(k)' \/ k \in ToSet(pending') \/ Held(k, g)'
      BY <2>1, QueueLess DEF Held, Entering
    <2> QED
      BY <1>1, <1>2, <2>1, StillAccounted DEF ErrorsOK
  <1>4. ASSUME NEW g \in Thread PROVE ErrorIsLast(g)'
    <2>1. CASE g = t
      <3>1. PICK d : d = current[t] /\ d = current'[t]
        OBVIOUS
      <3>2. /\ Triggers(d)' <=> Triggers(current[t])
            /\ Triggers(current[t])' <=> Triggers(current[t])
            /\ Urgent(current[t])' <=> Urgent(current[t])
        BY <1>1, <3>1 DEF Triggers, Urgent, LevelOf
      <3>3. Kept(d)' <=> Kept(current[t])'
        BY <3>1 DEF Kept, OnDisk, Contents
      <3>4. ErrorIsLast(t) /\ queue[t] # <<>>
        BY DEF ErrorsOK, Printing
      <3>5. SUFFICES ASSUME current[t] # 0, Urgent(current[t]), Triggers(current[t])
                     PROVE  /\ messages[d].direct \/ buffers[t] = <<>>
                            /\ \/ queue'[t] # <<>> /\ Last(queue'[t]) = d
                               \/ queue'[t] = <<>> /\ pending' = <<>> /\ Kept(d)'
        BY <1>1, <2>1, <3>1, <3>2, <3>3 DEF ErrorIsLast
      <3>6. (messages[d].direct \/ buffers[t] = <<>>) /\ Last(queue[t]) = d
        BY <3>1, <3>4, <3>5 DEF ErrorIsLast, Printing
      <3>7. ASSUME m = d PROVE pending' = <<>> /\ Kept(d)'
        <4>1. Urgent(m)
          BY <3>1, <3>5, <3>7 DEF Urgent, LevelOf
        <4> QED
          BY <3>7, <4>1
      <3> QED
        BY <3>6, <3>7, QueueLess
    <2>2. CASE g # t
      <3>1. pc[g] \notin {"print", "warn"}
        BY <1>1, <2>2 DEF StepsOK, ThreadOK
      <3> QED
        BY <3>1 DEF ErrorIsLast
    <2> QED
      BY <2>1, <2>2
  <1> QED
    BY <1>1, <1>2, <1>3, <1>4, Surviving DEF ErrorsOK

LEMMA WriteToFileErrors ==
  ASSUME StepsOK, StepsOK', ErrorsOK, NEW t \in Thread, WriteToFile(t)
  PROVE  ErrorsOK'
  <1>1. PICK m : m = Head(queue[t])
    OBVIOUS
  <1>2. /\ Printing(t) /\ queue' = [queue EXCEPT ![t] = Tail(@)]
        /\ UNCHANGED <<logged, pc, current, buffers, up, runs, errors>>
    BY DEF WriteToFile, history
  <1> QED
    BY <1>1, <1>2, WriteKeeps, PrintErrors

LEMMA WriteToStderrErrors ==
  ASSUME StepsOK, ErrorsOK, NEW t \in Thread, WriteToStderr(t)
  PROVE  ErrorsOK'
  <1>1. PICK m : m = Head(queue[t])
    OBVIOUS
  <1>2. /\ Printing(t) /\ queue' = [queue EXCEPT ![t] = Tail(@)]
        /\ UNCHANGED <<logged, pc, current, buffers, files, pending, up, runs, errors>>
        /\ gone' = gone \cup {m} /\ pending = <<>>
    BY <1>1 DEF WriteToStderr, fileVars, StepsOK, TypeOK
  <1>3. Kept(m)'
    BY <1>2 DEF Kept
  <1>4. \A k : Kept(k) => Kept(k)'
    BY <1>2, KeepsAll
  <1>5. ToSet(<<>>) = {} /\ pending' = <<>>
    BY <1>2 DEF ToSet
  <1>6. \A k \in ToSet(pending) \cup {m} : Kept(k)'
    <2>1. ASSUME NEW k, k = m PROVE Kept(k)'
      BY <1>2, <2>1 DEF Kept
    <2> QED
      BY <1>2, <1>5, <2>1
  <1> QED
    BY <1>1, <1>2, <1>3, <1>4, <1>5, <1>6, PrintErrors

LEMMA WriteFailsErrors ==
  ASSUME StepsOK, ErrorsOK, NEW t \in Thread, WriteFails(t)
  PROVE  ErrorsOK'
  <1>1. /\ Printing(t) /\ UNCHANGED <<messages, dropped, Logged, current, buffers, queue, files, up, runs, errors>>
        /\ gone' = gone \cup ToSet(pending) /\ pending' = <<>> /\ mutex = t /\ pc[t] = "print" /\ pc'[t] = "warn"
        /\ \A g \in Thread : g # t => pc'[g] = pc[g]
    BY Queues, Types DEF WriteFails, logged, Logged, Goto, StepsOK
  <1>2. \A k : Kept(k) => Kept(k)'
    BY <1>1, KeepsAll
  <1>3. \A k \in ToSet(pending) : Kept(k)'
    BY <1>1 DEF Kept
  <1>4. Growing
    BY <1>1, <1>2 DEF Growing
  <1>5. Accounted'
    <2>1. \A g \in Thread : \A k : Held(k, g) => Held(k, g)'
      BY <1>1 DEF Held, Entering
    <2> QED
      BY <1>1, <1>3, <1>4, <2>1, StillAccounted DEF ErrorsOK
  <1>6. ASSUME NEW g \in Thread PROVE ErrorIsLast(g)'
    <2>1. CASE g = t
      <3>1. queue[t] # <<>> /\ ErrorIsLast(t)
        BY <1>1 DEF Printing, ErrorsOK
      <3> QED
        BY <1>1, <2>1, <3>1 DEF ErrorIsLast, Urgent, Triggers, LevelOf
    <2>2. CASE g # t
      <3>1. pc[g] \notin {"print", "warn"}
        BY <1>1, <2>2 DEF StepsOK, ThreadOK
      <3> QED
        BY <1>1, <2>2, <3>1 DEF ErrorIsLast
    <2> QED
      BY <2>1, <2>2
  <1> QED
    BY <1>1, <1>4, <1>5, <1>6, Surviving DEF ErrorsOK

LEMMA ErrorsInductive ==
  ASSUME StepsOK, StepsOK', OrderOK, ErrorsOK, [Next]_vars
  PROVE  ErrorsOK'
  <1>1. ASSUME Callers PROVE ErrorsOK'
    BY <1>1, ClearErrors, CallErrors DEF Callers
  <1>2. ASSUME NEW t \in Thread, Handler(t) PROVE ErrorsOK'
    BY <1>2, EnterErrors, LogErrors, WriteToFileErrors, WriteFailsErrors, WarnOnStderrErrors,
       WriteToStderrErrors, ReturnErrors DEF Handler
  <1>3. ASSUME Timer PROVE ErrorsOK'
    BY <1>3, FlushTimerErrors, FlushFileErrors, StopErrors, RemoveBackupErrors, ShiftBackupErrors,
       BackupFileErrors, ReopenErrors DEF Timer, FlushNull
  <1>4. ASSUME Kill PROVE ErrorsOK'
    BY <1>4, StopErrors DEF Kill
  <1>5. ASSUME UNCHANGED vars PROVE ErrorsOK'
    BY <1>5, QuietErrors DEF vars, loggerVars, fileVars, history, Entering
  <1> QED
    BY <1>1, <1>2, <1>3, <1>4, <1>5, RefreshErrors, StartErrors DEF Next

LEMMA ErrorsInitially ==
  ASSUME Init
  PROVE  ErrorsOK
  <1>1. ~up /\ errors = {} /\ \A t \in Thread : pc[t] = "idle"
    BY DEF Init, LoggerInit
  <1> QED
    BY <1>1 DEF ErrorsOK, Accounted, ErrorIsLast, ErrorsSurvive

-----------------------------------------------------------------------------
(* The theorems. *)

\* The three layers hold in every state, whatever the threads log, whichever
\* write, rename or remove fails, and whenever the program is killed.
THEOREM Invariance == Spec => []IndInv
  <1>1. Init => IndInv
    BY StepsInitially, OrderInitially, ErrorsInitially DEF IndInv
  <1>2. IndInv /\ [Next]_vars => IndInv'
    BY StepsInductive, OrderInductive, ErrorsInductive DEF IndInv
  <1> QED
    BY <1>1, <1>2, PTL DEF Spec

\* Every variable keeps its type; a ring buffer has at most as many messages
\* as the settings ever allowed (logger.cpp:171).
THEOREM TypeCorrect == Spec => []TypeOK
  <1>1. IndInv => TypeOK
    BY DEF IndInv, StepsOK
  <1> QED
    BY <1>1, Invariance, PTL

\* However often files are rotated, and whichever rename or remove fails, no
\* file gets a number above maxBackups (filelogger.cpp:134-171).
THEOREM BackupsLimited == Spec => []BackupsWithinLimit
  <1>1. IndInv => BackupsWithinLimit
    BY DEF IndInv, StepsOK
  <1> QED
    BY <1>1, Invariance, PTL

\* Who reads the backups from the oldest to the newest and then the file finds
\* the messages of a thread in the order in which they were logged, at every
\* step of a rotation (filelogger.cpp:134-171).
THEOREM OrderKept == Spec => []MessagesInOrder
  <1>1. IndInv => MessagesInOrder
    BY DEF IndInv, OrderOK
  <1> QED
    BY <1>1, Invariance, PTL

\* Once the call that logged an error has returned, the error and what its
\* thread had buffered before it survive the end of the program
\* (filelogger.cpp:87).
THEOREM ErrorsKept == Spec => []ErrorsSurvive
  <1>1. IndInv => ErrorsSurvive
    BY DEF IndInv, ErrorsOK
  <1> QED
    BY <1>1, Invariance, PTL
=============================================================================
