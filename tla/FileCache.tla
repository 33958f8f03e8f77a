----------------------------- MODULE FileCache -----------------------------
(***************************************************************************)
(* The two caches of files that handler threads share: the one of          *)
(* StaticFileController::service() (staticfilecontroller.cpp) and the one  *)
(* of TemplateCache (templatecache.cpp) under TemplateLoader::getTemplate()*)
(* (templateloader.cpp).  Files change while the server runs.              *)
(*                                                                         *)
(* A document is a version of a file, 0 if there is no file, or it is      *)
(* torn: what is left of a reading that failed or that a change of the     *)
(* file overtook.  All that matters of its contents is their size.         *)
(*                                                                         *)
(* A step is what a thread does while it holds the cache's mutex, or       *)
(* between two such sections.  The sections wait for nothing but the file  *)
(* system, so the mutex itself is not a variable.  The caches share        *)
(* nothing but the files: a behaviour exercises one of them.               *)
(***************************************************************************)
EXTENDS QCache, Integers, FiniteSets

CONSTANTS
    Thread,         \* the handler threads
    StaticName,     \* the paths of static files
    Directory,      \* those of them that are directories
    SuffixOf,       \* the suffix of each of them
    TemplateName,   \* the base names of templates
    Locales,        \* the locale lists of callers: sequences of <<lang, country>>
    Size,           \* the size of each version that files may have
    TornSizes,      \* the sizes of torn documents
    CacheTimeout,   \* cacheTime of both caches, 0 for no limit
    MaxCost,        \* cacheSize of both caches
    MaxCachedFileSize,
    MaxClock, MaxChanges, MaxCalls  \* bounds: time, changes of files, calls

ASSUME CacheConstants ==
    /\ {CacheTimeout, MaxCost, MaxCachedFileSize, MaxClock, MaxChanges, MaxCalls} \subseteq Nat
    /\ {0, 1} \subseteq DOMAIN Size /\ DOMAIN Size \subseteq Nat
    /\ Size \in [DOMAIN Size -> Nat] /\ Size[0] = 0
    /\ TornSizes \subseteq Nat
    /\ Directory \subseteq StaticName /\ DOMAIN SuffixOf = StaticName
    /\ Locales \subseteq Seq(STRING \X STRING)
    /\ IsFiniteSet(Thread)

VARIABLES
    clock,      \* currentMSecsSinceEpoch()
    past,       \* the versions of each file, with the time they appeared at
    changes,    \* changes of files
    owner,      \* whose cache it is
    cache,      \* the QCache
    pc,         \* what each thread does
    now,        \* its local variable now
    todo,       \* the names it still has to try
    hold,       \* the document or the entry it holds, and its Content-Type
    calls,      \* calls begun
    spoiled     \* history: threads that have gone on, in this call, after a torn
                \* document or one of a deleted entry

disk == <<past, changes>>
vars == <<clock, disk, owner, cache, pc, now, todo, hold, calls, spoiled>>
local == <<now, todo, hold, spoiled>>

-----------------------------------------------------------------------------
(* Names and files. *)

File(base, lang, country) == [base |-> base, lang |-> lang, country |-> country]
Plain(base) == File(base, "", "")

\* getTemplate(): the locales as they are, then their languages, then the
\* default; a name is tried once.
Distinct(names) ==
    LET upTo[n \in 0..Len(names)] ==
          IF n = 0 THEN <<>>
          ELSE IF \E i \in 1..(n - 1) : names[i] = names[n] THEN upTo[n - 1]
          ELSE Append(upTo[n - 1], names[n])
    IN  upTo[Len(names)]

Candidates(base, locs) ==
    Distinct([i \in DOMAIN locs |-> File(base, locs[i][1], locs[i][2])]
             \o [i \in DOMAIN locs |-> File(base, locs[i][1], "")]
             \o <<Plain(base)>>)

FilesOf(locs) == UNION {Range(Candidates(b, locs)) : b \in TemplateName}
Owner == {"StaticFileController", "TemplateCache"}

\* "If the filename is a directory, append index.html."
Opened(name) == IF name.base \in Directory THEN File(name.base, "", "index.html") ELSE name
OnDisk(o) ==
    IF o = "StaticFileController" THEN {Opened(Plain(b)) : b \in StaticName}
    ELSE UNION {FilesOf(l) : l \in Locales}

\* setContentType(): by the suffix, a file whose suffix it does not know has none.
MimeTypes ==
    ("png" :> "image/png") @@ ("jpg" :> "image/jpeg") @@ ("gif" :> "image/gif")
    @@ ("pdf" :> "application/pdf") @@ ("txt" :> "text/plain") @@ ("html" :> "text/html")
    @@ ("htm" :> "text/html") @@ ("css" :> "text/css") @@ ("js" :> "text/javascript")
    @@ ("svg" :> "image/svg+xml") @@ ("woff" :> "font/woff") @@ ("woff2" :> "font/woff2")
    @@ ("ttf" :> "application/x-font-ttf") @@ ("eot" :> "application/vnd.ms-fontobject")
    @@ ("otf" :> "application/font-otf") @@ ("json" :> "application/json") @@ ("xml" :> "text/xml")
Suffix(name) == IF name.country = "index.html" THEN "html" ELSE SuffixOf[name.base]
Types == {""} \cup {MimeTypes[s] : s \in DOMAIN MimeTypes}
ContentType(name) == IF Suffix(name) \in DOMAIN MimeTypes THEN MimeTypes[Suffix(name)] ELSE ""

\* The file behind a name.
FileOf(name) == IF owner = "StaticFileController" THEN Opened(name) ELSE name

Version == DOMAIN Size
Current(file) == past[file][Len(past[file])].version

\* A torn document of n bytes is -1 - n.
Torn == {-1 - n : n \in TornSizes}
Document == Version \cup Torn

\* The versions a document may come from, and its size.
VersionsOf(doc) == IF doc \in Torn THEN Version ELSE {doc}
Bytes(doc) == IF doc \in Torn THEN -1 - doc ELSE Size[doc]

\* What a file that is read until its end or an error yields: also a part of it,
\* or a part of one version and a part of another, and nobody is told.
Readings(file) == {Current(file)} \cup IF Current(file) = 0 THEN {} ELSE Torn

\* Was one of the versions in the file at some time after t?
ThereAfter(file, versions, t) ==
    \E i \in DOMAIN past[file] :
        /\ past[file][i].version \in versions
        /\ i < Len(past[file]) => past[file][i + 1].from > t

\* A missing file is as good as an empty one.
Empty == {v \in Version : Size[v] = 0}

-----------------------------------------------------------------------------
Holding(id, doc, type) == [id |-> id, doc |-> doc, type |-> type]
Nothing == Holding(0, 0, "")

Init ==
    /\ clock = 0
    /\ owner \in Owner /\ cache = <<>>
    /\ past \in [OnDisk(owner) -> {<<[version |-> v, from |-> 0]>> : v \in 0..1}] /\ changes = 0
    /\ pc = [t \in Thread |-> "idle"]
    /\ now = [t \in Thread |-> <<>>]
    /\ todo = [t \in Thread |-> <<>>]
    /\ hold = [t \in Thread |-> Nothing]
    /\ calls = 0 /\ spoiled = {}

Tick ==
    /\ clock < MaxClock /\ clock' = clock + 1
    /\ UNCHANGED <<disk, owner, cache, pc, local, calls>>

\* Somebody writes a new version of a file or removes it.
ChangeFile(f) ==
    /\ changes < MaxChanges /\ changes' = changes + 1
    /\ \E v \in Version :
         /\ v # Current(f) /\ (v # 0 => \A i \in DOMAIN past[f] : past[f][i].version # v)
         /\ past' = [past EXCEPT ![f] = Append(@, [version |-> v, from |-> clock])]
    /\ UNCHANGED <<clock, owner, cache, pc, local, calls>>

\* new CacheEntry(), at an address nobody holds.
InUse == {hold[t].id : t \in Thread} \cup {cache[i].id : i \in DOMAIN cache}
Address == CHOOSE id \in 1..Cardinality(InUse) + 1 : id \notin InUse

\* TemplateCache has no use for the name of the file.
NewEntry(key, doc, created) ==
    [key |-> key, filename |-> FileOf(key), id |-> Address, doc |-> doc, created |-> created,
     cost |-> Bytes(doc)]

BugExpiresLate(e, time) == CacheTimeout = 0 \/ e.created >= time - CacheTimeout
Fresh(e, time) == CacheTimeout = 0 \/ e.created + CacheTimeout > time

Hit(key, time) == Holds(cache, key) /\ Fresh(Entry(cache, key), time)

-----------------------------------------------------------------------------
(* StaticFileController::service() *)

BeginStatic(t, name) ==
    /\ owner = "StaticFileController" /\ pc[t] = "idle" /\ calls < MaxCalls
    /\ calls' = calls + 1
    /\ todo' = [todo EXCEPT ![t] = <<name>>]
    /\ now' = [now EXCEPT ![t] = <<clock>>]
    /\ pc' = [pc EXCEPT ![t] = "search static"]
    /\ UNCHANGED <<clock, disk, owner, cache, hold, spoiled>>

Return(t) ==
    /\ pc' = [pc EXCEPT ![t] = "idle"]
    /\ now' = [now EXCEPT ![t] = <<>>]
    /\ todo' = [todo EXCEPT ![t] = <<>>]
    /\ hold' = [hold EXCEPT ![t] = Nothing]
    /\ spoiled' = spoiled \ {t}

\* The document is copied while the mutex is held.
BugCopyPointer(e) == Holding(e.id, e.doc, ContentType(e.filename))
CopyDocument(e) == Holding(0, e.doc, ContentType(e.filename))

SearchStatic(t) ==
    /\ pc[t] = "search static"
    /\ cache' = Touch(cache, Head(todo[t]))
    /\ \/ /\ Hit(Head(todo[t]), now[t][1])
          /\ hold' = [hold EXCEPT ![t] = CopyDocument(Entry(cache, Head(todo[t])))]
          /\ pc' = [pc EXCEPT ![t] = "answer static"]
       \/ /\ ~Hit(Head(todo[t]), now[t][1])
          /\ pc' = [pc EXCEPT ![t] = "read static"]
          /\ UNCHANGED hold
    /\ UNCHANGED <<clock, disk, owner, now, todo, calls, spoiled>>

\* The file is read, block by block while there is no error, and what was read is
\* kept for the cache if the file was small.  A file that cannot be opened is
\* answered with 403 or 404, which are not cached.
ReadStatic(t) ==
    /\ pc[t] = "read static"
    /\ LET file == FileOf(Head(todo[t]))
           there == Current(file) # 0
           small == Size[Current(file)] <= MaxCachedFileSize
       IN
         /\ \E doc \in Readings(file) :
              hold' = [hold EXCEPT ![t] = Holding(0, doc, IF there THEN ContentType(file) ELSE "")]
         /\ \/ there /\ small /\ pc' = [pc EXCEPT ![t] = "insert static"]
            \/ ~(there /\ small) /\ pc' = [pc EXCEPT ![t] = "answer static"]
    /\ UNCHANGED <<clock, disk, owner, cache, now, todo, calls, spoiled>>

\* The entry is as old as the beginning of the call, not as the insertion.
BugCreatedAtInsert(t) == clock
CreatedAt(t) == now[t][1]

InsertStatic(t) ==
    /\ pc[t] = "insert static"
    /\ cache' = Insert(cache, NewEntry(Head(todo[t]), hold[t].doc, CreatedAt(t)), MaxCost)
    /\ pc' = [pc EXCEPT ![t] = "answer static"]
    /\ UNCHANGED <<clock, disk, owner, local, calls>>

\* service() returns; the document is in the response.
AnswerStatic(t) ==
    /\ pc[t] = "answer static"
    /\ Return(t)
    /\ UNCHANGED <<clock, disk, owner, cache, calls>>

-----------------------------------------------------------------------------
(* TemplateLoader::getTemplate() over TemplateCache::tryFile() *)

BeginTemplate(t, base, locs) ==
    /\ owner = "TemplateCache" /\ pc[t] = "idle" /\ calls < MaxCalls
    /\ calls' = calls + 1
    /\ todo' = [todo EXCEPT ![t] = Candidates(base, locs)]
    /\ now' = [now EXCEPT ![t] = <<>>]
    /\ pc' = [pc EXCEPT ![t] = "try"]
    /\ UNCHANGED <<clock, disk, owner, cache, hold, spoiled>>

\* The number of names tried is the number of times tryFile() has taken.
Tried(t) == Len(now[t])

TryFile(t) ==
    /\ pc[t] = "try"
    /\ now' = [now EXCEPT ![t] = Append(@, clock)]
    /\ pc' = [pc EXCEPT ![t] = "search template"]
    /\ UNCHANGED <<clock, disk, owner, cache, todo, hold, calls, spoiled>>

\* All under the mutex; a missing file, or one that cannot be opened, is
\* remembered as an empty document.
SearchTemplate(t) ==
    LET key == todo[t][Tried(t)]
        time == now[t][Tried(t)]
    IN  /\ pc[t] = "search template"
        /\ \/ /\ Hit(key, time)
              /\ cache' = Touch(cache, key)
              /\ hold' = [hold EXCEPT ![t] = Holding(Entry(cache, key).id, Entry(cache, key).doc, "")]
           \/ /\ ~Hit(key, time)
              /\ \E doc \in Readings(key) :
                   /\ cache' = Insert(Touch(cache, key), NewEntry(key, doc, time), MaxCost)
                   /\ hold' = [hold EXCEPT ![t] = Holding(Address, doc, "")]
        /\ pc' = [pc EXCEPT ![t] = "return document"]
        /\ UNCHANGED <<clock, disk, owner, now, todo, calls, spoiled>>

\* return entry->document, after the mutex is released: what is read from an
\* entry that has been deleted meanwhile may be anything.
Deleted(t) == hold[t].id # 0 /\ \A i \in DOMAIN cache : cache[i].id # hold[t].id

\* An empty document is as good as none: getTemplate() tries the next name.
ReturnDocument(t) ==
    /\ pc[t] = "return document"
    /\ \/ /\ Bytes(hold[t].doc) # 0 \/ Tried(t) = Len(todo[t]) \/ Deleted(t)
          /\ Return(t)
       \/ /\ Bytes(hold[t].doc) = 0 \/ Deleted(t)
          /\ Tried(t) < Len(todo[t])
          /\ pc' = [pc EXCEPT ![t] = "try"]
          /\ hold' = [hold EXCEPT ![t] = Nothing]
          /\ spoiled' = IF Deleted(t) \/ hold[t].doc \in Torn THEN spoiled \cup {t} ELSE spoiled
          /\ UNCHANGED <<now, todo>>
    /\ UNCHANGED <<clock, disk, owner, cache, calls>>

Next ==
    \/ Tick
    \/ \E f \in DOMAIN past : ChangeFile(f)
    \/ \E t \in Thread :
         \/ \E b \in StaticName : BeginStatic(t, Plain(b))
         \/ \E b \in TemplateName, l \in Locales : BeginTemplate(t, b, l)
         \/ SearchStatic(t) \/ ReadStatic(t) \/ InsertStatic(t) \/ AnswerStatic(t)
         \/ TryFile(t) \/ SearchTemplate(t) \/ ReturnDocument(t)

Spec == Init /\ [][Next]_vars

-----------------------------------------------------------------------------
Static == {"idle", "search static", "read static", "insert static", "answer static"}
Template == {"idle", "try", "search template", "return document"}

Words(locs) == {locs[i][1] : i \in DOMAIN locs} \cup {locs[i][2] : i \in DOMAIN locs}
Word == {"", "index.html"} \cup UNION {Words(l) : l \in Locales}
Name == [base : StaticName \cup TemplateName, lang : Word, country : Word]
CacheEntry == [key : Name, filename : Name, id : Nat \ {0}, doc : Document, created : 0..MaxClock, cost : Nat]

\* Every variable has its type; a cache holds one entry per key and costs no more
\* than cacheSize.
TypeOK ==
    /\ clock \in 0..MaxClock /\ calls \in 0..MaxCalls /\ changes \in 0..MaxChanges
    /\ owner \in Owner
    /\ past \in [OnDisk(owner) -> Seq([version : Version, from : 0..MaxClock])]
    /\ \A f \in DOMAIN past : Len(past[f]) \in 1..changes + 1
    /\ cache \in Seq(CacheEntry) /\ TotalCost(cache) <= MaxCost
    /\ \A i, j \in DOMAIN cache : cache[i].key = cache[j].key \/ cache[i].id = cache[j].id => i = j
    /\ pc \in [Thread -> IF owner = "StaticFileController" THEN Static ELSE Template]
    /\ now \in [Thread -> Seq(0..MaxClock)] /\ todo \in [Thread -> Seq(Name)]
    /\ hold \in [Thread -> [id : Nat, doc : Document, type : Types]]
    /\ spoiled \subseteq Thread

(***************************************************************************)
(* EntriesHonest: the document of a cache entry was that of its file at    *)
(* the time of creation or after it, however long the thread took to read  *)
(* and to insert, and whoever replaced the entry meanwhile.  A document    *)
(* that was torn when it was read is left out: it is cached like a whole   *)
(* one (staticfilecontroller.cpp:86-95, templateloader.cpp:52-54).         *)
(***************************************************************************)
EntriesHonest ==
    \A i \in DOMAIN cache :
        ThereAfter(FileOf(cache[i].key), VersionsOf(cache[i].doc), cache[i].created - 1)

(***************************************************************************)
(* AnswersFresh: a caller gets a version that was in the file less than    *)
(* cacheTime ago, and a template for a less preferred locale only if the   *)
(* files for the preferred ones were missing or empty less than cacheTime  *)
(* ago (the expiry in both caches, and the empty documents that remember   *)
(* missing files), and a static file the type of the file that was         *)
(* opened, index.html for a directory, also from the cache.  Left out are  *)
(* a torn document and a call that has gone on after a torn document or    *)
(* one of a deleted entry.                                                 *)
(***************************************************************************)
FreshUpTo(t, n) ==
    \A i \in 1..n :
        ThereAfter(FileOf(todo[t][i]),
                   IF i = Len(now[t]) THEN VersionsOf(hold[t].doc) ELSE Empty,
                   now[t][i] - CacheTimeout)

AnswersFresh ==
    CacheTimeout > 0 =>
        \A t \in Thread :
            pc[t] \in {"answer static", "return document"} /\ t \notin spoiled =>
                /\ FreshUpTo(t, Tried(t))
                /\ pc[t] = "answer static" /\ hold[t].doc # 0 =>
                       hold[t].type = ContentType(FileOf(Head(todo[t])))

\* StaticFilesCopied: StaticFileController never uses an entry that another
\* thread's insert() may have deleted ("copy the cached document, because other
\* threads may destroy the cached entry", staticfilecontroller.cpp:49).
StaticFilesCopied == \A t \in Thread : pc[t] = "answer static" => ~Deleted(t)

\* TemplatesCopied: the same of TemplateCache::tryFile(), whose mutex is "used to
\* synchronize threads" (templatecache.h:83).
TemplatesCopied == \A t \in Thread : pc[t] = "return document" => ~Deleted(t)

-----------------------------------------------------------------------------
(***************************************************************************)
(* The inductive invariant behind the safety properties: FileCache_proofs  *)
(* proves it for any number of threads, files, changes and calls.          *)
(***************************************************************************)
EntriesOK ==
    \A i \in DOMAIN cache :
        /\ cache[i].created <= clock
        /\ FileOf(cache[i].key) \in DOMAIN past /\ cache[i].filename = FileOf(cache[i].key)

\* What a thread holds while it does what.
CallOK(t) ==
    /\ \A i \in DOMAIN todo[t] : FileOf(todo[t][i]) \in DOMAIN past
    /\ \A i \in DOMAIN now[t] : now[t][i] <= clock
    /\ pc[t] \in {"idle", "search static", "read static", "try", "search template"} => hold[t] = Nothing
    /\ pc[t] \in Static => hold[t].id = 0 /\ t \notin spoiled
    /\ pc[t] = "idle" => now[t] = <<>> /\ todo[t] = <<>>
    /\ pc[t] \in Static \ {"idle"} => Len(now[t]) = 1 /\ Len(todo[t]) = 1
    /\ pc[t] = "try" => Len(now[t]) < Len(todo[t])
    /\ pc[t] \in {"search template", "return document"} => Len(now[t]) \in 1..Len(todo[t])

\* The file still has, or had in the course of the call, what is put in the cache.
InsertOK(t) ==
    pc[t] = "insert static" =>
        /\ hold[t].type = ContentType(FileOf(todo[t][1]))
        /\ ThereAfter(FileOf(todo[t][1]), VersionsOf(hold[t].doc), now[t][1] - 1)

\* The files of the names that were tried before were missing or empty.
MissesOK(t) ==
    CacheTimeout > 0 /\ t \notin spoiled /\ pc[t] \in {"try", "search template", "return document"} =>
        \A i \in DOMAIN now[t] :
            i < Len(now[t]) \/ pc[t] = "try" => ThereAfter(FileOf(todo[t][i]), Empty, now[t][i] - CacheTimeout)

\* The answer is fresh.
AnswerOK(t) ==
    CacheTimeout > 0 /\ t \notin spoiled /\ pc[t] \in {"answer static", "return document"} =>
        /\ ThereAfter(FileOf(todo[t][Len(now[t])]), VersionsOf(hold[t].doc),
                      now[t][Len(now[t])] - CacheTimeout)
        /\ pc[t] = "answer static" /\ hold[t].doc # 0 => hold[t].type = ContentType(FileOf(todo[t][1]))

IndInv ==
    /\ TypeOK /\ EntriesOK /\ EntriesHonest
    /\ \A t \in Thread : CallOK(t) /\ InsertOK(t) /\ MissesOK(t) /\ AnswerOK(t)
=============================================================================
