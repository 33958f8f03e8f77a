# TLA+ models of MposOnlineReports

MposOnlineReports is a Qt web server that shows the owners of petrol stations
the shifts and sales of their objects. It is an application
(`src/MposReportsServer`) on top of an embedded HTTP server
(`src/QtWebApp`). This directory holds TLA+ models of the parts where threads,
events, timers, limits and formats meet, TLC configurations that check them, and
TLAPS proofs about the core.

| read this | for |
|---|---|
| [1 Inventory](#1-inventory) | the parts of the system, their state, and what makes them correct |
| [2 The modules](#2-the-modules) | which module models what, and what it abstracts |
| [3 The runs](#3-the-runs) | what TLC checks, on which instance, and what it shows |
| [4 Fairness](#4-fairness) | what the liveness properties assume and why |
| [5 What the code does differently from its documentation](#5-what-the-code-does-differently-from-its-documentation) | the disagreements that runs show, and others |
| [6 The proofs](#6-the-proofs) | what is proved for every instance |
| [7 Not modelled](#7-not-modelled) | and why |
| [8 Plan](#8-plan) | what is done and what is left |

Commands, in this directory:

    tlc -workers 2 -config MCHttpListener.cfg MCHttpListener
    tlapm HttpListener_proofs.tla
    tlapm HttpSessionStore_proofs.tla
    tlapm FileLogger_proofs.tla
    tlapm QCache_proofs.tla
    tlapm FileCache_proofs.tla
    tlapm RequestMapper_proofs.tla
    tlapm HttpExchange_proofs.tla
    tlapm HttpRequest_proofs.tla

`PROJECT.json` lists every run, the source lines behind every definition, the
hazards of the code and the properties that cover them.

## 1 Inventory

### How the parts interact

`main()` reads an ini file, creates the `FileLogger`, `TemplateCache`,
`HttpSessionStore` and `StaticFileController` (global pointers in `global.h`),
then the one `RequestMapper` and the `HttpListener`. From there on:

* **The main thread** runs `HttpListener::incomingConnection()`, the pool's
  `cleanup()` timer, the session store's `sessionTimerEvent()` and the
  logger's `timerEvent()`. They are events of one event loop: they do not
  interleave with each other, only with the handlers.
* **Every `HttpConnectionHandler` has a thread** with its own event loop, socket
  and read timer. Its slot `read()` feeds the socket's bytes to an `HttpRequest`
  until that is complete, and calls `RequestMapper::service()` synchronously with
  it and a new `HttpResponse`.
* Main thread -> handler: `setBusy()` (a plain flag, set directly), then
  `handleConnection` as a queued event; in the destructor `quit()` and `wait()`.
* Handler -> main thread: nothing but the flag `busy`, reset in
  `disconnected()` and read by `isBusy()`.
* Handlers among each other: they share the `RequestMapper` and its pages, the
  session store, the two caches and the logger.

### Components

**HttpListener, HttpConnectionHandlerPool** (`httplistener.cpp`,
`httpconnectionhandlerpool.cpp`). *State*: the server socket, the list `pool`,
the cleanup timer. *Operations*: `listen()`, `close()`, `incomingConnection()`,
`getConnectionHandler()`, `cleanup()`. *Hard*: `busy` is read and written by two
threads; a handler chosen as idle may still be deep in a slot; `cleanup()` and
`close()` delete objects whose threads are running. *Correct when*: an accepted
connection goes to a handler that has none; the pool stays within `maxThreads`;
`cleanup()` spares every handler with a connection and keeps `minThreads` idle
ones; `close()` returns and leaves neither thread nor open connection; a
connection is refused only at `maxThreads` connections.

**HttpConnectionHandler** (`httpconnectionhandler.cpp`). *State*: thread,
socket, `busy`, `currentRequest`, read timer, posted events. *Operations*: the
slots `handleConnection()`, `read()`, `readTimeout()`, `disconnected()`,
`thread_done()`, and the destructor. *Hard*: `disconnected()` can run nested in
another slot (inside a write, a wait for the output, or a disconnect), so a
handler can be free, and be given its next connection, while `service()` for the
previous one has not returned; then `read()` goes on and restarts the timer of a
free handler. Clients write the next request before they have read an answer.
*Correct when*: a request never has bytes of two clients, a handler waiting for
input has its timer running, every handler becomes free again, and no request
that has arrived is forgotten in a buffer.

**HttpRequest** (`httprequest.cpp`). *State*: `status`, `currentSize`, the maps of
headers and parameters, the boundary and the temporary file of a multipart body.
*Operations*: `readFromSocket()` and the functions per status,
`decodeRequestParams()`, `extractCookies()`, `parseMultiPartFile()`, the
destructor. *Hard*: a line, a body or a multipart section that comes in several
segments; three size limits compared in different ways; temporary files to be
deleted. *Correct when*: `service()` gets the request as it was sent, the size
alone decides what is refused, and the temporary files of a request end with it.

**HttpResponse** (`httpresponse.cpp`). *State*: headers, `sentHeaders`,
`sentLastPart`, `chunkedMode`. *Operations*: `write()`, `setHeader()`,
`redirect()`. *Hard*: the first `write()` decides how the body is delimited, and
the handler decides from the headers whether the connection stays open. *Correct
when*: a client can tell where each response ends.

**HttpCookie** (`httpcookie.cpp`). Formatting and parsing of cookies, and the
function that splits header lines, with their quotes and delimiters. *Correct
when*: what the browser sends back is what was set.

**HttpSessionStore** (`httpsessionstore.cpp`). *State*: the map of sessions, a
mutex, the one-minute timer. *Operations*: `getSessionId()`, `getSession()` (by
request and response, and by id), `removeSession()`, `sessionTimerEvent()`.
*Hard*: `getSession()` takes the mutex twice and works with what it found the
first time; the time of access is set after the mutex is released. *Correct
when*: the calls of one request agree on the session, a session expires only
when unused.

**HttpSession** (`httpsession.cpp`). *State*: a counted reference to
`HttpSessionData` (id, time of access, values, lock). *Operations*: constructors,
copy, assignment, destructor, `get`/`set`/`remove`, `setLastAccess()`. *Hard*:
copies in several threads share the counter; the deletion follows after the lock
is released. *Correct when*: the counter is the number of handles, the last
handle and no other deletes the data.

**RequestMapper** (`requestmapper.cpp`). *State*: the member `userID`, the pages.
*Operations*: `service()`, `getUserID()`. *Hard*: one object, called by all
handler threads, that keeps the user of a request in a member. *Correct when*:
the answer to a login is the page of that user.

**ObjectsList, ShiftsList, ShiftReports** (`objectslist.cpp`, `shiftslist.cpp`,
`shiftreports.cpp`). *State*: ids, models, template data, a database connection
`azs<id>` per object, all in members or registered globally, all kept from one
request to the next. *Operations*: `service()`, `createModels()`,
`openObjectDB()`, and the tables of the report. *Hard*: early returns leave the
state of an earlier request; the report uses the connection which the list of
shifts has registered; sums are added up by column numbers that depend on the pay
types of the shift. *Correct when*: the parts of a page belong together and to
what was asked for, and the tables of a report agree.

**StaticFileController, TemplateLoader, TemplateCache** (`staticfilecontroller.cpp`,
`templateloader.cpp`, `templatecache.cpp`). *State*: the document root, a `QCache`
with a mutex. *Hard*: entries used after the mutex is released, eviction, two
threads missing at once, files that change. *Correct when*: an answer is the
contents of the right file, not older than the cache time, and no deleted entry
is read.

**Template** (`template.cpp`). A text transformation: variables, conditions,
loops, each applied in place to the text the earlier calls have left. *Correct
when*: the order of the calls does not matter and the result is what the
documentation says.

**Logger, FileLogger, LogMessage, DualFileLogger.** *State*: per-thread buffers
and variables, a mutex, two static mutexes of the message handler, the file, the
backup counter, two timers. *Hard*: messages logged while logging; rotation in
several steps; the file pointer tested before the mutex is taken. *Correct
when*: messages in order, errors never lost, never more than `maxBackups`
backups.

**HttpRequestHandler, main(), TLS configuration, MposOnlineAdmin, qtservice.** An
interface, sequential start-up, a one-time configuration, an empty window, and a
vendored library that `MposReportsServer.pro` does not compile.

## 2 The modules

    threads and connections
      ConnectionHandler <- HttpListener <- MCHttpListener
                              |     ^
          Admission <---------+     HttpListener_proofs
          (INSTANCE, refinement mapping Phase)

    bytes of a connection
      HttpRequest, HttpResponse <- HttpExchange <- MCHttpExchange
                                        ^
                                        HttpExchange_proofs, HttpRequest_proofs
                                        (both extend QCache_proofs too)

    sessions
      HttpSession <- HttpSessionStore <- MCHttpSessionStore
                          ^
                          HttpSessionStore_proofs

    application
      RequestMapper <- MCRequestMapper
                  ^
                  RequestMapper_proofs

    caches
      QCache <- FileCache <- MCFileCache
           ^            ^
           QCache_proofs, FileCache_proofs

    logging
      Logger <- FileLogger <- MCFileLogger
                         ^
                         FileLogger_proofs

    texts
      Template <- Page ----------+
      HttpCookie <- Parameters --+-- WebText <- MCWebText
      LogMessage, ReportTables --+

(`A <- B`: B extends A.)

### ConnectionHandler and HttpListener

`ConnectionHandler` has the steps of a handler's thread and of the clients;
`HttpListener` adds those of the main thread and is the composition.

| code | model |
|---|---|
| event loop, or a slot on the stack | `pc`: `loop`, `service`, `flush` (waiting for the output buffer before closing), `ended`; `expired` says that `readTimeout()` is on the stack |
| `busy`, posted events, socket, `readTimer` | `busy`, `inbox`, `sock`, `timer` |
| `currentRequest` | `request`: the connections whose bytes it has collected |
| the QList of handlers | `pool`, in the same order |
| the destructors in progress | `doomed`: the handlers still to be deleted; the main thread does nothing else meanwhile |
| the TCP connection | `status`, `unread`, `sent`, `hungup` |
| `handleConnection()`, `disconnected()`, `thread_done()` | `HandleConnection`, `Disconnected`/`PeerGone`, `ThreadDone` |
| `read()` | `Read` (up to a decision), `Respond` (`service()` has returned), `Flushed` |
| `readTimeout()` | `ReadTimeout`, `ReadTimeoutFlushed` |
| `incomingConnection()` + `getConnectionHandler()` | `IncomingConnection` = `AssignIdle`, `AssignNew` or `Refuse` |
| `cleanup()`, `close()`, `listen()`, the destructor | `Cleanup`, `Close`, `Listen`, `DestroyHandler` |

*Steps.* An action runs to the next point where another thread or the client can
tell the difference: the call of `service()`, a wait for the output, the return
to the event loop. `PeerGone` is enabled in all of these, since the socket emits
`disconnected` in the middle of a slot as well as in the event loop.

*Abstractions.* A request is a few pieces; what a piece completes (header still
incomplete, body incomplete, request complete, request too large) is chosen
nondeterministically when it is read, so every verdict of `HttpRequest` is
covered; `HttpExchange` computes it. The destructor of a handler leaves `request` as it
is: it does not delete `currentRequest`, and the object at that address is as good as
new only when the pool has constructed another handler there. A `QTcpServer` that fails to bind is left out
(`listen()` only logs it). TLS is left out: it replaces the socket class and has no
state of its own here. `Unusable` is the set of descriptors that
`setSocketDescriptor()` refuses.

### Admission

The listener seen by the clients: up to `Capacity` connections at a time, refusal
only at `Capacity`, every admitted connection ends. `HttpListener!Phase` maps the
detailed state to it; `Handler`, `pool`, events and timers disappear.

### HttpRequest, HttpResponse, HttpExchange

`HttpRequest` and `HttpResponse` are records with one operator per method, which
returns the record the method leaves behind. `HttpExchange` is one connection: the
client's stream, the socket, the slots of the handler, `service()`.

| code | model |
|---|---|
| `readFromSocket()`, called with what the socket holds | `ReadFromSocket(r, data)`, and `BytesRead(r, data)`: what it takes out of the socket |
| `readRequest()`, `readHeader()`, `readBody()`, `parseMultiPartFile()` | `ParseRequestLine`, `ParseHeader`/`HeadersCompleted`, `ReadBody`/`ReadMultiPartBody`, `ParseMultiPartFile` |
| `write()`, `writeHeaders()`, `setHeader()` | `Write`, `WriteHeaders`, `SetHeader` |
| the data that `readyRead` announces | `arrived` -> `buffer`: signals in the event loop and in `readTimeout()`'s wait; no signal in the waits of `read()` itself (`FetchWhileWriting`) |
| the loops of `read()` | `CallReadFromSocket`, `ReadReturns`, `Refuse`, `Dispatch`, `ServiceReturns`, `Flushed` |
| `service()` | `ServiceSetsHeader`, `ServiceWrites`, in any order the comments of `httpresponse.h` allow; it may stop after any of them |
| what a client writes | `Encode`, `StreamFrom`; `WellFormed` says what may be expected of it |
| what a client makes of the bytes it gets | `ClientView`: an HTTP/1.1 reader |

*Abstractions.* CR, LF and body bytes are single bytes; the text of a line is one
byte that carries its meaning, so a line has three bytes and can be cut between
them. A line of a multipart file is one byte. The first line of a request may be
broken; of its headers it is expected that they tell the truth about the body
(`WellFormed`), since nothing can be said of a request whose end is not where it says:
its length, whether it is a form, and a form whose sections are separated and ended by
its boundary, with a line at least in each file. `orphans` is a history variable: the
requests that are gone and left temporary files behind. The connection's life across
several clients is the matter of `ConnectionHandler`.

### HttpSession and HttpSessionStore

`HttpSession` gives one operator per constructor, assignment and destructor, each
one step because it holds the lock of the data; the deletion of the data is a
step of its own, as in the code. `HttpSessionStore` adds the mutex, the worker's
calls and the timer event:

| code | model |
|---|---|
| `sessions`, `mutex` | `sessions` (its keys), `mutex` |
| a call of `getSession(request, response)` | `GetSessionId`, `GetSession` (found again, created, or null if creation is not allowed), `Touch` |
| `getSession(id)` | `GetSessionById`, `Touch` |
| `HttpSession` objects on the stack | `handles`, a stack per worker |
| `delete dataPtr` to be done by this thread | `toDelete` |
| `sessionTimerEvent()` | `TimerBegin`, `TimerVisit`, `TimerErase`, `TimerDrop`, `TimerEnd` |
| cookies | `jar` (client), `reqCookie`, `respCookie` |

`getSession()` holds the mutex only within one action, so it appears as a guard
(`mutex = None`); the timer event holds it over several. `returned` is a history
variable for one property. Ids are UUIDs and are never used twice; time is a
bounded clock.

### RequestMapper

The application: `service()`, `getUserID()` and the three pages. All members are
shared by the threads, `session` is per client, `row`, `opened` and `page` are a
thread's own. Every step reads or writes shared state once, so the model has
every interleaving of the threads. `disturbed` and `mixed` are history variables: the
threads whose request was served while another one used the members of the same page,
and whether two lists of shifts have ever been made at once. **Ids stand for the data found with them**: the
result of a query is the id that was bound to it, and a property compares ids to
say that two parts of a page belong together.

A query or `open()` of an object's database fails or succeeds
nondeterministically (the object may be offline; a `QSqlDatabase` refuses a
connection that another thread created). If that happens before the page's model
was created, the page uses an uninitialised pointer: `Crash` ends the run.
`ReportModels` stands for all queries of a report; what is made of their rows is in
`ReportTables`.

### QCache and FileCache

`QCache` is the container both caches are made of, as far as they use it: a
sequence of entries, the most recently used first, that owns them. `FileCache` is
`StaticFileController::service()` and `TemplateLoader::getTemplate()` over
`TemplateCache::tryFile()`, for threads that share a cache while files change.

| code | model |
|---|---|
| a file over time | `past`: its versions with their times; 0 is no file |
| the entry's address | `id`: free addresses are reused, as by `new` |
| `service()` of static files | `BeginStatic`, `SearchStatic`, `ReadStatic`, `InsertStatic`, `AnswerStatic` |
| `getTemplate()`, `tryFile()` | `BeginTemplate` (the names of `Candidates`), `TryFile` (reads the clock), `SearchTemplate` (under the mutex), `ReturnDocument` (after it) |
| memory of a deleted entry | anything: `ReturnDocument` may go on either way |

*Abstractions.* The mutex is not a variable: each section between `lock()` and
`unlock()` is one step. A document is the version of a file, or what a read that failed
or met a change of the file has yielded (`Torn`: any document of one of `TornSizes`),
which the code cannot tell from a whole one. A template is missing if its document is
empty, as `getTemplate()` has it. The text codec and the check for `/..` are left out.

### Logger and FileLogger

`Logger` has the message handler and the ring buffers, `FileLogger` adds where the
messages are printed, the timers of the main thread, and the end of the program.

| code | model |
|---|---|
| a thread on its way through `msgHandler()` | `pc`, `current` |
| `recursiveMutex`, `nonRecursiveMutex`, `Logger::mutex` | `recursive`, `nonRecursive`, `mutex`: their owners |
| `msgHandler()` | `Call`, `Enter` (with `TryLock`), `Return` (which aborts after a fatal message) |
| `log()` | `Log` = `LogBuffered` or `LogDirectly`, then the prints of `queue` |
| `clear()` | `Clear` |
| `FileLogger::write()` | `WriteToFile`, or `WriteFails`, `WarnOnStderr` and `WriteToStderr` |
| `refreshSettings()`, with `close()` and `open()` | `Refresh`, `SwitchTo` |
| `timerEvent()` | `FlushTimer` (tests the pointer), then `FlushFile`, or `FlushNull` if the pointer is null by now |
| `rotate()` | `RemoveBackup`, `ShiftBackup`, `BackupFile`, then `Reopen` |
| the bytes in the `QFile`, the files on disk | `pending`, `files` |
| the constructor; the program is killed | `Start`; `Kill` |

*Abstractions.* A message is the number of its call, the contents of a file are a
sequence of messages and its size is their number. To open a file, to write a
message, to remove and to rename a file succeed or fail nondeterministically; only
the flush of the timer always works. Every rename and every removal is a step, so
that the program can be killed between any two. `FlushNull` and `abort()` end the
program. Left out: `maxBackups` 0 (unlimited). `dropped`, `gone` and `errors` are
history variables: they say where a message went that is not in a file.

### The texts

Pure functions, each against a reference. `Template` has `setVariable()`,
`setCondition()` and `loop()` on token sequences; `Page` says what `template.h`
describes, as a semantics of nested elements, without any text. `HttpCookie` has
`toByteArray()`, the parsing constructor, `splitCSV()` and `extractCookies()`, and a
browser's jar; `Parameters` has `decodeRequestParams()` and `urlDecode()`, and a
browser's encoding. `LogMessage` has `toString()` and the thread's variables.
`ReportTables` has the queries and the tables of `ShiftReports`: sums by fuel and pay
type, receipts, books and measures of the tanks, sales with their kilograms.
`WebText` puts them in the order in which they happen: template calls in any order
the loops permit, cookies set one after the other, a form split between path and
body, variables changed between a message and its print.

A template may lack an end tag (`Unclosed`), a call of `setCondition()` then hangs. The
browser forgets a cookie that comes with `Max-Age=0`.

*Abstractions.* A name or a piece of text is a token; the characters that mean
something (`=`, `;`, `"`, space, `&`, `%`, `+`) are themselves. Money, litres and
kilograms are integers in hundredths. The order of rows that a query does not fix is
an arbitrary one.

### Operators named `Bug...`

Next to some operators stands a variant that makes a plausible mistake (a flag
that is not set, a test that is off by one, a timer not restarted). No
specification uses them. Substituted for the operator below them, they make TLC
report the property listed with them in `PROJECT.json` under `mutants`: evidence
that the property depends on that line of the code.

## 3 The runs

"pass" runs finish with no error; the four marked x find a disagreement of section 5.

| run | configuration | instance | distinct states | shows |
|---|---|---|---|---|
| `listener` | `MCHttpListener` | 3 connections, 1 of them with an unusable descriptor, 3 handlers, threads 1..2, 2 pieces, 1 close | 880,083 | the safety of pool and handlers |
| `listener_live` | `MCHttpListenerLive` | 3 connections, 2 handlers, threads 0..1, 1 close | 148,371 | liveness, and the refinement of `Admission` |
| `handler_leak` x | `MCHandlerLeak` | as `listener` | | a handler lost by a refused descriptor |
| `exchange` | `MCHttpExchange` | 15 streams of up to 3 requests, cut anywhere, limits of 14 and 15 bytes | 681,570 | requests, limits, responses, uploads |
| `sessions` | `MCHttpSessionStore` | 2 workers, 2 sessions, 1 client, clock to 2, expiry after 1 | 1,095,401 | the session properties |
| `pages` | `MCRequestMapper` | 2 threads, clients, users, objects and shifts, 4 requests | 823,737 | a page that is alone with its members shows what was asked for |
| `thread_safety` x | `MCThreadSafety` | 2 threads, 2 requests | | two logins at once |
| `files` | `MCFileCache` | 2 threads, 2 static files or a template with a locale, 3 calls, 1 change, clock to 2 | 2,845,314 | freshness and ownership of cached files |
| `template_cache` x | `MCTemplateCache` | 2 threads, 1 template | | an entry used after its deletion |
| `logger` | `MCFileLogger` | a worker and the main thread, 3 messages, 2 settings, 2 backups, 2 runs of the program | 453,204 | order and survival of messages, backups, rotation |
| `logger_deadlock` x | `MCLoggerDeadlock` | 1 setting, 2 backups | | the logger waits for itself |
| `text` | `MCWebText` | 8 templates, 4 cookies, forms of 2 fields, 7 log lines, 2,916 shifts | 7,490 | texts and tables as documented |

Nine more configurations are not among the runs of `PROJECT.json`. Each checks one
property that takes the documentation at its word, finds it violated, and shows in a
short behaviour an exception that the runs' properties state:

| configuration | module | violated | exception of |
|---|---|---|---|
| `MCCloseDrops` | `MCHttpListener` | `CloseServesPending` | `CloseLeavesNothing` |
| `MCUploadLimit` | `MCHttpExchange` | `LimitsAsDocumented` | `VerdictBySize` |
| `MCUploadLeak` | `MCHttpExchange` | `NoFileLeft` | `UploadsDeleted` |
| `MCReportsMixed` | `MCRequestMapper` | `ThreadSafeReports` | `ReportOfCaller` |
| `MCTemplateTooLarge` | `MCFileCache` | `TemplatesCopied` | (`template_cache`, by one thread alone) |
| `MCTemplateHang` | `MCWebText` | `CallsReturn` | `RenderedAsDocumented` |
| `MCCookieDiscard` | `MCWebText` | `CookiesDiscarded` | `CookiesComeBack` |
| `MCCookieSecure` | `MCWebText` | `SecureParsed` | `CookiesComeBack` |
| `MCThreadName` | `MCWebText` | `ThreadNamed` | `LinesDecorated` |

**listener.** `OneConnectionPerHandler`: no handler has two connections and no
connection two handlers; the assertion at `httpconnectionhandler.cpp:84` relies on
it. `ReaderIsTimed`: a handler waiting for input has its timer running, although
`read()` and `readTimeout()` start and stop it on paths that a disconnect can cut
short. `RequestOfOneClient`: a half-read request never continues with the next
client's bytes. `CleanupSparesConnections`, `CleanupKeepsMinimum`: `cleanup()`
deletes only handlers without a connection and keeps `minThreads` idle.
`CloseLeavesNothing`: when `close()` has returned there is no handler, no thread and
no connection left (what became of the requests is the matter of `MCCloseDrops`).
`TypeOK` includes the bound `maxThreads`.

**listener_live.** `HandlersComeFree`: a busy handler becomes free again.
`PoolShrinks`: in the end at most `minThreads` handlers are idle. `CloseReturns`:
the chain of destructors comes to an end. `AdmissionSpec`: the refinement, with its
liveness. The instance has no unusable descriptor: with one a handler is lost
(section 5) and a connection could be refused below `maxThreads`.

**exchange.** The client writes its requests without waiting, cut at any byte, and
may hang up; `service()` sets headers and writes as the rules of `HttpResponse`
allow. `RequestsAsSent`: `service()` gets the requests in order, each with its own
line, headers, body, fields and files. `VerdictBySize`: whether a request is refused
depends on its size and first line only, with every limit met exactly and exceeded
by one. Two bytes are left to the code, since it and its documentation disagree about
one of them: a body of just `maxMultiPartSize` bytes (`MCUploadLimit`), and the head of
an upload with one byte more than `maxRequestSize`. `ResponsesFramed`: a client that reads responses by their headers gets the
bodies `service()` wrote, and on a connection that stays open it is never left
waiting for the end of one. `UploadsDeleted`: of the temporary files of a request none
outlive it but those that a later file of the same field has replaced; the streams
contain such a form (`MCUploadLeak`). `NobodyWaits`: back in the event loop, no complete request is left
unanswered in a buffer, for which no signal would come any more.

**sessions.** `RefCountIsExact`, `NoUseAfterDelete`, `NoLeak`: the counter is the
number of handles at every interleaving, and the last handle deletes the data,
once. `OneSessionPerRequest`: the page called by `service()` gets the session that
`service()` got, unless it was erased in between; this needs the priority of the
response's cookie. `ExpiresWhenUnused`: the timer erases a session only if it was
not returned for `expirationTime`, or was returned while the event was running.
That exception is the code's behaviour: the time of access is set outside the
mutex. Deadlock is checked: a path of `getSession()` that forgets `unlock()` would be
found by `TypeOK`, which has the mutex held by the timer or nobody.

**pages.** For every sequence of four requests of two clients, served by two threads in
any interleaving, and every failure of a database: `ObjectsOfCaller`,
`ShiftsOfCaller`, `ReportOfCaller` (the parts of a page belong together, and to the
user, object or shift asked for, if the object's database could be opened). The pages
keep what they show in members, so they require it of requests that were not disturbed:
a login while no other thread makes a list of objects, a list of shifts while no other
thread makes one, a report while no other thread makes a report or a list of shifts
(which replaces the connection and the object of the session). Everything else may
happen meanwhile, and any of it before. `thread_safety` and `MCReportsMixed` drop that
condition, as the documentation does, and are violated. When the database cannot be
opened, the page is made of the previous data: the properties say exactly that much, and
that head and rows are still of one object unless two lists were once made at a time.

**files.** `EntriesHonest`: the document of an entry was the file's at the time of
the entry or later, however long a thread took to read and to insert it.
`AnswersFresh`: an answer is not older than `cacheTime`, a template for a less
preferred locale is used only if the preferred files were missing so recently, and a
static file has the content type of the file that was opened. A document that was read
in part counts as one of any version that was there. `StaticFilesCopied`: a
static file is never taken from an entry that another thread may have deleted.
`TypeOK` includes that a key and an address occur once and `cacheSize`.

**logger.** The worker logs debug messages and errors, the main thread fatal
messages. One setting buffers two messages per thread and names the first file, the
other does not buffer and names the second. `BackupsWithinLimit`: no backup beyond
`maxBackups`, also between the steps of a rotation, after a kill in one, and when
files cannot be renamed or removed: a rotation counts the backups there really are.
`MessagesInOrder`: the backups and the file, read one after the other, have the
messages of a thread in the order in which it logged them. An exception is part of
the property: messages left in a ring buffer when the buffer is disabled are
overtaken by those logged meanwhile, and printed once it is enabled again.
`ErrorsSurvive`: when the call that logged an error has returned, the error and what
the thread had buffered before it are in a file, or were printed to stderr, or were
lost in a failed write or with a removed backup; a kill does not lose them.
`FileIsRotated`: a file that reaches `maxSize` is rotated or closed, except where the
logger warns while it holds its own mutex (section 5). `TypeOK` includes the bound on
the ring buffers.

**text.** `RenderedAsDocumented`: whatever order the calls are made in, the page is
what `template.h` describes, unless a call hangs, which only the call for a condition or
a loop without its end tag does (`MCTemplateHang`); a value that contains the tag of its
own variable is not expanded. `CookiesComeBack`: the
application reads the values it set last, in whatever order the browser sends them, and
those last set with a `maxAge` are all there; a parsed cookie is the one that was
written, but for its two flags. (What a `maxAge` of 0 and `Secure` do: `MCCookieDiscard`,
`MCCookieSecure`.) `ParametersComeBack`: the parameters are the
fields of the form with all their special characters, whether they came in the path
or in the body. `LinesDecorated`: a log line has the variables of its thread at the
time of the call, and nothing else; it is the documented one, in every order of the hash
table, if no value but the message names a variable that is filled in after it. The
instance has lines of both kinds: a value that names its own variable, one that was
filled in before it, another one of the thread in both directions, and a later one.
(What `{thread}` does: `MCThreadName`.) `ReportAddsUp`: a fuel's cell, the sums below the cells and the
table of the pay type agree with each other and with the sales, if the tanks of a
fuel have one colour; kilograms agree with the tanks' books; what the tanks cannot
explain is the difference of receipts, sales and measures; colours are the tank's.

**Bounds.** *Connections*: three are one more than `maxThreads`, so they can be
refused, and a handler can serve a second one; *handlers*: three addresses, so that
a deleted handler can be replaced by one at another address as well as at the
same; *pieces*: two, so that a request can be half read when the client goes away,
or a second request can arrive while the first is answered; *closes*: one, after
which `listen()` may make a new pool. *Streams*: a head has 5 to 14 bytes, so the
limits are met by one request and missed by the next; up to three requests, so that
a request follows another that kept or should have closed the connection. *Parts*:
two calls of `write()`, a first and a later one. *Sessions*: two, so that an erased
one can be replaced. *Clock*: with expiry after 1, the times 0..2 separate fresh,
expiring and expired. *Requests*: four, enough to log in, list shifts and open a
report in one session, with a request of another session served by the other thread at
any time; or a list, another whose database fails, and a report. *Cache*: it has room for one entry of cost 1, a new
version costs 2, so that entries are evicted, replaced and refused, or nothing, being
empty; three calls, so
that two threads miss at once and a third call hits. *Messages*: three, so that a
ring buffer of two overflows; `maxSize` 1 rotates after each, which takes the oldest
through both backups. *Runs of the program*: two, so that a rotation interrupted by
a kill is followed by another start. *Shifts*: three tanks of two fuels, three sales
from any tank with any pay type, with and without receipts, with and without two
colours for a fuel. All bounds are constants of the modules. `listener`, `sessions`,
`pages` and `files` use symmetry, which is sound there: they check no liveness.

## 4 Fairness

* `WF(Worker(h))`: the thread of a handler keeps running. It includes that
  `service()` returns and that a client reads its answer or goes away; the wait for
  the output at `httpconnectionhandler.cpp:261` has no timeout, so without that
  assumption a client could hold its handler for ever. It does *not* assume that a
  client sends anything: a silent client is ended by the read timer.
* `WF(Cleanup)`: the cleanup timer fires again and again. `WF(DestroyHandler)`: a
  destructor whose `wait()` has returned goes on.
* Nothing is assumed of the clients, of `incomingConnection()`, `close()` or
  `listen()`.
* `SF(Handler(t))` in the logger: a thread that logs keeps running and gets a mutex
  that is free again and again, as `QMutex` provides. `SF(Timer)`: the flush timer
  fires again and again although other events of the main thread come in between.
  Nothing is assumed of callers, of `Refresh`, `Kill` or `Start`.

Some configurations say `CHECK_DEADLOCK FALSE`: there, a state without a successor
is a server whose clients are all gone and, being closed, is not opened again
(the listener), a connection that is closed (`exchange`), a server that got all its
requests or crashed (`pages`), calls that are used up (`files`), a task that is done
(`text`), or a program that has ended for the last time or whose logger has locked
itself out (the logger).

## 5 What the code does differently from its documentation

Shown by a run:

* `handler_leak`: when `setSocketDescriptor()` fails, `handleConnection()` returns
  with `busy` set, no connection and no timer (`httpconnectionhandler.cpp:95`).
  Nothing resets the flag, so the handler is lost until `close()`. `isBusy()` is
  documented as "Returns true, if this handler is in use"
  (`httpconnectionhandler.h:67`): `BusyMeansInUse` is violated.
* `thread_safety`: `service()` must be thread safe (`httprequesthandler.h:45`), but
  keeps the user of a login in a member. With two logins at once `ThreadSafeObjects` is
  violated: a login is answered with the objects of the user who logs in a moment later.
* `logger_deadlock`: recursive calls of `msgHandler()` are allowed "to prevent a
  deadlock if the logger itself produces an error message" (`logger.cpp:50`). That
  holds for the warning of `write()`. The warnings of `open()`
  (`filelogger.cpp:121`) come from a timer event instead, which holds
  `Logger::mutex` but is not inside `msgHandler()`: `tryLock()` succeeds, and
  `log()` waits for the mutex its own thread holds. `NoSelfDeadlock` is violated
  when the log file cannot be opened again after a rotation or a change of its
  name.
* `template_cache`: `tryFile()` returns `entry->document` after it has released the
  mutex (`templatecache.cpp:26`), which is "used to synchronize threads"
  (`templatecache.h:83`). Another thread's `insert()` can delete the entry in
  between, which `StaticFileController` avoids with a copy
  (`staticfilecontroller.cpp:49`): `TemplatesCopied` is violated, `StaticFilesCopied`
  holds.

Shown by a configuration beside the runs (section 3):

* `MCCloseDrops`: `close()` drops a connection that is posted to a handler but not yet
  taken over, with its request unread; `httplistener.h:73` says that it waits "until all
  pending requests are processed". `CloseServesPending` is violated.
* `MCReportsMixed`: as with `thread_safety`, a report may have tables of the shift that
  another thread reports on (`shiftreports.cpp:34`): `ThreadSafeReports` is violated.
* `MCUploadLimit`: a multipart body of exactly `maxMultiPartSize` passes the test of its
  header (`>`, `httprequest.cpp:136`) and is refused when it is complete (`>=`, line
  191), although "the maximum size of the body must not exceed maxMultiPartSize"
  (`httprequest.h:34`): `LimitsAsDocumented` is violated.
* `MCUploadLeak`: of two files uploaded for one field, the second replaces the first in
  the map and nobody deletes the first (`httprequest.cpp:484`), which should be "closed
  and deleted by the destructor" (`httprequest.h:134`): `NoFileLeft` is violated.
* `MCTemplateTooLarge`: `insert()` (`templatecache.cpp:33`) deletes an entry larger than the cache,
  and line 35 returns its document: `TemplatesCopied` is violated by one thread.
* `MCTemplateHang`: `setCondition()` and `loop()` never return if an end tag is missing:
  they warn and search again from the same place (`template.cpp:102`): `CallsReturn` is
  violated.
* `MCCookieDiscard`: `HttpCookie::toByteArray()` does not write a `maxAge` of 0
  (`httpcookie.cpp:112`), which is documented as "discard immediately"
  (`httpcookie.h:71`): `CookiesDiscarded` is violated.
* `MCCookieSecure`: the constructor that parses a cookie never recognises `Secure` and
  `HttpOnly`, since `if (posi)` gives parts without `=` an empty name
  (`httpcookie.cpp:43`): `SecureParsed` is violated. (`httpOnly` it leaves uninitialised;
  `ParseCookie` has its value as an argument.)
* `MCThreadName`: `asprintf()` is static and its result is dropped
  (`logmessage.cpp:69`), so `{thread}`, "ID number of the thread" (`logmessage.h:25`),
  becomes nothing: `ThreadNamed` is violated.

Met while the code was modelled; the models contain them, or leave them out where it
is said, and no run is devoted to them:

* The destructor of a handler does not delete `currentRequest`
  (`httpconnectionhandler.cpp:53`): what was half read when its client vanished is left
  behind with the temporary files.
* The value of a template variable is expanded by *later* calls, if it contains the tag
  of another one.
* A form whose boundary does not end it, or whose temporary file fails, can leave the
  file of its last section behind; and of the values of the fields, the head and
  `maxMultiPartSize` it is `readFromSocket()` that requires them to fit together
  (`FieldsFit`), of which the documentation does not speak.
* A file that cannot be read to its end is cached and answered as far as it was read
  (`staticfilecontroller.cpp:86`, `templateloader.cpp:45-65`).
* A handler that sets `Content-Length` and then writes in parts gets a chunked
  response that also has that header (`httpresponse.cpp:115-124`), against the
  comment in `httpresponse.h:85`. `CloseHeaders`, the headers of the run, do not
  include it.
* The values of log variables are expanded, too: a value that names a variable filled in
  after it is, and one that names another variable of the thread is or is not, in the
  order of a hash table (`logmessage.cpp:73`). `LinesDecorated` says what remains true.
* `ShiftReports`: the sum of a fuel uses the first row of that fuel and pay type,
  although the query has one per colour (`shiftreports.cpp:392-397`); the last column
  of the counters repeats the spilled litres (401-402); a cell whose value rounds to 0
  is blank, so that shown cells need not add up to a shown sum; `tableCashData()`
  prepares a statement with an invalid parameter and never executes the one it builds;
  line 311 reads a column of `q` after it has executed `qo`.

## 6 The proofs

The modules `..._proofs` prove their theorems for **every** value of the constants,
finite or not: any number of connections, handlers, threads, clients, sessions,
messages, files, versions and calls, any limits, any number of backups, any bound of
the clock.

*Assumptions*: only the named `ASSUME`s of the constants, which TLC evaluates too.
Unusable descriptors are connections, the main thread is not a worker, `None`,
`NoOwner` and `NoFile` are none of the values they stand beside, numbers are naturals
(a backup, a `maxSize` and a call at least one), the settings, levels and locale
lists have their types, a directory is one of the static paths, and the caches have
finitely many threads, without which there need be no free address for `new`.
`ScriptsAssumption` says that the requests of a client are `WellFormed` (section 2).
`ImplementsAdmission` also assumes that every descriptor is usable, and the theorems about
the responses that `service()` leaves the headers about their length to `HttpResponse`;
these are hypotheses of the theorems, because the code does not guarantee them.

### Listener, pool and handlers

| theorem | property |
|---|---|
| `Invariance` | `IndInv`, the inductive invariant |
| `TypeCorrect` | `TypeOK`, with at most `maxThreads` handlers |
| `FreeHandlersIdle` | `FreeHandlersAreIdle` |
| `OneConnection` | `OneConnectionPerHandler` |
| `ReadersTimed` | `ReaderIsTimed` |
| `OneClientPerRequest` | `RequestOfOneClient` |
| `CleanupSafe` | `CleanupSparesConnections` |
| `CloseComplete` | `CloseLeavesNothing` |

*The inductive invariant.* None of the properties is inductive alone. A connection
is given to a handler because the flag says it is free; that it then has no other
connection needs `HandlerOK` (not busy implies no connection, an ended thread has
none, a handler with a posted connection has no open one, the request belongs to
the connection). That no *other* handler has it needs `ConnectionsHeld`: the
status of a connection and the handlers agree, and the holder is unique. A new
handler is clean only because the handlers outside the pool are
(`OutsideIsPristine`), which the destructor re-establishes; it removes one handler
and not two because no handler occurs twice in the pool (`PoolInjective`). That
`cleanup()` never deletes a handler with a connection, although the handler runs on
until it notices `quit()`, and that `close()` reaches every handler, needs
`DoomedInPool`: the doomed handler is a free one, or the doomed are all of the pool.
`FreeHandlersAreIdle` is one of the parts and, unlike the other properties, has no
run of its own.

The proof has one lemma per action (`HandleConnectionStep` ...
`DestroyHandlerStep`), over lemmas that say what removing from and appending to a
sequence without repetitions does (`RemoveAtProperties`, `AppendProperty`), what a
step of one handler leaves alone (`WorkerFrame`, `OthersKeepHandlerOK`) and how the
two steps that end connections keep `ConnectionsHeld`
(`DisconnectedKeepsConnections`, `DroppedKeepsConnections`).

### Admission and cleanup

| theorem | property |
|---|---|
| `MinimumKept` | `CleanupKeepsMinimum`, an action property |
| `ImplementsAdmission` | the part of `AdmissionSpec` without fairness, `Admitted!Init /\ [][Admitted!Next]_Phase`, if `Unusable = {}` |

These are the last part of `HttpListener_proofs`, about numbers. `CountInSequence` and `PoolCount` count the handlers of the
pool by its positions. `MinimumKept` needs `SpareIdle`: while `cleanup()` waits for
the thread of the handler it deletes, *more* than `minThreads` handlers are idle.
It is kept because the main thread, which alone gives out handlers, is the one that
waits, and a handler only ever makes itself idle (`IdleStayIdle`).

`ImplementsAdmission` needs `BusyHolds`: a busy handler has a connection. With
`HolderIsUnique` the admitted connections are then as many as the busy handlers
(`ActiveCount`, by a bijection), so that an idle handler or room in the pool means
room for an admission, and a refusal means that `maxThreads` are admitted. The
assumption is needed: a handler whose `setSocketDescriptor()` fails stays busy
without a connection, as the run `handler_leak` shows, and each such handler lowers
the number of connections that are admitted.

### Session store

| theorem | property |
|---|---|
| `Inductive` | `IndInv`, the inductive invariant |
| `TypeCorrect` | `TypeOK`: the counters of handles stay natural |
| `CountsHandles` | `RefCountIsExact` |
| `HandlesStayValid` | `NoUseAfterDelete` |
| `NothingLeaks` | `NoLeak` |
| `CallsAgreeOnSession` | `OneSessionPerRequest` |
| `ErasesUnused` | `ExpiresWhenUnused`, an action property |

*The inductive invariant.* `References(s)` is the set of places that hold a handle
of `s`: stacks, map, timer event. `CountsOK` adds to `RefCountIsExact` that the set
is finite, without which a cardinality cannot be counted up and down. `LivesOK` is
`NoUseAfterDelete` and `NoLeak`, one conjunct each: a dropped handle was the last
one exactly if its counter was 1, and who dropped it takes over the deletion.
Erasing from the map never drops the last handle, because the caller of
`removeSession()` and the timer event hold another; that they do needs `StacksOK`
and `TimerOK` (the timer event's handle exists only while it has the mutex, and what
it has yet to visit is still in the map). A new session has no handles yet because
data with handles is alive. `CallsOK` strengthens `OneSessionPerRequest` to all
pairs of handles of a request, to the cookie of its response and to what
`getSessionId()` has found: a second call finds the session of the first because the
response's cookie names it. `TimesOK` relates the time of access to the last return
of `getSession()`: the time that the timer event has read is not older than that,
unless the session was returned since the event began; this is what `ErasesUnused`
rests on, and the reason for the exception in `ExpiresWhenUnused`.

The proof first says, in one lemma per way of copying and destroying
(`PushedReference`, `PoppedReference`, `ErasedReference`, `VisitedReference`,
`LeftReference`, `AssignedReference`, `CreatedReferences`), how the set of references
changes, then what that means for counter and life (`OneMore`, `OneLess`, `LastOne`,
`LivesStep`), and then takes the actions one by one.

### Logger

| theorem | property |
|---|---|
| `Invariance` | `IndInv`, the inductive invariant |
| `TypeCorrect` | `TypeOK` |
| `BackupsLimited` | `BackupsWithinLimit` |
| `OrderKept` | `MessagesInOrder` |
| `ErrorsKept` | `ErrorsSurvive` |

*The inductive invariant* has three layers, each proved with the help of the one
below; together they are `IndInv`, which TLC has checked on the instance of `logger`.

* `StepsOK`: where a thread is says which mutexes it owns and what it holds
  (`ThreadOK`), and what the end of the program takes away (`ProgramOK`). A rotation
  never makes a file beyond `maxBackups` because it counts the backups that are
  really there: while it goes down, the files 1 to `count` exist and `count` is at
  most `maxBackups`, also if a removal has failed.
* `OrderOK`: what is written has been logged before whatever the same thread still
  has to print, the queue of a thread before its ring buffer, and that before the
  call it is in (`MemoryOK`, `Own`). The proof treats files as what one reads in them
  (`Text`: a file with the bytes of its `QFile`): a step moves whole texts to other
  places without changing their order (`Rearranged`), appends one message
  (`WriteAdds`), or forgets some. A rotation moves the texts in the order of their
  places, oldest first, which is all `MessagesInOrder` needs of it.
* `ErrorsOK`: every message of the run of the program is somewhere (`Accounted`:
  written, held by its thread, dropped from a ring buffer, printed while the buffers
  are disabled, or in `gone`), and the last message of a call that logs an error is
  the error, so that the flush it causes takes everything before it to the disk
  (`ErrorIsLast`).

`Precedes(k, m)` is the order that is promised: a message that is read before an
older one of its thread was printed directly, while the buffers were disabled, past a
ring buffer that still held the older one.

### Caches

| theorem | property |
|---|---|
| `QCache_proofs`: `Removed`, `Touched`, `Inserted` | what the operations of a `QCache` do |
| `FileCache_proofs`: `Invariance` | `IndInv`, the inductive invariant |
| `TypeCorrect` | `TypeOK`: one entry per key, at an address of its own, and no more than `cacheSize` |
| `Honest` | `EntriesHonest` |
| `Freshness` | `AnswersFresh` |
| `Copied` | `StaticFilesCopied` |

`QCache_proofs` is about sequences of entries alone: whatever is removed, moved to
the front, inserted and trimmed, the result picks entries of the cache, each at most
once (`Picks`), after the new one, and the sum of the costs is what it should be.
That sum is a recursive function. The library's induction theorems cannot be used
here, as they take a predicate; `InductionOverSet`, which takes the *set* of the
numbers that have the property and follows from the well-foundedness of `<`, can.
From it come `Recursion` (a function given by its first value and its next value
exists), `CostsDefined` and `CostsUnique`, and in `FileCache_proofs` `DistinctNames`.

*The inductive invariant* of `FileCache` says of an entry that it is not younger than
the clock and has the name of its file (`EntriesOK`), and of a thread what it holds at
each place (`CallOK`), that the document it is about to insert was in the file at the
time the entry will be dated from (`InsertOK`), that the names it has tried were
missing (`MissesOK`), and that its answer is fresh (`AnswerOK`). `EntriesHonest`
carries the facts from one call to the next: a hit is fresh because the entry was
honest at its creation and has not expired. A change of a file disturbs nothing, since
a version that was there after a time before now still was (`StillThere`). The proof
has one lemma for each action, over `OneGoes` (a step of one thread leaves the calls
of the others alone) and `EntryMade` (the new entry, at an address nobody holds).

### Pages

| theorem | property |
|---|---|
| `TypeCorrect` | `TypeOK`, for any number of threads |
| `Invariance` | `IndInv`, the inductive invariant |
| `ObjectsServed` | `ObjectsOfCaller` |
| `ShiftsServed` | `ShiftsOfCaller` |
| `ReportServed` | `ReportOfCaller` |

The theorems are about any number of threads in `service()` at once, and need no
hypothesis: the properties themselves say which requests they speak of. The clients,
their requests and the failures of the databases are arbitrary.

`TypeInv` adds `RequestOK` to `TypeOK`: the member `objectID` of `ShiftsList` is an
object, and `azs` has only connections of objects, because a session's object is never
taken back, whichever thread is in between. `Overlaps` makes the history variables mean
what they should: two threads in `service()` of which one is in the other's way know it,
from the moment the second of them has got its request. So a step of another thread
leaves the members alone that an undisturbed thread has set, and `ServiceOK` follows the
request of such a thread: each member it has set has its value until the page is written
(`ListOK`, `ShiftsOK`, `ReportOK`). `HeadOK` is what `ShiftsOfCaller` needs when the
database could not be opened: head and rows of a list of shifts change together, as long
as no two lists are made at once. A page of the request before has been forgotten
(`Unfinished`).

### Responses

| theorem | property |
|---|---|
| `Invariance`, if `LengthLeftAlone` | `IndInv`, the inductive invariant |
| `Framing`, if `LengthLeftAlone` | `ResponsesFramed` |

`LengthLeftAlone` says that of the headers of `HeaderName`, those that say where a
response ends, `service()` sets none but `Connection`, to whatever value. The
controllers of this server keep to that: they set the type and the caching of a
document. A handler that gives `Content-Length`
a number of its own can make the client wait for bytes that are never written, or take
the rest of one response for the next. The requests, the limits, the `write()` calls
and the ways in which bytes arrive and clients leave are arbitrary.

*The inductive invariant* relates what the client has read to where the handler is.
Between two requests it waits for a status line and has every body of `service()`
(`Waits`). While a request is served, `Framed` gives the four states of a response:
nothing has been written (`Fresh`), the client is between two chunks (`InChunks`) or
reads until the connection ends (`TillClose`), with as much of the body as `service()`
has written, or the response is complete (`Answered`). After the last response it
waits either for another or for the end of the connection, which is why the end is
part of the invariant (`open`). A client whose connection is gone is owed nothing, so
`IndInv` is `~gone => Steady`. TLC has checked it on the instance of `exchange`,
where the settings satisfy `LengthLeftAlone`.

The client is a recursive function over the bytes' items, `Received`. `ReadingOn`
says that reading one stream after another is reading both, so that the proof needs
only what a `write()` adds. `HeadersRead`, `ChunkRead` and `MarkerRead` are the client's side of
`writeHeaders()`, a chunk and its last one; `WriteFrames` and `FinalFrames` put them
together, for each of the four states; then there is one lemma for each action. An
empty body part written as a chunk would be the last chunk to the client: that
`write()` skips it is what `InChunks` rests on.

### Requests

| theorem | property |
|---|---|
| `StreamInvariance` | `StreamInv`, the inductive invariant |
| `DeliveredAsSent` | `RequestsAsSent` |
| `JudgedBySize` | `VerdictBySize` |
| `FilesDeleted` | `UploadsDeleted` |
| `NoneLeft` | `NobodyWaits` |

The module is `HttpRequest_proofs`. The number and the kinds of the requests, the
length of their headers, values and bodies, the limits, the block size of
`readBody()` and the places where the stream is cut are arbitrary.

*The inductive invariant.* `Progress(r, q, rest)` says what the parser `r` holds when
it has read all of the request `q` but `rest`: it is in one of the lines of the head
(`InLine`, with the beginning of that line in its buffer), in a body kept in memory
(`InBody`) or in a temporary file (`InFile`), or it is complete, or it is aborted.
Each case carries what the later ones need: the headers of the lines before
(`HeadersKnown`), the sum of the bytes read and the bytes to come, which is the size
of the request, and how far the limits have been kept. `Underway` adds that the bytes
in the socket, in the kernel and at the client are together that `rest` and the
requests behind it, and nothing else. With that, `StreamInv` is inductive; none of the
four properties is. `RequestsAsSent` and `VerdictBySize` are what `Progress` says of a
complete and of an aborted request, and `NobodyWaits` holds because a request that is
neither waits for something (`SomethingToCome`), so that the bytes still at the client
are more than those behind it. `StreamInv` quantifies over all sequences of bytes; TLC
can evaluate it with the tails of the requests for them, and found it kept in all
states of `exchange` before it was proved.

*The proof*, from the bytes upwards:

* Cutting sequences: what is taken from the front of the buffer is taken from the front
  of what is to come (`TakenFromBoth`); `readLine()` does not take more than the rest
  of a line (`LineTaken`), a body's read not more than the rest of the body
  (`PieceTaken`, `BodyTaken`). The requests, the lines and the sections of a form are
  written one behind the other by recursive functions, which exist by `Recursion` of
  `QCache_proofs` (`ChainOf`), and the sizes are sums over them (`SizeIs`).
* `FormParsed`: `parseMultiPartFile()` finds the fields and the files of the form, counts
  the lines of the fields, opens a temporary file for each upload and keeps one of them
  for each field. It goes section by section (`SectionParsed`), by `InductionOverSet`.
* One line of the head: `BlankLine`, `FirstLine`, `HeaderLine` (a header of its own or one
  that continues the last) and `HeadEnds`, which decides between memory and file and is
  the first to compare sizes.
* `OneCall`: a call of `readFromSocket()`, in any of these places, with any bytes in the
  socket, takes bytes of this request only and keeps `Progress`. `Turn` puts it into
  the loop of `read()`, where a new request begins at the end of the last; then there is
  one lemma for each action of the connection.

`FilesDeleted` counts: a form opens a file for each of its uploads and has one in the map
for each of their fields, so the destructor leaves the difference, which is 0 for a form
with one file for a field.

### Model-checked only

Liveness (`PoolShrinks`, `HandlersComeFree`, `CloseReturns`, `FileIsRotated`) and the
refinement of `Admission` with its fairness, since the proof system does not treat
fairness and `ENABLED`; and `WebText`. `Page` uses recursive operators, because the
elements of a template nest, and a module that reaches one cannot be proved about. Its
other texts are functions of what they are given, over sequences that are folded.

## 7 Not modelled

* *No state to check*: `HttpRequestHandler` (an interface), the start-up in `main()`,
  the TLS configuration (read once), `MposOnlineAdmin` (an empty window).
* *Not used by the server*: `DualFileLogger`, which forwards every call to two
  `FileLogger`s. *Not compiled into it*: `qtservice`, which is more than a quarter of
  the source; its processes, pipes and service managers belong to the platforms.
* *Within modelled parts*: the values of a session other than user, object and
  shift; unlimited backups; a change of `minLevel`; `tableCashData()`, the average
  price and the markup of a report; the wording of responses; text codecs; sockets
  that fail to bind.
* *Hazards without a property* are in `PROJECT.json` with the reason: the missing
  timeout on writes (section 4), the user kept between requests
  (`requestmapper.cpp:40`), the requests that `close()` drops (section 5), the file pointer tested outside of the mutex
  (`filelogger.cpp:181`).
* *Behind the models*: the order in which Qt delivers signals and events is taken
  from how the code uses them; `QCache`, `QMutex`, `QFile` and the browsers are
  modelled as the code relies on them and marked external in `PROJECT.json`.

## 8 Plan

Done, in this order: the listener with its pool and handlers, and the proofs about
them; the abstract listener and its refinement, proved but for its fairness; the
session store and its proofs; the application with its pages; the logger; the bytes of
a connection; the caches; cookies, parameters, templates, log lines and the tables of
the report; the proofs about the logger, the caches, the pages, the responses and the
requests of a connection.

Left, the most useful first:

1. `HttpExchange` for a handler that serves one client after another, composed with
   `ConnectionHandler`.
2. `Template` and `Page` with recursive functions for the recursive operators, which
   would open `RenderedAsDocumented` to a proof, and proofs about the other texts.
3. `tableCashData()`, unlimited backups and `DualFileLogger`, should the server come
   to use them.
