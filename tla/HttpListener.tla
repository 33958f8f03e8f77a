---------------------------- MODULE HttpListener ----------------------------
(***************************************************************************)
(* HttpListener and HttpConnectionHandlerPool: the main thread accepts     *)
(* connections, gives each to a handler that is not busy (or to a new one, *)
(* or refuses it with 503), removes one idle handler per cleanup interval, *)
(* and on close() deletes the pool.  The handlers run concurrently: their  *)
(* steps are those of ConnectionHandler.                                   *)
(*                                                                         *)
(* incomingConnection(), cleanup() and close() all run in the main thread, *)
(* so they do not interleave with each other; deleting a handler blocks    *)
(* the main thread until the handler's thread has ended.                   *)
(***************************************************************************)
EXTENDS ConnectionHandler, SequencesExt

CONSTANTS
    MinThreads, \* minThreads: idle handlers cleanup() keeps
    MaxThreads, \* maxThreads: handlers getConnectionHandler() creates at most
    MaxCloses   \* bound: calls of HttpListener::close()

ASSUME MinThreadsAssumption == MinThreads \in Nat
ASSUME MaxThreadsAssumption == MaxThreads \in Nat
ASSUME MaxClosesAssumption == MaxCloses \in Nat

VARIABLES
    pool,       \* the QList of handlers, in the order of their creation
    listening,  \* is the server socket open?
    closes      \* how often close() was called (bounded by MaxCloses)

poolVars == <<pool, listening, closes>>
vars == <<handlerVars, doomed, connVars, poolVars>>

Idle(i) == ~busy[pool[i]]
IdleIndices == {i \in DOMAIN pool : Idle(i)}
InPool == ToSet(pool)

\* main() constructs the listener, whose constructor calls listen().
Init ==
    /\ HandlerInit /\ PeerInit
    /\ pool = <<>> /\ listening = TRUE /\ closes = 0

MainReady == doomed = <<>>

-----------------------------------------------------------------------------
\* setBusy() in the main thread, then the event is posted to the handler's.
BugNotYetBusy(h) == busy' = busy
SetBusy(h) == busy' = [busy EXCEPT ![h] = TRUE]

Assign(h, c) ==
    /\ SetBusy(h)
    /\ inbox' = [inbox EXCEPT ![h] = Append(@, c)]
    /\ status' = [status EXCEPT ![c] = "queued"]
    /\ UNCHANGED <<sock, timer, expired>>

\* getConnectionHandler(): the first handler that is not busy ...
AssignIdle(c) ==
    \E i \in IdleIndices :
        /\ \A j \in IdleIndices : i <= j
        /\ Assign(pool[i], c)
        /\ UNCHANGED <<pc, request, pool>>

BugRoomOffByOne == Len(pool) <= MaxThreads
RoomInPool == Len(pool) < MaxThreads

\* ... or a new one, whose constructor starts its thread ...
AssignNew(c) ==
    /\ IdleIndices = {} /\ RoomInPool
    /\ \E h \in Handler \ InPool :
        /\ Assign(h, c)
        /\ pc' = [pc EXCEPT ![h] = "loop"]
        /\ request' = [request EXCEPT ![h] = {}]
        /\ pool' = Append(pool, h)

\* ... or none: the listener answers 503 and closes.
Refuse(c) ==
    /\ IdleIndices = {} /\ ~RoomInPool
    /\ status' = [status EXCEPT ![c] = "refused"]
    /\ UNCHANGED <<handlerVars, pool>>

IncomingConnection(c) ==
    /\ MainReady /\ listening /\ status[c] = "outside"
    /\ AssignIdle(c) \/ AssignNew(c) \/ Refuse(c)
    /\ UNCHANGED <<doomed, unread, sent, hungup, listening, closes>>

-----------------------------------------------------------------------------
(* cleanup() walks over the pool and deletes the first idle handler beyond *)
(* minThreads.                                                             *)
IdleUpTo(i) == Cardinality({j \in IdleIndices : j <= i})

BugExcessAnyState(i) == i > MinThreads
BugExcessOffByOne(i) == Idle(i) /\ IdleUpTo(i) >= MinThreads
BugExcessOverMax(i) == Idle(i) /\ IdleUpTo(i) > MaxThreads
Excess(i) == Idle(i) /\ IdleUpTo(i) > MinThreads

Cleanup ==
    /\ MainReady /\ listening
    /\ \E i \in DOMAIN pool :
        /\ Excess(i) /\ \A j \in 1..(i - 1) : ~Excess(j)
        /\ doomed' = <<pool[i]>>
    /\ UNCHANGED <<handlerVars, connVars, poolVars>>

\* close(): the server socket first, then delete of the pool, whose destructor
\* deletes every handler in turn.
Close ==
    /\ MainReady /\ listening /\ closes < MaxCloses
    /\ listening' = FALSE
    /\ closes' = closes + 1
    /\ doomed' = pool
    /\ UNCHANGED <<handlerVars, connVars, pool>>

\* listen() after close() makes a new pool.
Listen ==
    /\ MainReady /\ ~listening
    /\ listening' = TRUE
    /\ UNCHANGED <<handlerVars, doomed, connVars, pool, closes>>

\* The rest of a handler's destructor once thread->wait() has returned: the
\* events still posted to the object go with it, but not a request it was
\* reading, which nobody deletes.  The next handler of a pool that is being
\* deleted is told to quit.
BugNoWait(h) == TRUE
WaitReturns(h) == pc[h] = "ended"

DestroyHandler ==
    /\ doomed # <<>>
    /\ LET h == Head(doomed) IN
        /\ WaitReturns(h)
        /\ \E i \in DOMAIN pool : pool[i] = h /\ pool' = RemoveAt(pool, i)
        /\ pc' = [pc EXCEPT ![h] = "ended"]
        /\ busy' = [busy EXCEPT ![h] = FALSE]
        /\ inbox' = [inbox EXCEPT ![h] = <<>>]
        /\ status' = [c \in Conn |-> IF c \in ToSet(inbox[h]) THEN "dropped" ELSE status[c]]
    /\ doomed' = Tail(doomed)
    /\ UNCHANGED <<sock, timer, expired, request, unread, sent, hungup, listening, closes>>

-----------------------------------------------------------------------------
Main == Cleanup \/ Close \/ Listen \/ DestroyHandler \/ \E c \in Conn : IncomingConnection(c)

Peers == \E c \in Conn : Send(c) \/ HangUp(c)

Next ==
    \/ Main
    \/ (Peers \/ \E h \in Handler : Worker(h)) /\ UNCHANGED poolVars

Spec == Init /\ [][Next]_vars

(***************************************************************************)
(* Every thread keeps running: the handlers' event loops, the cleanup      *)
(* timer and a destructor in progress.  For a handler this includes that   *)
(* service() returns and that a client reads its response or goes away.    *)
(***************************************************************************)
Fairness ==
    /\ \A h \in Handler : WF_vars(Worker(h) /\ UNCHANGED poolVars)
    /\ WF_vars(Cleanup) /\ WF_vars(DestroyHandler)

FairSpec == Spec /\ Fairness

-----------------------------------------------------------------------------
(* Properties. *)

\* Every variable has its type; in particular the pool never holds more than
\* maxThreads handlers (httpconnectionhandlerpool.cpp:54-55).
TypeOK ==
    /\ HandlerTypeOK /\ PeerTypeOK
    /\ pool \in Seq(Handler) /\ Len(pool) <= MaxThreads
    /\ listening \in BOOLEAN
    /\ closes \in 0..MaxCloses

\* The connections a handler has been given and has not finished with.
Held(h) == ToSet(inbox[h]) \cup ({sock[h]} \ {None})

\* A handler has at most one connection, posted or open, and a connection at
\* most one handler: what the assertion of handleConnection()
\* (httpconnectionhandler.cpp:84) relies on.
OneConnectionPerHandler ==
    /\ \A h \in Handler :
        /\ Len(inbox[h]) <= 1
        /\ inbox[h] # <<>> => sock[h] = None
    /\ \A g, h \in Handler : g # h => Held(g) \cap Held(h) = {}

\* A handler that getConnectionHandler() and cleanup() take for free has
\* nothing to do, whatever its thread is in the middle of.
FreeHandlersAreIdle == \A h \in Handler : ~busy[h] => Held(h) = {}

\* A handler waiting for input in its event loop has its read timer running,
\* so that a silent client cannot keep it (httpconnectionhandler.cpp:109, 268).
ReaderIsTimed ==
    \A h \in Handler : InEventLoop(h) /\ sock[h] # None => timer[h]

\* The request a handler is collecting or serving has bytes of one connection
\* only, the one its socket holds while it is open: a half-read request of the
\* previous client never leaks into the next one.
RequestOfOneClient ==
    \A h \in Handler :
        /\ Cardinality(request[h]) <= 1
        /\ sock[h] # None => request[h] \subseteq {sock[h]}

\* cleanup() never deletes a handler that has a connection, although the
\* handler's thread runs on until it notices quit().
CleanupSparesConnections ==
    \A h \in Handler : Quitting(h) /\ listening => Held(h) = {}

\* After close() no handler is left, no thread runs and no connection that was
\* accepted is still waiting or open.
CloseLeavesNothing ==
    MainReady /\ ~listening =>
        /\ pool = <<>>
        /\ \A h \in Handler : Pristine(h)
        /\ \A c \in Conn : status[c] \notin {"queued", "open"}

IdleHandlers == Cardinality(IdleIndices)

\* "the configured minimum number of threads are kept running"
\* (httpconnectionhandlerpool.h:31): when a cleanup() that deleted a handler
\* ends, minThreads handlers are still idle.
CleanupKeepsMinimum ==
    [][~MainReady /\ MainReady' /\ listening => IdleHandlers' >= MinThreads]_vars

\* "The cleanup timer reduces the number of idle threads slowly"
\* (httpconnectionhandlerpool.h:29-30): once the clients are gone, no more
\* than minThreads idle handlers remain.
PoolShrinks == <>[](IdleHandlers <= MinThreads)

\* A busy handler becomes free again: no handler is lost to the pool.
HandlersComeFree == \A h \in Handler : busy[h] ~> ~busy[h]

\* close() returns: the destructors it waits in come to an end.
CloseReturns == ~listening /\ doomed # <<>> ~> MainReady

(***************************************************************************)
(* The listener as seen by the clients: see Admission.                     *)
(***************************************************************************)
Phase ==
    [c \in Conn |->
        CASE status[c] = "outside" -> "outside"
          [] status[c] \in {"queued", "open"} -> "admitted"
          [] status[c] = "refused" -> "refused"
          [] OTHER -> "ended"]

Admitted == INSTANCE Admission WITH phase <- Phase, Capacity <- MaxThreads

\* A connection is refused only while maxThreads others are being served, and
\* an admitted one is served to its end.
AdmissionSpec == Admitted!Spec

-----------------------------------------------------------------------------
(***************************************************************************)
(* The inductive invariant behind the safety properties: HttpListener_proofs *)
(* proves it for every number of handlers and connections.                 *)
(***************************************************************************)
PoolInjective == \A i, j \in DOMAIN pool : pool[i] = pool[j] => i = j

OutsideIsPristine == \A h \in Handler \ InPool : Pristine(h)

HandlerOK(h) ==
    /\ pc[h] = "ended" => sock[h] = None /\ ~timer[h] /\ ~expired[h]
    /\ inbox[h] = <<>> \/ (sock[h] = None /\ \E c \in Conn : inbox[h] = <<c>>)
    /\ ~busy[h] => inbox[h] = <<>> /\ sock[h] = None
    /\ InEventLoop(h) /\ sock[h] # None => timer[h]
    /\ sock[h] # None => request[h] \subseteq {sock[h]}
    /\ \A c, d \in request[h] : c = d

\* The connections that are queued or open are those the handlers hold.
StatusOfHeld ==
    /\ \A h \in Handler, c \in Conn : inbox[h] = <<c>> => status[c] = "queued"
    /\ \A h \in Handler : sock[h] # None => status[sock[h]] = "open"

HeldOfStatus ==
    \A c \in Conn :
        /\ status[c] = "queued" => \E h \in Handler : inbox[h] = <<c>>
        /\ status[c] = "open" => \E h \in Handler : sock[h] = c

HolderIsUnique ==
    \A g, h \in Handler :
        /\ sock[g] = sock[h] /\ sock[g] # None => g = h
        /\ \A c \in Conn : inbox[g] = <<c>> /\ inbox[h] = <<c>> => g = h

ConnectionsHeld == StatusOfHeld /\ HeldOfStatus /\ HolderIsUnique

DoomedInPool ==
    /\ listening => doomed = <<>> \/ \E h \in InPool : doomed = <<h>> /\ ~busy[h]
    /\ ~listening => doomed = pool

IndInv ==
    /\ TypeOK /\ PoolInjective /\ OutsideIsPristine
    /\ \A h \in Handler : HandlerOK(h)
    /\ ConnectionsHeld /\ DoomedInPool

-----------------------------------------------------------------------------
(* What the documentation says and the code does not do. *)

\* "Returns true, if this handler is in use" (httpconnectionhandler.h:67): a
\* busy handler has a connection, posted or open, or is still in a slot.
BusyMeansInUse ==
    \A h \in Handler : busy[h] /\ InEventLoop(h) => Held(h) # {}

\* "Closes the listener, waits until all pending requests are processed, then
\* closes the connection pool" (httplistener.h:72-75): a connection that close()
\* drops before its handler has taken it over has brought no request.
CloseServesPending == \A c \in Conn : status[c] = "dropped" => unread[c] = 0
=============================================================================
