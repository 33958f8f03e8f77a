-------------------------- MODULE HttpSessionStore --------------------------
(***************************************************************************)
(* HttpSessionStore: the map of sessions behind a mutex, used by all       *)
(* worker threads, and the timer that erases expired sessions in the main  *)
(* thread (httpsessionstore.cpp).                                          *)
(*                                                                         *)
(* A worker serves a request of a client: service() calls getSession(),    *)
(* and so does the page it dispatches to.  getSession() takes the mutex    *)
(* twice, and sets the time of access after it has released it.            *)
(***************************************************************************)
EXTENDS HttpSession, Integers, Sequences, FiniteSets, SequencesExt

CONSTANTS
    Worker,         \* the worker threads
    Main,           \* the thread of the timer
    Client,         \* browsers, each with a cookie jar
    ExpirationTime, \* expirationTime of the settings
    MaxCalls        \* bound: getSession() calls of one request

ASSUME MainAssumption == Main \notin Worker /\ Main # None
ASSUME ExpirationAssumption == ExpirationTime \in Nat
ASSUME MaxCallsAssumption == MaxCalls \in Nat \ {0}

Thread == Worker \cup {Main}
SessionOrNull == Session \cup {None}

VARIABLES
    sessions,   \* the keys of the map
    mutex,      \* its owner
    pc,         \* where a worker is
    client,     \* whose request a worker serves; None if no cookie is involved
    reqCookie,  \* the session cookie of the request
    respCookie, \* the session cookie put into the response
    found,      \* the result of getSessionId()
    handles,    \* the HttpSession objects of the call stack
    toDelete,   \* data a thread has to delete: it counted down to zero
    jar,        \* the session cookie a client holds
    now,        \* the time sessionTimerEvent() read when it began
    toVisit,    \* the map entries it has not reached
    visited,    \* its local handle ...
    seen,       \* ... and the time of access it read from it
    returned    \* history: when getSession() last returned a session

workerVars == <<pc, client, reqCookie, respCookie, found, handles>>
timerVars == <<now, toVisit, visited, seen>>
vars == <<sessionVars, clock, sessions, mutex, workerVars, toDelete, jar, timerVars, returned>>

PC == {"idle", "id", "look", "touch", "run", "unwind"}

Init ==
    /\ SessionInit
    /\ sessions = {} /\ mutex = None
    /\ pc = [t \in Worker |-> "idle"]
    /\ client = [t \in Worker |-> None]
    /\ reqCookie = [t \in Worker |-> None]
    /\ respCookie = [t \in Worker |-> None]
    /\ found = [t \in Worker |-> None]
    /\ handles = [t \in Worker |-> <<>>]
    /\ toDelete = [t \in Thread |-> None]
    /\ jar = [k \in Client |-> None]
    /\ now = 0 /\ toVisit = {} /\ visited = None /\ seen = 0
    /\ returned = [s \in Session |-> 0]

Goto(t, l) == pc' = [pc EXCEPT ![t] = l]
Push(t, s) == handles' = [handles EXCEPT ![t] = Append(@, s)]
Returned(s) == returned' = [x \in Session |-> IF x = s THEN clock ELSE returned[x]]

-----------------------------------------------------------------------------
(* A worker thread. *)

\* A request with the cookie of its client arrives; service() calls getSession().
BeginRequest(t, k) ==
    /\ pc[t] = "idle"
    /\ Goto(t, "id")
    /\ client' = [client EXCEPT ![t] = k]
    /\ reqCookie' = [reqCookie EXCEPT ![t] = jar[k]]
    /\ respCookie' = [respCookie EXCEPT ![t] = None]
    /\ UNCHANGED <<sessionVars, clock, sessions, mutex, found, handles, toDelete, jar, timerVars, returned>>

\* getSession(id): the lookup under the mutex, the time of access after it.
GetSessionById(t, id) ==
    /\ pc[t] = "idle" /\ mutex = None
    /\ Goto(t, "touch")
    /\ LET s == IF id \in sessions THEN id ELSE None IN Copy(s) /\ Push(t, s)
    /\ UNCHANGED <<data, lastAccess, clock, sessions, mutex, client, reqCookie, respCookie,
                   found, toDelete, jar, timerVars, returned>>

\* "The session ID in the response has priority".
BugRequestFirst(t) == reqCookie[t]
CookieOf(t) == IF respCookie[t] # None THEN respCookie[t] ELSE reqCookie[t]

GetSessionId(t) ==
    /\ pc[t] = "id" /\ mutex = None
    /\ Goto(t, "look")
    /\ found' = [found EXCEPT ![t] = IF CookieOf(t) \in sessions THEN CookieOf(t) ELSE None]
    /\ UNCHANGED <<sessionVars, clock, sessions, mutex, client, reqCookie, respCookie,
                   handles, toDelete, jar, timerVars, returned>>

BugForgetUnlock(t) == mutex' = t
Unlock(t) == mutex' = None

\* The rest of getSession() up to the release of the mutex.  A session that
\* was there in getSessionId() may have been erased since.
FoundAgain(t) ==
    /\ found[t] \in sessions
    /\ Copy(found[t]) /\ Push(t, found[t])
    /\ respCookie' = [respCookie EXCEPT ![t] = found[t]]
    /\ Goto(t, "touch")
    /\ UNCHANGED <<data, lastAccess, sessions, returned>>

CreateSession(t) ==
    /\ found[t] \notin sessions
    /\ \E s \in Session :
        /\ ConstructAndInsert(s)
        /\ sessions' = sessions \cup {s}
        /\ Push(t, s)
        /\ respCookie' = [respCookie EXCEPT ![t] = s]
        /\ Returned(s)
    /\ Goto(t, "run")

NullSession(t) ==   \* allowCreate is false
    /\ found[t] \notin sessions
    /\ Push(t, None) /\ Goto(t, "run")
    /\ UNCHANGED <<sessionVars, sessions, respCookie, returned>>

GetSession(t) ==
    /\ pc[t] = "look" /\ mutex = None
    /\ FoundAgain(t) \/ CreateSession(t) \/ NullSession(t)
    /\ Unlock(t)
    /\ UNCHANGED <<clock, client, reqCookie, found, toDelete, jar, timerVars>>

\* setLastAccess() outside the mutex, then return.
Touch(t) ==
    /\ pc[t] = "touch"
    /\ SetLastAccess(Last(handles[t])) /\ Returned(Last(handles[t]))
    /\ Goto(t, "run")
    /\ UNCHANGED <<data, refCount, clock, sessions, mutex, client, reqCookie, respCookie,
                   found, handles, toDelete, jar, timerVars>>

\* The page service() dispatches to calls getSession() again.
CallPage(t) ==
    /\ pc[t] = "run" /\ client[t] # None /\ Len(handles[t]) < MaxCalls
    /\ toDelete[t] = None
    /\ Goto(t, "id")
    /\ UNCHANGED <<sessionVars, clock, sessions, mutex, client, reqCookie, respCookie,
                   found, handles, toDelete, jar, timerVars, returned>>

\* Assignment of one of the request's handles to the other.
AssignHandle(t) ==
    /\ pc[t] = "run" /\ Len(handles[t]) = 2 /\ handles[t][1] # handles[t][2]
    /\ toDelete[t] = None
    /\ Reassign(handles[t][1], handles[t][2])
    /\ toDelete' = [toDelete EXCEPT ![t] =
                        IF LastReference(handles[t][1]) THEN handles[t][1] ELSE None]
    /\ handles' = [handles EXCEPT ![t][1] = handles[t][2]]
    /\ UNCHANGED <<data, clock, sessions, mutex, pc, client, reqCookie, respCookie, found,
                   jar, timerVars, returned>>

\* removeSession(): the handle is passed by value, so the data stays.
RemoveSession(t) ==
    /\ pc[t] = "run" /\ mutex = None /\ toDelete[t] = None
    /\ handles[t] # <<>> /\ Last(handles[t]) \in sessions
    /\ sessions' = sessions \ {Last(handles[t])}
    /\ Release(Last(handles[t]))
    /\ UNCHANGED <<data, lastAccess, clock, mutex, workerVars, toDelete, jar, timerVars, returned>>

\* The handles go out of scope, the innermost first ...
DropHandle(t) ==
    /\ pc[t] \in {"run", "unwind"} /\ handles[t] # <<>> /\ toDelete[t] = None
    /\ Goto(t, "unwind")
    /\ handles' = [handles EXCEPT ![t] = Front(@)]
    /\ Release(Last(handles[t]))
    /\ toDelete' = [toDelete EXCEPT ![t] =
                        IF LastReference(Last(handles[t])) THEN Last(handles[t]) ELSE None]
    /\ UNCHANGED <<data, lastAccess, clock, sessions, mutex, client, reqCookie, respCookie,
                   found, jar, timerVars, returned>>

\* ... each deleting the data if its counter reached zero.
DeleteData(t) ==
    /\ toDelete[t] # None
    /\ Delete(toDelete[t])
    /\ toDelete' = [toDelete EXCEPT ![t] = None]
    /\ UNCHANGED <<refCount, lastAccess, clock, sessions, mutex, workerVars, jar, timerVars, returned>>

\* The client stores the cookie of the response.
EndRequest(t) ==
    /\ pc[t] = "unwind" /\ handles[t] = <<>> /\ toDelete[t] = None
    /\ Goto(t, "idle")
    /\ jar' = [k \in Client |->
                  IF k = client[t] /\ respCookie[t] # None THEN respCookie[t] ELSE jar[k]]
    /\ client' = [client EXCEPT ![t] = None]
    /\ reqCookie' = [reqCookie EXCEPT ![t] = None]
    /\ respCookie' = [respCookie EXCEPT ![t] = None]
    /\ found' = [found EXCEPT ![t] = None]
    /\ UNCHANGED <<sessionVars, clock, sessions, mutex, handles, toDelete, timerVars, returned>>

-----------------------------------------------------------------------------
(* sessionTimerEvent() in the main thread, which holds the mutex throughout. *)

TimerBegin ==
    /\ mutex = None
    /\ mutex' = Main
    /\ now' = clock
    /\ toVisit' = sessions
    /\ UNCHANGED <<sessionVars, clock, sessions, workerVars, toDelete, jar, visited, seen, returned>>

\* Copy the entry and read its time of access.
TimerVisit ==
    /\ mutex = Main /\ visited = None /\ toDelete[Main] = None
    /\ \E s \in toVisit :
        /\ Copy(s)
        /\ visited' = s
        /\ seen' = lastAccess[s]
        /\ toVisit' = toVisit \ {s}
    /\ UNCHANGED <<data, lastAccess, clock, sessions, mutex, workerVars, toDelete, jar, now, returned>>

BugExpiredEarly == now - seen >= ExpirationTime
Expired == now - seen > ExpirationTime

\* Erase the entry: the local handle keeps the data.
TimerErase ==
    /\ visited \in sessions /\ Expired
    /\ sessions' = sessions \ {visited}
    /\ Release(visited)
    /\ UNCHANGED <<data, lastAccess, clock, mutex, workerVars, toDelete, jar, timerVars, returned>>

\* The local handle goes out of scope.
TimerDrop ==
    /\ visited # None /\ (Expired => visited \notin sessions)
    /\ Release(visited)
    /\ toDelete' = [toDelete EXCEPT ![Main] = IF LastReference(visited) THEN visited ELSE None]
    /\ visited' = None /\ seen' = 0
    /\ UNCHANGED <<data, lastAccess, clock, sessions, mutex, workerVars, jar, now, toVisit, returned>>

TimerEnd ==
    /\ mutex = Main /\ toVisit = {} /\ visited = None /\ toDelete[Main] = None
    /\ mutex' = None
    /\ now' = 0
    /\ UNCHANGED <<sessionVars, clock, sessions, workerVars, toDelete, jar, toVisit, visited, seen, returned>>

-----------------------------------------------------------------------------
WorkerStep(t) ==
    \/ GetSessionId(t) \/ GetSession(t) \/ Touch(t) \/ CallPage(t) \/ AssignHandle(t)
    \/ RemoveSession(t) \/ DropHandle(t) \/ DeleteData(t) \/ EndRequest(t)

TimerStep == TimerVisit \/ TimerErase \/ TimerDrop \/ DeleteData(Main) \/ TimerEnd

Arrivals ==
    \E t \in Worker :
        (\E k \in Client : BeginRequest(t, k)) \/ (\E s \in Session : GetSessionById(t, s))

TimePasses == Tick /\ UNCHANGED <<sessionVars, sessions, mutex, workerVars, toDelete, jar, timerVars, returned>>

Next ==
    \/ Arrivals \/ (\E t \in Worker : WorkerStep(t))
    \/ TimerBegin \/ TimerStep \/ TimePasses

Spec == Init /\ [][Next]_vars

-----------------------------------------------------------------------------
(* Properties. *)

\* Every variable has its type.
TypeOK ==
    /\ data \in [Session -> Data]
    /\ refCount \in [Session -> Nat]
    /\ lastAccess \in [Session -> 0..MaxClock] /\ clock \in 0..MaxClock
    /\ sessions \subseteq Session
    /\ mutex \in {None, Main}
    /\ pc \in [Worker -> PC]
    /\ client \in [Worker -> Client \cup {None}]
    /\ reqCookie \in [Worker -> SessionOrNull]
    /\ respCookie \in [Worker -> SessionOrNull]
    /\ found \in [Worker -> SessionOrNull]
    /\ handles \in [Worker -> Seq(SessionOrNull)]
    /\ toDelete \in [Thread -> SessionOrNull]
    /\ jar \in [Client -> SessionOrNull]
    /\ now \in 0..MaxClock /\ toVisit \subseteq Session
    /\ visited \in SessionOrNull /\ seen \in 0..MaxClock
    /\ returned \in [Session -> 0..MaxClock]

\* The HttpSession objects that point to the data of s: those on the stacks of
\* the workers, the one in the map, the local one of the timer event.
References(s) ==
    {p \in Worker \X (1..MaxCalls) : p[2] <= Len(handles[p[1]]) /\ handles[p[1]][p[2]] = s}
    \cup (IF s \in sessions THEN {<<"map", 0>>} ELSE {})
    \cup (IF visited = s THEN {<<"timer", 0>>} ELSE {})

\* refCount is the number of handles, at every interleaving of copies,
\* assignments and destructors (httpsession.cpp:36, 51, 62, 81).
RefCountIsExact == \A s \in Session : refCount[s] = Cardinality(References(s))

\* A handle's data has not been deleted, and data is deleted only once
\* (httpsession.cpp:70, 89).
NoUseAfterDelete ==
    /\ \A s \in Session : References(s) # {} => data[s] = "alive"
    /\ \A t, u \in Thread : toDelete[t] # None =>
        /\ data[toDelete[t]] = "alive" /\ References(toDelete[t]) = {}
        /\ t # u => toDelete[t] # toDelete[u]

\* Data nobody has a handle to is being deleted: no session data is leaked.
NoLeak ==
    \A s \in Session : data[s] = "alive" /\ References(s) = {} =>
        \E t \in Thread : toDelete[t] = s

\* All getSession() calls of one request answer the same session, unless it has
\* been erased in between; in particular a request without a cookie does not
\* create one session for service() and another for the page.
OneSessionPerRequest ==
    \A t \in Worker :
        client[t] # None /\ Len(handles[t]) = 2 /\ handles[t][1] \in sessions
            => handles[t][2] = handles[t][1]

\* sessionTimerEvent() erases a session only if getSession() has not returned
\* it for expirationTime, or returned it while the event was running
\* (httpsessionstore.cpp:67-68, 111).
ExpiresWhenUnused ==
    [][\A s \in sessions \ sessions' : mutex = Main =>
        now - returned[s] > ExpirationTime \/ returned[s] >= now]_vars
=============================================================================
