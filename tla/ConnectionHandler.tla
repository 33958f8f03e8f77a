------------------------- MODULE ConnectionHandler -------------------------
(***************************************************************************)
(* HttpConnectionHandler: an object with a thread, a socket and a read     *)
(* timer of its own, which serves one TCP connection at a time and is      *)
(* reused for the next one (httpconnectionhandler.cpp).                    *)
(*                                                                         *)
(* The actions of this module are the steps of the handler's thread (its   *)
(* event loop calls handleConnection(), read(), readTimeout(),             *)
(* disconnected() and thread_done()) and the steps of the peers.  The main *)
(* thread, which hands connections to the handlers and deletes them, is in *)
(* HttpListener, which extends this module.                                *)
(*                                                                         *)
(* A step runs up to the next point at which another thread or the peer    *)
(* can tell the difference: the call of service(), the wait for the        *)
(* output buffer, the return to the event loop.  The bytes of a request    *)
(* are abstracted to pieces; what a piece completes is chosen when it is   *)
(* read.                                                                   *)
(***************************************************************************)
EXTENDS Naturals, Sequences, FiniteSets

CONSTANTS
    Conn,       \* the TCP connections clients open
    Handler,    \* the addresses of HttpConnectionHandler objects
    None,       \* no connection
    Unusable,   \* connections whose descriptor setSocketDescriptor() refuses
    MaxPieces   \* bound: the pieces a client sends on one connection

ASSUME UnusableAssumption == Unusable \subseteq Conn
ASSUME NoneAssumption == None \notin Conn
ASSUME MaxPiecesAssumption == MaxPieces \in Nat

VARIABLES
    \* one value per handler object
    pc,         \* where its thread is
    busy,       \* the flag isBusy() returns
    inbox,      \* the posted handleConnection events
    sock,       \* the connection its socket holds
    timer,      \* is the read timer running?
    expired,    \* is readTimeout() on the stack, waiting for the output?
    request,    \* the connections whose bytes currentRequest has collected
    doomed,     \* the handlers the main thread is deleting, the first of them
                \* told to quit()
    \* one value per connection
    status,     \* what became of it
    unread,     \* pieces sent and not read yet
    sent,       \* pieces sent
    hungup      \* has the client closed it?

handlerVars == <<pc, busy, inbox, sock, timer, expired, request>>
connVars == <<status, unread, sent, hungup>>

PC == {"loop", "service", "flush", "ended"}
Status == {"outside", "queued", "open", "stuck", "closed", "dropped", "refused"}

HandlerTypeOK ==
    /\ pc \in [Handler -> PC]
    /\ busy \in [Handler -> BOOLEAN]
    /\ inbox \in [Handler -> Seq(Conn)]
    /\ sock \in [Handler -> Conn \cup {None}]
    /\ timer \in [Handler -> BOOLEAN]
    /\ expired \in [Handler -> BOOLEAN]
    /\ request \in [Handler -> SUBSET Conn]
    /\ doomed \in Seq(Handler)

PeerTypeOK ==
    /\ status \in [Conn -> Status]
    /\ unread \in [Conn -> Nat]
    /\ sent \in [Conn -> 0..MaxPieces]
    /\ hungup \in [Conn -> BOOLEAN]

(***************************************************************************)
(* The object before its construction and after its destruction.  What the *)
(* destructor does not delete is left: a request half read.                *)
(***************************************************************************)
Pristine(h) ==
    /\ pc[h] = "ended"
    /\ ~busy[h] /\ ~timer[h] /\ ~expired[h]
    /\ inbox[h] = <<>> /\ sock[h] = None

HandlerInit ==
    /\ pc = [h \in Handler |-> "ended"]
    /\ busy = [h \in Handler |-> FALSE]
    /\ inbox = [h \in Handler |-> <<>>]
    /\ sock = [h \in Handler |-> None]
    /\ timer = [h \in Handler |-> FALSE]
    /\ expired = [h \in Handler |-> FALSE]
    /\ request = [h \in Handler |-> {}]
    /\ doomed = <<>>

PeerInit ==
    /\ status = [c \in Conn |-> "outside"]
    /\ unread = [c \in Conn |-> 0]
    /\ sent = [c \in Conn |-> 0]
    /\ hungup = [c \in Conn |-> FALSE]

-----------------------------------------------------------------------------
(* The clients. *)

\* The bytes wait in the kernel while the connection is queued.
Send(c) ==
    /\ status[c] \in {"queued", "open"} /\ ~hungup[c]
    /\ sent[c] < MaxPieces
    /\ sent' = [sent EXCEPT ![c] = @ + 1]
    /\ unread' = [unread EXCEPT ![c] = @ + 1]
    /\ UNCHANGED <<handlerVars, doomed, status, hungup>>

HangUp(c) ==
    /\ status[c] \in {"queued", "open"} /\ ~hungup[c]
    /\ hungup' = [hungup EXCEPT ![c] = TRUE]
    /\ UNCHANGED <<handlerVars, doomed, status, unread, sent>>

-----------------------------------------------------------------------------
(* The handler's thread. *)

InEventLoop(h) == pc[h] = "loop" /\ ~expired[h]

BugNeverQuitting(h) == FALSE
Quitting(h) == doomed # <<>> /\ h = Head(doomed)

\* "delete previous request" of handleConnection(): disconnected() leaves a
\* half-read request behind.
BugKeepRequest(h) == request' = request
DeletePreviousRequest(h) == request' = [request EXCEPT ![h] = {}]

(***************************************************************************)
(* handleConnection(): a connection that was open is aborted by connect    *)
(* and abort; when setSocketDescriptor() fails the slot returns at once,   *)
(* with the handler marked busy and no timer started.                      *)
(***************************************************************************)
HandleConnection(h) ==
    /\ InEventLoop(h) /\ inbox[h] # <<>>
    /\ inbox' = [inbox EXCEPT ![h] = Tail(@)]
    /\ busy' = [busy EXCEPT ![h] = TRUE]
    /\ LET c == Head(inbox[h]) IN
         \/ /\ c \in Unusable
            /\ sock' = [sock EXCEPT ![h] = None]
            /\ status' = [status EXCEPT ![c] = "stuck"]
            /\ UNCHANGED <<timer, request>>
         \/ /\ c \notin Unusable
            /\ sock' = [sock EXCEPT ![h] = c]
            /\ status' = [status EXCEPT ![c] = "open"]
            /\ timer' = [timer EXCEPT ![h] = TRUE]
            /\ DeletePreviousRequest(h)
    /\ UNCHANGED <<pc, expired, doomed, unread, sent, hungup>>

\* disconnected(): QAbstractSocket emits the signal once per connection.
BugStayBusy(h) == busy' = busy
FreeHandler(h) == busy' = [busy EXCEPT ![h] = FALSE]
Disconnected(h) ==
    /\ sock' = [sock EXCEPT ![h] = None]
    /\ status' = [status EXCEPT ![sock[h]] = "closed"]
    /\ timer' = [timer EXCEPT ![h] = FALSE]
    /\ FreeHandler(h)

\* disconnectFromHost() with nothing left to write calls the slot directly.
DisconnectFromHost(h) ==
    \/ sock[h] # None /\ Disconnected(h)
    \/ sock[h] = None /\ UNCHANGED <<sock, status, timer, busy>>

\* The socket finds out that the peer is gone: in the event loop, or nested in
\* a write of service() or in a wait for the output buffer.
PeerGone(h) ==
    /\ pc[h] # "ended"
    /\ sock[h] # None /\ hungup[sock[h]]
    /\ Disconnected(h)
    /\ UNCHANGED <<pc, inbox, expired, request, doomed, unread, sent, hungup>>

BugNoTimer(h) == timer' = timer
StartTimer(h) == timer' = [timer EXCEPT ![h] = TRUE]

\* read() up to the point where the input is used up or a request is decided.
\* The outcomes are the states of HttpRequest: header incomplete, body
\* incomplete (which restarts the timer), complete, too large.
Read(h) ==
    /\ pc[h] = "loop" /\ sock[h] # None /\ unread[sock[h]] > 0
    /\ unread' = [unread EXCEPT ![sock[h]] = @ - 1]
    /\ request' = [request EXCEPT ![h] = @ \cup {sock[h]}]
    /\ \/ UNCHANGED <<pc, timer>>
       \/ StartTimer(h) /\ UNCHANGED pc
       \/ timer' = [timer EXCEPT ![h] = FALSE] /\ pc' = [pc EXCEPT ![h] = "service"]
       \/ pc' = [pc EXCEPT ![h] = "flush"] /\ UNCHANGED timer
    /\ UNCHANGED <<busy, inbox, sock, expired, doomed, status, sent, hungup>>

\* service() has returned and the last part is written: the connection is
\* closed (header of the request or of the response, or a response without
\* length) or kept for the next request, with the timer running again.
KeepAlive(h) ==
    /\ StartTimer(h)
    /\ pc' = [pc EXCEPT ![h] = "loop"]
    /\ request' = [request EXCEPT ![h] = {}]

Respond(h) ==
    /\ pc[h] = "service"
    /\ \/ KeepAlive(h)
       \/ pc' = [pc EXCEPT ![h] = "flush"] /\ UNCHANGED <<timer, request>>
    /\ UNCHANGED <<busy, inbox, sock, expired, doomed, connVars>>

\* The output buffer is empty: close, delete the request.
Flushed(h) ==
    /\ pc[h] = "flush"
    /\ DisconnectFromHost(h)
    /\ pc' = [pc EXCEPT ![h] = "loop"]
    /\ request' = [request EXCEPT ![h] = {}]
    /\ UNCHANGED <<inbox, expired, doomed, unread, sent, hungup>>

\* readTimeout() up to its wait for the output buffer.  The wait can read and
\* serve another request (a nested read()) or notice that the peer is gone.
ReadTimeout(h) ==
    /\ InEventLoop(h) /\ timer[h]
    /\ timer' = [timer EXCEPT ![h] = FALSE]
    /\ expired' = [expired EXCEPT ![h] = TRUE]
    /\ UNCHANGED <<pc, busy, inbox, sock, request, doomed, connVars>>

ReadTimeoutFlushed(h) ==
    /\ pc[h] = "loop" /\ expired[h]
    /\ DisconnectFromHost(h)
    /\ expired' = [expired EXCEPT ![h] = FALSE]
    /\ request' = [request EXCEPT ![h] = {}]
    /\ UNCHANGED <<pc, inbox, doomed, unread, sent, hungup>>

\* quit() has been called: the event loop ends after the event in hand, and
\* thread_done() closes the socket.
ThreadDone(h) ==
    /\ InEventLoop(h) /\ Quitting(h)
    /\ pc' = [pc EXCEPT ![h] = "ended"]
    /\ timer' = [timer EXCEPT ![h] = FALSE]
    /\ \/ sock[h] # None /\ Disconnected(h)
       \/ sock[h] = None /\ UNCHANGED <<sock, status, busy>>
    /\ UNCHANGED <<inbox, expired, request, doomed, unread, sent, hungup>>

Worker(h) ==
    \/ HandleConnection(h) \/ PeerGone(h) \/ Read(h) \/ Respond(h)
    \/ Flushed(h) \/ ReadTimeout(h) \/ ReadTimeoutFlushed(h) \/ ThreadDone(h)
=============================================================================
