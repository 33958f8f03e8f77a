--------------------------- MODULE RequestMapper ---------------------------
(***************************************************************************)
(* RequestMapper::service() and the three pages behind it: ObjectsList     *)
(* (/objects), ShiftsList (/shifts) and ShiftReports (/report).            *)
(*                                                                         *)
(* There is one object of each class, and the threads of all connection    *)
(* handlers call it.  Their member variables, which carry the user, the    *)
(* object, the shift and the query results from one function to the next,  *)
(* are therefore shared; the session is the client's own and locked        *)
(* (HttpSessionStore).  A step goes up to the next use of shared state.    *)
(*                                                                         *)
(* Ids stand for the data found with them: a query result is the user,     *)
(* object or (database, terminal, shift) it was asked for.                 *)
(***************************************************************************)
EXTENDS Naturals

CONSTANTS
    Thread,     \* the handlers' threads that call service()
    Client,     \* the browsers, each with its session
    User,       \* the rows of clientusers
    Object,     \* the rows of objects
    Shift,      \* the shifts of every object
    None,       \* the id 0: not logged in, or nothing set
    MaxRequests \* bound: the requests that are served

ASSUME NoneAssumption == None \notin User \cup Object \cup Shift
ASSUME MaxRequestsAssumption == MaxRequests \in Nat

VARIABLES
    userID,     \* RequestMapper::userID
    session,    \* the values of every client's session
    list,       \* ObjectsList: userID, model
    shifts,     \* ShiftsList: objectID, dbObj, termData, model
    report,     \* ShiftReports: objectID, shiftID, terminalID, dbObj, models
    azs,        \* the objects whose connection "azs<id>" is registered
    at,         \* where each thread is
    req,        \* the request it serves
    row,        \* the row its query has found
    opened,     \* has its object's database been opened?
    page,       \* what the page it has written shows
    requests,   \* requests received (bounded by MaxRequests)
    crashed,    \* has the program used a model that was never created?
    disturbed,  \* history: the threads whose request was not alone with its members
    mixed       \* history: have two lists of shifts ever been made at once?

history == <<disturbed, mixed>>
members == <<userID, session, list, shifts, report, azs>>
locals == <<row, opened, page>>
vars == <<members, locals, at, req, requests, crashed, history>>

\* The forms of docroot/ and a page that is loaded again without its form.  A
\* login is the user its name and password belong to, None if there is none.
Login == {[path |-> "/objects", named |-> TRUE, user |-> u] : u \in User \cup {None}}
Request ==
    Login \cup {[path |-> "/objects", named |-> FALSE], [path |-> "/login.html", named |-> FALSE]}
          \cup {[path |-> "/shifts", named |-> FALSE, object |-> o] : o \in Object \cup {None}}
          \cup {[path |-> "/report", named |-> FALSE, shift |-> s] : s \in Shift \cup {None}}

\* What a query of the report is about.
Subject(db, terminal, shift) == [db |-> db, terminal |-> terminal, shift |-> shift]
Blank == Subject(None, None, None)

InObjects == {"store", "objects", "clientName", "objectsModel", "objectsPage"}
InShifts == {"shifts", "shiftsQuery", "shiftsOpen", "shiftsModel", "shiftsPage"}
InReport == {"report", "reportQuery", "reportOpen", "reportModels", "reportPage"}

UserOrNone == User \cup {None}
ObjectOrNone == Object \cup {None}
ShiftOrNone == Shift \cup {None}
Subjects == [db : ObjectOrNone, terminal : ObjectOrNone, shift : ShiftOrNone]
Received == [client : Client, request : Request]
Page ==
    [name : UserOrNone, rows : UserOrNone] \cup [head : ObjectOrNone, rows : ObjectOrNone]
    \cup [models : Subjects, tables : Subjects, chosen : ObjectOrNone]

TypeOK ==
    /\ userID \in UserOrNone
    /\ session \in [Client -> [user : UserOrNone, object : ObjectOrNone, shift : ShiftOrNone]]
    /\ list \in [userID : UserOrNone, model : UserOrNone]
    /\ shifts \in [objectID : ObjectOrNone, dbObj : ObjectOrNone, termData : ObjectOrNone, model : ObjectOrNone]
    /\ report \in [objectID : ObjectOrNone, shiftID : ShiftOrNone, terminalID : ObjectOrNone,
                   dbObj : ObjectOrNone, models : Subjects]
    /\ azs \subseteq Object
    /\ at \in [Thread -> {"idle", "login", "dispatch"} \cup InObjects \cup InShifts \cup InReport]
    /\ req \in [Thread -> Received \cup {None}]
    /\ row \in [Thread -> User \cup Object \cup {None}] /\ opened \in [Thread -> BOOLEAN]
    /\ page \in [Thread -> Page \cup {None}]
    /\ requests \in 0..MaxRequests /\ crashed \in BOOLEAN
    /\ disturbed \subseteq Thread /\ mixed \in BOOLEAN

Init ==
    /\ userID = None
    /\ session = [c \in Client |-> [user |-> None, object |-> None, shift |-> None]]
    /\ list = [userID |-> None, model |-> None]
    /\ shifts = [objectID |-> None, dbObj |-> None, termData |-> None, model |-> None]
    /\ report = [objectID |-> None, shiftID |-> None, terminalID |-> None, dbObj |-> None,
                 models |-> Blank]
    /\ azs = {}
    /\ at = [t \in Thread |-> "idle"] /\ req = [t \in Thread |-> None]
    /\ row = [t \in Thread |-> None] /\ opened = [t \in Thread |-> FALSE]
    /\ page = [t \in Thread |-> None]
    /\ requests = 0 /\ crashed = FALSE
    /\ disturbed = {} /\ mixed = FALSE

Goto(t, label) == at' = [at EXCEPT ![t] = label]
At(t, here, next) == at[t] = here /\ Goto(t, next) /\ UNCHANGED <<req, requests, history>>
Asked(t) == req[t].request
\* HttpSession::get() and set(): the values of the client that is served.
Session(t) == session[req[t].client]
SessionSet(t, key, value) == session' = [session EXCEPT ![req[t].client][key] = value]

-----------------------------------------------------------------------------
(* RequestMapper. *)

\* A list of objects or of shifts and a report write what others of their kind
\* read; a list of shifts also chooses the object of the session, and closes
\* the database a report may have open.
Disturbs(path, other) == path = other \/ (path = "/shifts" /\ other = "/report")
Serves(t, path) == at[t] # "idle" /\ Asked(t).path = path

\* History: who is no longer alone with its members once t serves r.
Overlap(t, r) ==
    /\ disturbed' = {u \in Thread :
           IF u = t THEN \E v \in Thread \ {t} : at[v] # "idle" /\ Disturbs(Asked(v).path, r.path)
           ELSE u \in disturbed \/ (at[u] # "idle" /\ Disturbs(r.path, Asked(u).path))}
    /\ mixed' = (mixed \/ (r.path = "/shifts" /\ \E u \in Thread \ {t} : Serves(u, "/shifts")))

Receive(t) ==
    /\ at[t] = "idle" /\ requests < MaxRequests
    /\ \E c \in Client, r \in Request :
           req' = [req EXCEPT ![t] = [client |-> c, request |-> r]] /\ Overlap(t, r)
    /\ row' = [row EXCEPT ![t] = None] /\ opened' = [opened EXCEPT ![t] = FALSE]
    /\ page' = [page EXCEPT ![t] = None]
    /\ requests' = requests + 1
    /\ Goto(t, "login")
    /\ UNCHANGED members

BugLoginOnce(t) == Asked(t).named /\ userID = None
LogsIn(t) == Asked(t).named

GetUserID(t) ==
    /\ At(t, "login", "dispatch")
    /\ userID' = IF LogsIn(t) THEN Asked(t).user ELSE userID
    /\ UNCHANGED <<session, list, shifts, report, azs, locals>>

BugNoObjectTest(t) == TRUE
HasObject(t) == Asked(t).object # None

\* The tests of the path.  The id of an object or a shift goes to the session.
Dispatch(t) ==
    /\ at[t] = "dispatch"
    /\ \/ /\ Asked(t).path = "/objects" /\ userID # None
          /\ Goto(t, "store") /\ UNCHANGED session
       \/ /\ Asked(t).path = "/shifts" /\ HasObject(t)
          /\ SessionSet(t, "object", Asked(t).object)
          /\ Goto(t, "shifts")
       \/ /\ Asked(t).path = "/report" /\ Asked(t).shift # None
          /\ SessionSet(t, "shift", Asked(t).shift)
          /\ Goto(t, "report")
    /\ UNCHANGED <<userID, list, shifts, report, azs, locals, req, requests, history>>

\* The login page, or 404.
OtherAnswer(t) ==
    /\ At(t, "dispatch", "idle")
    /\ \/ Asked(t).path = "/login.html"
       \/ Asked(t).path = "/objects" /\ userID = None
       \/ Asked(t).path = "/shifts" /\ ~HasObject(t)
       \/ Asked(t).path = "/report" /\ Asked(t).shift = None
    /\ UNCHANGED <<members, locals>>

\* session.set("userID",userID) reads the member again.
StoreUser(t) ==
    /\ At(t, "store", "objects")
    /\ SessionSet(t, "user", userID)
    /\ UNCHANGED <<userID, list, shifts, report, azs, locals>>

-----------------------------------------------------------------------------
(* ObjectsList. *)

ListSession(t) ==
    /\ At(t, "objects", "clientName")
    /\ list' = [list EXCEPT !.userID = Session(t).user]
    /\ UNCHANGED <<userID, session, shifts, report, azs, locals>>

ClientName(t) ==
    /\ At(t, "clientName", "objectsModel")
    /\ row' = [row EXCEPT ![t] = list.userID]
    /\ UNCHANGED <<members, opened, page>>

CreateModels(t) ==
    /\ At(t, "objectsModel", "objectsPage")
    /\ list' = [list EXCEPT !.model = list.userID]
    /\ UNCHANGED <<userID, session, shifts, report, azs, locals>>

ObjectsPage(t) ==
    /\ At(t, "objectsPage", "idle")
    /\ page' = [page EXCEPT ![t] = [name |-> row[t], rows |-> list.model]]
    /\ UNCHANGED <<members, row, opened>>

-----------------------------------------------------------------------------
(* ShiftsList. *)

ShiftsSession(t) ==
    /\ At(t, "shifts", "shiftsQuery")
    /\ shifts' = [shifts EXCEPT !.objectID = Session(t).object]
    /\ UNCHANGED <<userID, session, list, report, azs, locals>>

\* openObjectDB(): the query for the object's database; if it fails, the page
\* is made of whatever an earlier request has left.
ShiftsQuery(t) ==
    /\ \/ At(t, "shiftsQuery", "shiftsOpen") /\ row' = [row EXCEPT ![t] = shifts.objectID]
       \/ At(t, "shiftsQuery", "shiftsPage") /\ UNCHANGED row
    /\ UNCHANGED <<members, opened, page>>

\* addDatabase() registers the connection or replaces it, which disables the
\* copies of the old one, and open() fails or succeeds.
ShiftsOpen(t) ==
    /\ \/ At(t, "shiftsOpen", "shiftsModel") /\ opened' = [opened EXCEPT ![t] = TRUE]
       \/ At(t, "shiftsOpen", "shiftsPage") /\ UNCHANGED opened
    /\ azs' = azs \cup {shifts.objectID}
    /\ shifts' = [shifts EXCEPT !.dbObj = row[t]]
    /\ report' = [report EXCEPT !.dbObj = IF @ = shifts.objectID THEN None ELSE @]
    /\ UNCHANGED <<userID, session, list, row, page>>

\* termData.clear() and three append(): without the clear() the page would go
\* on to show the first object it was made for.
BugNoClear(t) == IF shifts.termData = None THEN row[t] ELSE shifts.termData
TermData(t) == row[t]

ShiftsModel(t) ==
    /\ At(t, "shiftsModel", "shiftsPage")
    /\ shifts' = [shifts EXCEPT !.termData = TermData(t), !.model = shifts.dbObj]
    /\ UNCHANGED <<userID, session, list, report, azs, locals>>

ShiftsPage(t) ==
    /\ At(t, "shiftsPage", "idle") /\ shifts.model # None
    /\ page' = [page EXCEPT ![t] = [head |-> shifts.termData, rows |-> shifts.model]]
    /\ UNCHANGED <<members, row, opened>>

-----------------------------------------------------------------------------
(* ShiftReports. *)

BugOldShift(t) == IF report.shiftID = None THEN Session(t).shift ELSE report.shiftID
ShiftID(t) == Session(t).shift

ReportSession(t) ==
    /\ At(t, "report", "reportQuery")
    /\ report' = [report EXCEPT !.objectID = Session(t).object, !.shiftID = ShiftID(t)]
    /\ UNCHANGED <<userID, session, list, shifts, azs, locals>>

ReportQuery(t) ==
    /\ \/ /\ At(t, "reportQuery", "reportOpen")
          /\ row' = [row EXCEPT ![t] = report.objectID]
          /\ report' = [report EXCEPT !.terminalID = report.objectID]
       \/ At(t, "reportQuery", "reportPage") /\ UNCHANGED <<row, report>>
    /\ UNCHANGED <<userID, session, list, shifts, azs, opened, page>>

\* QSqlDatabase::database() finds only a connection ShiftsList has registered.
ReportOpen(t) ==
    /\ \/ /\ At(t, "reportOpen", "reportModels")
          /\ report.objectID \in azs
          /\ opened' = [opened EXCEPT ![t] = TRUE]
          /\ report' = [report EXCEPT !.dbObj = row[t]]
       \/ /\ At(t, "reportOpen", "reportPage") /\ UNCHANGED opened
          /\ report' = [report EXCEPT !.dbObj = IF report.objectID \in azs THEN row[t] ELSE None]
    /\ UNCHANGED <<userID, session, list, shifts, azs, row, page>>

Current == Subject(report.dbObj, report.terminalID, report.shiftID)

\* The counters, payment types, fuels, deliveries and tanks of the shift.
ReportModels(t) ==
    /\ At(t, "reportModels", "reportPage")
    /\ report' = [report EXCEPT !.models = Current]
    /\ UNCHANGED <<userID, session, list, shifts, azs, locals>>

\* tablePaytypeSale() and tableCashData() query while the page is rendered.
ReportPage(t) ==
    /\ At(t, "reportPage", "idle") /\ report.models # Blank
    /\ page' = [page EXCEPT ![t] = [models |-> report.models, tables |-> Current,
                                     chosen |-> Session(t).object]]
    /\ UNCHANGED <<members, row, opened>>

-----------------------------------------------------------------------------
Service(t) ==
    \/ Receive(t) \/ GetUserID(t) \/ Dispatch(t) \/ OtherAnswer(t) \/ StoreUser(t)
    \/ ListSession(t) \/ ClientName(t) \/ CreateModels(t) \/ ObjectsPage(t)
    \/ ShiftsSession(t) \/ ShiftsQuery(t) \/ ShiftsOpen(t) \/ ShiftsModel(t) \/ ShiftsPage(t)
    \/ ReportSession(t) \/ ReportQuery(t) \/ ReportOpen(t) \/ ReportModels(t) \/ ReportPage(t)

\* The pages do not ask whether openObjectDB() succeeded: before its first
\* success their models are uninitialised pointers.
Crash(t) ==
    /\ \/ at[t] = "shiftsPage" /\ shifts.model = None
       \/ at[t] = "reportPage" /\ report.models = Blank
    /\ crashed' = TRUE
    /\ UNCHANGED <<members, locals, at, req, requests, history>>

Next ==
    /\ ~crashed
    /\ \E t \in Thread : (Service(t) /\ UNCHANGED crashed) \/ Crash(t)

Spec == Init /\ [][Next]_vars

-----------------------------------------------------------------------------
(***************************************************************************)
(* Properties.  The handlers' threads serve requests at the same time.  Of *)
(* a request that had the members of its page to itself (it is not         *)
(* disturbed), whatever the other threads did meanwhile, the properties    *)
(* require the right page; ThreadSafeObjects and ThreadSafeReports require *)
(* it of every request, as the documentation does.                         *)
(***************************************************************************)
Wrote(t, path) == at[t] = "idle" /\ page[t] # None /\ Asked(t).path = path

ObjectsShown(t) ==
    Wrote(t, "/objects") /\ Asked(t).named =>
        page[t] = [name |-> Asked(t).user, rows |-> Asked(t).user]

\* The answer to a login shows the name and the objects of the user who logged
\* in, whoever was logged in before and whatever the threads that make other
\* pages do (requestmapper.cpp:28-42).
ObjectsOfCaller == \A t \in Thread \ disturbed : ObjectsShown(t)

HeadOfRows(t) == Wrote(t, "/shifts") => page[t].head = page[t].rows
ShiftsShown(t) ==
    Wrote(t, "/shifts") /\ opened[t] =>
        page[t] = [head |-> Asked(t).object, rows |-> Asked(t).object]

\* The head and the rows of a list of shifts belong to the object asked for if
\* its database could be opened, and to one object even if it could not: what
\* an earlier request has left is of one object as long as no two lists of
\* shifts have been made at once (shiftslist.cpp:59-91).
ShiftsOfCaller ==
    /\ ~mixed => \A t \in Thread : HeadOfRows(t)
    /\ \A t \in Thread \ disturbed : ShiftsShown(t)

ReportShown(t) ==
    Wrote(t, "/report") /\ opened[t] =>
        /\ page[t].models = page[t].tables
        /\ page[t].models = Subject(page[t].chosen, page[t].chosen, Asked(t).shift)

\* If the object's database was opened, every part of a report is about the
\* shift asked for and about the object chosen in the same session
\* (shiftreports.cpp:31-119).
ReportOfCaller == \A t \in Thread \ disturbed : ReportShown(t)

\* service() "must be thread safe" (httprequesthandler.h:45): every login is
\* answered with the objects of its own user, whatever other threads serve.
ThreadSafeObjects == \A t \in Thread : ObjectsShown(t)

\* So is every report: what was queried before the page and what is queried for
\* its tables is about one shift and one object, whatever other threads serve
\* (httprequesthandler.h:45, shiftreports.cpp:31-119).
ThreadSafeReports ==
    \A t \in Thread : Wrote(t, "/report") /\ opened[t] => page[t].models = page[t].tables

-----------------------------------------------------------------------------
(***************************************************************************)
(* The inductive invariants behind the properties: RequestOK of every      *)
(* thread behind TypeOK; Overlaps, HeadOK and ServiceOK of every thread    *)
(* that is not disturbed behind the rest (RequestMapper_proofs).           *)
(***************************************************************************)
RequestOK(t) ==
    /\ at[t] # "idle" => req[t] \in Received
    /\ at[t] \in InObjects => Asked(t).path = "/objects"
    /\ at[t] \in InShifts => Asked(t).path = "/shifts" /\ Session(t).object # None
    /\ at[t] \in InShifts \ {"shifts"} => shifts.objectID # None
    /\ at[t] \in InReport => Asked(t).path = "/report"
    /\ at[t] \in {"objectsModel", "objectsPage"} => row[t] \in UserOrNone
    /\ at[t] \in {"shiftsOpen", "shiftsModel", "reportOpen"} => row[t] \in ObjectOrNone

TypeInv == TypeOK /\ \A t \in Thread : RequestOK(t)

\* Two threads that are in each other's way know it.
Overlaps ==
    /\ \A t, u \in Thread :
           t # u /\ at[t] # "idle" /\ at[u] # "idle" /\ Disturbs(Asked(u).path, Asked(t).path) =>
               t \in disturbed
    /\ \A t \in disturbed : Serves(t, "/shifts") => mixed

HeadOK == ~mixed => shifts.termData = shifts.model

\* What an undisturbed thread finds in the members it has set.
ListOK(t) ==
    at[t] # "idle" /\ Asked(t).named =>
        /\ at[t] \in {"dispatch", "store"} => userID = Asked(t).user
        /\ at[t] = "objects" => Session(t).user = Asked(t).user
        /\ at[t] \in {"clientName", "objectsModel", "objectsPage"} => list.userID = Asked(t).user
        /\ at[t] \in {"objectsModel", "objectsPage"} => row[t] = Asked(t).user
        /\ at[t] = "objectsPage" => list.model = Asked(t).user

ShiftsOK(t) ==
    /\ at[t] \in InShifts => Session(t).object = Asked(t).object
    /\ at[t] \in InShifts \ {"shifts"} => shifts.objectID = Asked(t).object
    /\ at[t] \in {"shiftsOpen", "shiftsModel"} => row[t] = Asked(t).object
    /\ at[t] = "shiftsModel" => shifts.dbObj = row[t]
    /\ at[t] = "shiftsPage" /\ opened[t] =>
           shifts.termData = Asked(t).object /\ shifts.model = Asked(t).object

ReportOK(t) ==
    /\ at[t] \in InReport => Session(t).shift = Asked(t).shift
    /\ at[t] \in InReport \ {"report"} =>
           report.objectID = Session(t).object /\ report.shiftID = Asked(t).shift
    /\ at[t] \in {"reportOpen", "reportModels"} =>
           row[t] = report.objectID /\ report.terminalID = report.objectID
    /\ at[t] = "reportModels" => report.dbObj = row[t]
    /\ at[t] = "reportPage" /\ opened[t] =>
           report.models = Current /\ Current = Subject(Session(t).object, Session(t).object, Asked(t).shift)

\* The page of a request is empty until its last step.
Unfinished(t) ==
    /\ opened[t] => at[t] \in {"idle", "shiftsModel", "shiftsPage", "reportModels", "reportPage"}
    /\ at[t] # "idle" => page[t] = None

ServiceOK(t) == ListOK(t) /\ ShiftsOK(t) /\ ReportOK(t)

IndInv ==
    /\ TypeInv /\ Overlaps /\ HeadOK
    /\ \A t \in Thread : Unfinished(t)
    /\ \A t \in Thread \ disturbed : ServiceOK(t)
    /\ ObjectsOfCaller /\ ShiftsOfCaller /\ ReportOfCaller
=============================================================================
