------------------------ MODULE RequestMapper_proofs ------------------------
(***************************************************************************)
(* RequestMapper and its pages, for any number of threads: the types, and  *)
(* that a page shows what its caller asked for.                            *)
(***************************************************************************)
EXTENDS RequestMapper, TLAPS

-----------------------------------------------------------------------------
(* Types and requests. *)

Label == {"idle", "login", "dispatch"} \cup InObjects \cup InShifts \cup InReport

\* A step of one thread that takes no object away from a session or from ShiftsList.
LEMMA OneServes ==
  ASSUME TypeInv, NEW t \in Thread, NEW here \in Label, Goto(t, here),
         \A u \in Thread \ {t} : req'[u] = req[u] /\ row'[u] = row[u],
         \A c \in Client : session[c].object # None => session'[c].object # None,
         shifts.objectID # None => shifts'.objectID # None,
         TypeOK', RequestOK(t)'
  PROVE  TypeInv' /\ at'[t] = here
  <1>1. at'[t] = here /\ \A u \in Thread \ {t} : at'[u] = at[u]
    BY DEF TypeInv, TypeOK, Goto
  <1>2. ASSUME NEW u \in Thread \ {t} PROVE RequestOK(u)'
    <2>1. /\ at'[u] = at[u] /\ req'[u] = req[u] /\ row'[u] = row[u] /\ RequestOK(u)
      BY <1>1 DEF TypeInv
    <2>2. at[u] \in InShifts => Session(u)'.object # None
      <3>1. at[u] \in InShifts => req[u].client \in Client /\ Session(u).object # None
        BY <2>1 DEF RequestOK, Received, InShifts
      <3> QED
        BY <2>1, <3>1 DEF Session
    <2> QED
      BY <2>1, <2>2 DEF RequestOK, Asked
  <1> QED
    BY <1>1, <1>2 DEF TypeInv

\* The types after each step of service() and of the pages.
LEMMA ReceiveTypes == ASSUME TypeInv, NEW t \in Thread, Receive(t), UNCHANGED crashed PROVE TypeInv'
  <1>1. PICK r \in Received : req' = [req EXCEPT ![t] = r]
    <2>1. PICK c \in Client, q \in Request : req' = [req EXCEPT ![t] = [client |-> c, request |-> q]]
      BY DEF Receive
    <2>2. [client |-> c, request |-> q] \in Received
      BY DEF Received
    <2> QED
      BY <2>1, <2>2
  <1>2. Goto(t, "login") /\ UNCHANGED members /\ "login" \in Label
    BY DEF Receive, Label
  <1>3. requests' \in 0..MaxRequests
    BY MaxRequestsAssumption DEF TypeInv, TypeOK, Receive
  <1>4. disturbed' \subseteq Thread /\ mixed' \in BOOLEAN
    BY DEF Receive, Overlap
  <1>5. TypeOK'
    BY <1>1, <1>2, <1>3, <1>4 DEF TypeInv, TypeOK, Receive, members, Goto
  <1>6. at'[t] = "login" /\ req'[t] = r
    BY <1>1, <1>2 DEF TypeInv, TypeOK, Goto
  <1>7. RequestOK(t)'
    BY <1>6 DEF RequestOK, InObjects, InShifts, InReport
  <1> QED
    BY <1>1, <1>2, <1>5, <1>7, OneServes DEF Receive, members, TypeInv, TypeOK

LEMMA GetUserIDTypes == ASSUME TypeInv, NEW t \in Thread, GetUserID(t), UNCHANGED crashed PROVE TypeInv'
  <1>1. Goto(t, "dispatch") /\ at[t] = "login" /\ "dispatch" \in Label
        /\ UNCHANGED <<session, list, shifts, report, azs, row, opened, page, req, requests, crashed,
                       disturbed, mixed>>
    BY DEF GetUserID, At, locals, Label, history
  <1>2. req[t] \in Received
    BY <1>1 DEF TypeInv, RequestOK
  <1>3. userID' \in UserOrNone
    <2>1. ASSUME Asked(t).named PROVE Asked(t).user \in UserOrNone
      BY <1>2, <2>1 DEF Asked, Received, Request, Login, UserOrNone
    <2> QED
      BY <2>1 DEF GetUserID, LogsIn, TypeInv, TypeOK
  <1>4. TypeOK'
    BY <1>1, <1>3 DEF TypeInv, TypeOK, Goto
  <1>5. RequestOK(t)'
    BY <1>1, <1>2 DEF RequestOK, InObjects, InShifts, InReport, TypeInv, TypeOK, Goto
  <1> QED
    BY <1>1, <1>4, <1>5, OneServes

LEMMA DispatchTypes == ASSUME TypeInv, NEW t \in Thread, Dispatch(t), UNCHANGED crashed PROVE TypeInv'
  <1>1. at[t] = "dispatch"
        /\ UNCHANGED <<userID, list, shifts, report, azs, row, opened, page, req, requests, crashed,
                       disturbed, mixed>>
    BY DEF Dispatch, locals, history
  <1>2. req[t] \in Received
    BY <1>1 DEF TypeInv, RequestOK
  <1>3. CASE Asked(t).path = "/objects"
    <2>1. Goto(t, "store") /\ UNCHANGED session /\ "store" \in Label
      BY <1>3 DEF Dispatch, Label, InObjects
    <2>2. TypeOK'
      BY <1>1, <2>1 DEF TypeInv, TypeOK, Goto, InObjects
    <2>3. RequestOK(t)'
      BY <1>1, <1>2, <1>3, <2>1 DEF RequestOK, InObjects, InShifts, InReport, TypeInv, TypeOK, Goto, Asked
    <2> QED
      BY <1>1, <2>1, <2>2, <2>3, OneServes
  <1>4. CASE Asked(t).path = "/shifts"
    <2>1. Goto(t, "shifts") /\ SessionSet(t, "object", Asked(t).object) /\ "shifts" \in Label /\ HasObject(t)
      BY <1>4 DEF Dispatch, Label, InShifts
    <2>2. PICK o \in Object : o = Asked(t).object
      BY <1>2, <1>4, <2>1 DEF Asked, Received, Request, Login, HasObject
    <2>3. PICK c \in Client : c = req[t].client
      BY <1>2 DEF Received
    <2>4. session' = [session EXCEPT ![c]["object"] = o]
      BY <2>1, <2>2, <2>3 DEF SessionSet
    <2>5. session' \in [Client -> [user : UserOrNone, object : ObjectOrNone, shift : ShiftOrNone]]
      BY <2>4 DEF TypeInv, TypeOK, ObjectOrNone
    <2>6. o # None /\ session'[c].object = o /\ \A d \in Client : d # c => session'[d] = session[d]
      BY <2>4, NoneAssumption DEF TypeInv, TypeOK
    <2>7. TypeOK'
      BY <1>1, <2>1, <2>5 DEF TypeInv, TypeOK, Goto, InShifts
    <2>8. RequestOK(t)'
      BY <1>1, <1>2, <1>4, <2>1, <2>3, <2>6 DEF RequestOK, InObjects, InShifts, InReport, TypeInv, TypeOK,
         Goto, Asked, Session
    <2> QED
      BY <1>1, <2>1, <2>6, <2>7, <2>8, OneServes
  <1>5. CASE Asked(t).path = "/report"
    <2>1. Goto(t, "report") /\ SessionSet(t, "shift", Asked(t).shift) /\ "report" \in Label
      BY <1>5 DEF Dispatch, Label, InReport
    <2>2. PICK s \in ShiftOrNone : s = Asked(t).shift
      BY <1>2, <1>5 DEF Asked, Received, Request, Login, ShiftOrNone
    <2>3. PICK c \in Client : c = req[t].client
      BY <1>2 DEF Received
    <2>4. session' = [session EXCEPT ![c]["shift"] = s]
      BY <2>1, <2>2, <2>3 DEF SessionSet
    <2>5. session' \in [Client -> [user : UserOrNone, object : ObjectOrNone, shift : ShiftOrNone]]
      BY <2>4 DEF TypeInv, TypeOK
    <2>6. \A d \in Client : session'[d].object = session[d].object
      BY <2>4 DEF TypeInv, TypeOK
    <2>7. TypeOK'
      BY <1>1, <2>1, <2>5 DEF TypeInv, TypeOK, Goto, InReport
    <2>8. RequestOK(t)'
      BY <1>1, <1>2, <1>5, <2>1 DEF RequestOK, InObjects, InShifts, InReport, TypeInv, TypeOK, Goto, Asked
    <2> QED
      BY <1>1, <2>1, <2>6, <2>7, <2>8, OneServes
  <1> QED
    BY <1>3, <1>4, <1>5 DEF Dispatch

LEMMA OtherAnswerTypes == ASSUME TypeInv, NEW t \in Thread, OtherAnswer(t), UNCHANGED crashed PROVE TypeInv'
  <1>1. Goto(t, "idle") /\ "idle" \in Label
        /\ UNCHANGED <<userID, session, list, shifts, report, azs, row, opened, page, req, requests, crashed,
                       disturbed, mixed>>
    BY DEF OtherAnswer, At, members, locals, Label, history
  <1>2. TypeOK'
    BY <1>1 DEF TypeInv, TypeOK, Goto
  <1>3. RequestOK(t)'
    BY <1>1 DEF RequestOK, InObjects, InShifts, InReport, TypeInv, TypeOK, Goto
  <1> QED
    BY <1>1, <1>2, <1>3, OneServes

LEMMA StoreUserTypes == ASSUME TypeInv, NEW t \in Thread, StoreUser(t), UNCHANGED crashed PROVE TypeInv'
  <1>1. Goto(t, "objects") /\ at[t] = "store" /\ "objects" \in Label
        /\ UNCHANGED <<userID, list, shifts, report, azs, row, opened, page, req, requests, crashed,
                       disturbed, mixed>>
    BY DEF StoreUser, At, locals, Label, InObjects, history
  <1>2. req[t] \in Received /\ Asked(t).path = "/objects" /\ userID \in UserOrNone
    BY <1>1 DEF TypeInv, TypeOK, RequestOK, InObjects
  <1>3. PICK c \in Client : c = req[t].client
    BY <1>2 DEF Received
  <1>4. session' = [session EXCEPT ![c]["user"] = userID]
    BY <1>3 DEF StoreUser, SessionSet
  <1>5. session' \in [Client -> [user : UserOrNone, object : ObjectOrNone, shift : ShiftOrNone]]
    BY <1>2, <1>4 DEF TypeInv, TypeOK
  <1>6. \A d \in Client : session'[d].object = session[d].object
    BY <1>4 DEF TypeInv, TypeOK
  <1>7. TypeOK'
    BY <1>1, <1>5 DEF TypeInv, TypeOK, Goto, InObjects
  <1>8. RequestOK(t)'
    BY <1>1, <1>2 DEF RequestOK, InObjects, InShifts, InReport, TypeInv, TypeOK, Goto, Asked
  <1> QED
    BY <1>1, <1>6, <1>7, <1>8, OneServes

LEMMA ListSessionTypes == ASSUME TypeInv, NEW t \in Thread, ListSession(t), UNCHANGED crashed PROVE TypeInv'
  <1>1. Goto(t, "clientName") /\ at[t] = "objects" /\ "clientName" \in Label
        /\ UNCHANGED <<userID, session, shifts, report, azs, row, opened, page, req, requests, crashed,
                       disturbed, mixed>>
    BY DEF ListSession, At, locals, Label, InObjects, history
  <1>2. req[t] \in Received /\ Asked(t).path = "/objects"
    BY <1>1 DEF TypeInv, RequestOK, InObjects
  <1>3. Session(t).user \in UserOrNone
    BY <1>2 DEF Received, Session, TypeInv, TypeOK
  <1>4. TypeOK'
    BY <1>1, <1>3 DEF ListSession, TypeInv, TypeOK, Goto, InObjects
  <1>5. RequestOK(t)'
    BY <1>1, <1>2 DEF RequestOK, InObjects, InShifts, InReport, TypeInv, TypeOK, Goto, Asked
  <1> QED
    BY <1>1, <1>4, <1>5, OneServes

LEMMA ClientNameTypes == ASSUME TypeInv, NEW t \in Thread, ClientName(t), UNCHANGED crashed PROVE TypeInv'
  <1>1. Goto(t, "objectsModel") /\ at[t] = "clientName" /\ "objectsModel" \in Label
        /\ UNCHANGED <<userID, session, list, shifts, report, azs, opened, page, req, requests, crashed,
                       disturbed, mixed>>
        /\ row' = [row EXCEPT ![t] = list.userID]
    BY DEF ClientName, At, members, Label, InObjects, history
  <1>2. req[t] \in Received /\ Asked(t).path = "/objects" /\ list.userID \in UserOrNone
    BY <1>1 DEF TypeInv, TypeOK, RequestOK, InObjects
  <1>3. TypeOK'
    BY <1>1, <1>2 DEF TypeInv, TypeOK, Goto, InObjects, UserOrNone
  <1>4. RequestOK(t)'
    BY <1>1, <1>2 DEF RequestOK, InObjects, InShifts, InReport, TypeInv, TypeOK, Goto, Asked
  <1> QED
    BY <1>1, <1>3, <1>4, OneServes DEF TypeInv, TypeOK

LEMMA CreateModelsTypes == ASSUME TypeInv, NEW t \in Thread, CreateModels(t), UNCHANGED crashed PROVE TypeInv'
  <1>1. Goto(t, "objectsPage") /\ at[t] = "objectsModel" /\ "objectsPage" \in Label
        /\ UNCHANGED <<userID, session, shifts, report, azs, row, opened, page, req, requests, crashed,
                       disturbed, mixed>>
    BY DEF CreateModels, At, locals, Label, InObjects, history
  <1>2. req[t] \in Received /\ Asked(t).path = "/objects" /\ row[t] \in UserOrNone
    BY <1>1 DEF TypeInv, RequestOK, InObjects
  <1>3. TypeOK'
    BY <1>1 DEF CreateModels, TypeInv, TypeOK, Goto, InObjects
  <1>4. RequestOK(t)'
    BY <1>1, <1>2 DEF RequestOK, InObjects, InShifts, InReport, TypeInv, TypeOK, Goto, Asked
  <1> QED
    BY <1>1, <1>3, <1>4, OneServes

LEMMA ObjectsPageTypes == ASSUME TypeInv, NEW t \in Thread, ObjectsPage(t), UNCHANGED crashed PROVE TypeInv'
  <1>1. Goto(t, "idle") /\ at[t] = "objectsPage" /\ "idle" \in Label
        /\ UNCHANGED <<userID, session, list, shifts, report, azs, row, opened, req, requests, crashed,
                       disturbed, mixed>>
        /\ page' = [page EXCEPT ![t] = [name |-> row[t], rows |-> list.model]]
    BY DEF ObjectsPage, At, members, Label, history
  <1>2. [name |-> row[t], rows |-> list.model] \in Page
    <2>1. row[t] \in UserOrNone /\ list.model \in UserOrNone
      BY <1>1 DEF TypeInv, TypeOK, RequestOK
    <2> QED
      BY <2>1 DEF Page
  <1>3. TypeOK'
    BY <1>1, <1>2 DEF TypeInv, TypeOK, Goto
  <1>4. RequestOK(t)'
    BY <1>1 DEF RequestOK, InObjects, InShifts, InReport, TypeInv, TypeOK, Goto
  <1> QED
    BY <1>1, <1>3, <1>4, OneServes

LEMMA ShiftsSessionTypes == ASSUME TypeInv, NEW t \in Thread, ShiftsSession(t), UNCHANGED crashed PROVE TypeInv'
  <1>1. Goto(t, "shiftsQuery") /\ at[t] = "shifts" /\ "shiftsQuery" \in Label
        /\ UNCHANGED <<userID, session, list, report, azs, row, opened, page, req, requests, crashed,
                       disturbed, mixed>>
        /\ shifts' = [shifts EXCEPT !.objectID = Session(t).object]
    BY DEF ShiftsSession, At, locals, Label, InShifts, history
  <1>2. req[t] \in Received /\ Asked(t).path = "/shifts" /\ Session(t).object # None
    BY <1>1 DEF TypeInv, RequestOK, InShifts
  <1>3. Session(t).object \in ObjectOrNone
    BY <1>2 DEF Received, Session, TypeInv, TypeOK
  <1>4. TypeOK'
    BY <1>1, <1>3 DEF TypeInv, TypeOK, Goto, InShifts
  <1>5. shifts'.objectID # None /\ Session(t)' = Session(t) /\ Asked(t)' = Asked(t)
    BY <1>1, <1>2 DEF TypeInv, TypeOK, Session, Asked
  <1>6. RequestOK(t)'
    BY <1>1, <1>2, <1>5 DEF RequestOK, InObjects, InShifts, InReport, TypeInv, TypeOK, Goto
  <1> QED
    BY <1>1, <1>4, <1>5, <1>6, OneServes

LEMMA ShiftsQueryTypes == ASSUME TypeInv, NEW t \in Thread, ShiftsQuery(t), UNCHANGED crashed PROVE TypeInv'
  <1>1. at[t] = "shiftsQuery"
        /\ UNCHANGED <<userID, session, list, shifts, report, azs, opened, page, req, requests, crashed,
                       disturbed, mixed>>
        /\ \/ Goto(t, "shiftsOpen") /\ row' = [row EXCEPT ![t] = shifts.objectID]
           \/ Goto(t, "shiftsPage") /\ UNCHANGED row
    BY DEF ShiftsQuery, At, members, history
  <1>2. req[t] \in Received /\ Asked(t).path = "/shifts" /\ Session(t).object # None /\ shifts.objectID # None
    BY <1>1 DEF TypeInv, RequestOK, InShifts
  <1>3. shifts.objectID \in ObjectOrNone
    BY DEF TypeInv, TypeOK
  <1>4. TypeOK'
    BY <1>1, <1>3 DEF TypeInv, TypeOK, Goto, InShifts, ObjectOrNone
  <1>5. Session(t)' = Session(t) /\ Asked(t)' = Asked(t)
    BY <1>1 DEF Session, Asked
  <1>6. RequestOK(t)'
    BY <1>1, <1>2, <1>3, <1>5 DEF RequestOK, InObjects, InShifts, InReport, TypeInv, TypeOK, Goto
  <1>7. "shiftsOpen" \in Label /\ "shiftsPage" \in Label
    BY DEF Label, InShifts
  <1>8. \A u \in Thread \ {t} : req'[u] = req[u] /\ row'[u] = row[u]
    BY <1>1 DEF TypeInv, TypeOK
  <1> QED
    BY <1>1, <1>4, <1>6, <1>7, <1>8, OneServes

LEMMA ShiftsOpenTypes == ASSUME TypeInv, NEW t \in Thread, ShiftsOpen(t), UNCHANGED crashed PROVE TypeInv'
  <1>1. at[t] = "shiftsOpen"
        /\ UNCHANGED <<userID, session, list, row, page, req, requests, crashed,
                       disturbed, mixed>>
        /\ \/ Goto(t, "shiftsModel") /\ opened' = [opened EXCEPT ![t] = TRUE]
           \/ Goto(t, "shiftsPage") /\ UNCHANGED opened
        /\ azs' = azs \cup {shifts.objectID}
        /\ shifts' = [shifts EXCEPT !.dbObj = row[t]]
    BY DEF ShiftsOpen, At, history
  <1>2. req[t] \in Received /\ Asked(t).path = "/shifts" /\ Session(t).object # None /\ shifts.objectID # None
        /\ row[t] \in ObjectOrNone
    BY <1>1 DEF TypeInv, RequestOK, InShifts
  <1>3. azs' \subseteq Object
    BY <1>1, <1>2 DEF TypeInv, TypeOK, ObjectOrNone
  <1>4. report' \in [objectID : ObjectOrNone, shiftID : ShiftOrNone, terminalID : ObjectOrNone,
                     dbObj : ObjectOrNone, models : Subjects]
    <2>1. PICK d \in ObjectOrNone : report' = [report EXCEPT !.dbObj = d]
      <3>1. report.dbObj \in ObjectOrNone /\ None \in ObjectOrNone
        BY DEF TypeInv, TypeOK, ObjectOrNone
      <3> QED
        BY <3>1 DEF ShiftsOpen
    <2> QED
      BY <2>1 DEF TypeInv, TypeOK
  <1>5. shifts' \in [objectID : ObjectOrNone, dbObj : ObjectOrNone, termData : ObjectOrNone, model : ObjectOrNone]
        /\ shifts'.objectID = shifts.objectID
    BY <1>1, <1>2 DEF TypeInv, TypeOK
  <1>6. TypeOK'
    BY <1>1, <1>3, <1>4, <1>5 DEF TypeInv, TypeOK, Goto, InShifts
  <1>7. Session(t)' = Session(t) /\ Asked(t)' = Asked(t)
    BY <1>1 DEF Session, Asked
  <1>8. RequestOK(t)'
    BY <1>1, <1>2, <1>5, <1>7 DEF RequestOK, InObjects, InShifts, InReport, TypeInv, TypeOK, Goto
  <1>9. "shiftsModel" \in Label /\ "shiftsPage" \in Label
    BY DEF Label, InShifts
  <1> QED
    BY <1>1, <1>5, <1>6, <1>8, <1>9, OneServes

LEMMA ShiftsModelTypes == ASSUME TypeInv, NEW t \in Thread, ShiftsModel(t), UNCHANGED crashed PROVE TypeInv'
  <1>1. Goto(t, "shiftsPage") /\ at[t] = "shiftsModel" /\ "shiftsPage" \in Label
        /\ UNCHANGED <<userID, session, list, report, azs, row, opened, page, req, requests, crashed,
                       disturbed, mixed>>
        /\ shifts' = [shifts EXCEPT !.termData = row[t], !.model = shifts.dbObj]
    BY DEF ShiftsModel, TermData, At, locals, Label, InShifts, history
  <1>2. req[t] \in Received /\ Asked(t).path = "/shifts" /\ Session(t).object # None /\ shifts.objectID # None
        /\ row[t] \in ObjectOrNone
    BY <1>1 DEF TypeInv, RequestOK, InShifts
  <1>3. shifts' \in [objectID : ObjectOrNone, dbObj : ObjectOrNone, termData : ObjectOrNone, model : ObjectOrNone]
        /\ shifts'.objectID = shifts.objectID
    BY <1>1, <1>2 DEF TypeInv, TypeOK
  <1>4. TypeOK'
    BY <1>1, <1>3 DEF TypeInv, TypeOK, Goto, InShifts
  <1>5. Session(t)' = Session(t) /\ Asked(t)' = Asked(t)
    BY <1>1 DEF Session, Asked
  <1>6. RequestOK(t)'
    BY <1>1, <1>2, <1>3, <1>5 DEF RequestOK, InObjects, InShifts, InReport, TypeInv, TypeOK, Goto
  <1> QED
    BY <1>1, <1>3, <1>4, <1>6, OneServes

LEMMA ShiftsPageTypes == ASSUME TypeInv, NEW t \in Thread, ShiftsPage(t), UNCHANGED crashed PROVE TypeInv'
  <1>1. Goto(t, "idle") /\ "idle" \in Label
        /\ UNCHANGED <<userID, session, list, shifts, report, azs, row, opened, req, requests, crashed,
                       disturbed, mixed>>
        /\ page' = [page EXCEPT ![t] = [head |-> shifts.termData, rows |-> shifts.model]]
    BY DEF ShiftsPage, At, members, Label, history
  <1>2. [head |-> shifts.termData, rows |-> shifts.model] \in Page
    BY DEF Page, TypeInv, TypeOK
  <1>3. TypeOK'
    BY <1>1, <1>2 DEF TypeInv, TypeOK, Goto
  <1>4. RequestOK(t)'
    BY <1>1 DEF RequestOK, InObjects, InShifts, InReport, TypeInv, TypeOK, Goto
  <1> QED
    BY <1>1, <1>3, <1>4, OneServes

LEMMA ReportSessionTypes == ASSUME TypeInv, NEW t \in Thread, ReportSession(t), UNCHANGED crashed PROVE TypeInv'
  <1>1. Goto(t, "reportQuery") /\ at[t] = "report" /\ "reportQuery" \in Label
        /\ UNCHANGED <<userID, session, list, shifts, azs, row, opened, page, req, requests, crashed,
                       disturbed, mixed>>
        /\ report' = [report EXCEPT !.objectID = Session(t).object, !.shiftID = Session(t).shift]
    BY DEF ReportSession, ShiftID, At, locals, Label, InReport, history
  <1>2. req[t] \in Received /\ Asked(t).path = "/report"
    BY <1>1 DEF TypeInv, RequestOK, InReport
  <1>3. Session(t).object \in ObjectOrNone /\ Session(t).shift \in ShiftOrNone
    BY <1>2 DEF Received, Session, TypeInv, TypeOK
  <1>4. TypeOK'
    BY <1>1, <1>3 DEF TypeInv, TypeOK, Goto, InReport
  <1>5. RequestOK(t)'
    BY <1>1, <1>2 DEF RequestOK, InObjects, InShifts, InReport, TypeInv, TypeOK, Goto, Asked
  <1> QED
    BY <1>1, <1>4, <1>5, OneServes

LEMMA ReportQueryTypes == ASSUME TypeInv, NEW t \in Thread, ReportQuery(t), UNCHANGED crashed PROVE TypeInv'
  <1>1. at[t] = "reportQuery"
        /\ UNCHANGED <<userID, session, list, shifts, azs, opened, page, req, requests, crashed,
                       disturbed, mixed>>
        /\ \/ /\ Goto(t, "reportOpen") /\ row' = [row EXCEPT ![t] = report.objectID]
              /\ report' = [report EXCEPT !.terminalID = report.objectID]
           \/ Goto(t, "reportPage") /\ UNCHANGED <<row, report>>
    BY DEF ReportQuery, At, history
  <1>2. req[t] \in Received /\ Asked(t).path = "/report" /\ Asked(t)' = Asked(t)
    BY <1>1 DEF TypeInv, RequestOK, InReport, Asked
  <1>3. report.objectID \in ObjectOrNone
    BY DEF TypeInv, TypeOK
  <1>4. TypeOK'
    BY <1>1, <1>3 DEF TypeInv, TypeOK, Goto, InReport, ObjectOrNone
  <1>5. RequestOK(t)'
    BY <1>1, <1>2, <1>3 DEF RequestOK, InObjects, InShifts, InReport, TypeInv, TypeOK, Goto
  <1>6. "reportOpen" \in Label /\ "reportPage" \in Label
    BY DEF Label, InReport
  <1>7. \A u \in Thread \ {t} : req'[u] = req[u] /\ row'[u] = row[u]
    BY <1>1 DEF TypeInv, TypeOK
  <1> QED
    BY <1>1, <1>4, <1>5, <1>6, <1>7, OneServes

LEMMA ReportOpenTypes == ASSUME TypeInv, NEW t \in Thread, ReportOpen(t), UNCHANGED crashed PROVE TypeInv'
  <1>1. at[t] = "reportOpen"
        /\ UNCHANGED <<userID, session, list, shifts, azs, row, page, req, requests, crashed,
                       disturbed, mixed>>
        /\ \/ Goto(t, "reportModels") /\ opened' = [opened EXCEPT ![t] = TRUE]
           \/ Goto(t, "reportPage") /\ UNCHANGED opened
        /\ \/ report' = [report EXCEPT !.dbObj = row[t]]
           \/ report' = [report EXCEPT !.dbObj = None]
    BY DEF ReportOpen, At, history
  <1>2. req[t] \in Received /\ Asked(t).path = "/report" /\ Asked(t)' = Asked(t) /\ row[t] \in ObjectOrNone
        /\ None \in ObjectOrNone
    BY <1>1 DEF TypeInv, RequestOK, InReport, Asked, ObjectOrNone
  <1>3. TypeOK'
    BY <1>1, <1>2 DEF TypeInv, TypeOK, Goto, InReport
  <1>4. RequestOK(t)'
    BY <1>1, <1>2 DEF RequestOK, InObjects, InShifts, InReport, TypeInv, TypeOK, Goto
  <1>5. "reportModels" \in Label /\ "reportPage" \in Label
    BY DEF Label, InReport
  <1> QED
    BY <1>1, <1>3, <1>4, <1>5, OneServes

\* What the report is about has a type.
LEMMA CurrentIsSubject == TypeOK => Current \in Subjects
  BY DEF Current, Subject, Subjects, TypeOK

LEMMA ReportModelsTypes == ASSUME TypeInv, NEW t \in Thread, ReportModels(t), UNCHANGED crashed PROVE TypeInv'
  <1>1. Goto(t, "reportPage") /\ at[t] = "reportModels" /\ "reportPage" \in Label
        /\ UNCHANGED <<userID, session, list, shifts, azs, row, opened, page, req, requests, crashed,
                       disturbed, mixed>>
        /\ report' = [report EXCEPT !.models = Current]
    BY DEF ReportModels, At, locals, Label, InReport, history
  <1>2. req[t] \in Received /\ Asked(t).path = "/report"
    BY <1>1 DEF TypeInv, RequestOK, InReport
  <1>3. Current \in Subjects
    BY CurrentIsSubject DEF TypeInv
  <1>4. TypeOK'
    BY <1>1, <1>3 DEF TypeInv, TypeOK, Goto, InReport
  <1>5. RequestOK(t)'
    BY <1>1, <1>2 DEF RequestOK, InObjects, InShifts, InReport, TypeInv, TypeOK, Goto, Asked
  <1> QED
    BY <1>1, <1>4, <1>5, OneServes

LEMMA ReportPageTypes == ASSUME TypeInv, NEW t \in Thread, ReportPage(t), UNCHANGED crashed PROVE TypeInv'
  <1>1. Goto(t, "idle") /\ "idle" \in Label
        /\ UNCHANGED <<userID, session, list, shifts, report, azs, row, opened, req, requests, crashed,
                       disturbed, mixed>>
        /\ page' = [page EXCEPT ![t] = [models |-> report.models, tables |-> Current,
        chosen |-> Session(t).object]]
        /\ at[t] = "reportPage"
    BY DEF ReportPage, At, members, Label, history
  <1>2. [models |-> report.models, tables |-> Current, chosen |-> Session(t).object] \in Page
    <2>1. report.models \in Subjects /\ Current \in Subjects /\ Session(t).object \in ObjectOrNone
      <3>1. req[t].client \in Client
        BY <1>1 DEF TypeInv, RequestOK, Received
      <3> QED
        BY <3>1, CurrentIsSubject DEF TypeInv, TypeOK, Session
    <2> QED
      BY <2>1 DEF Page
  <1>3. TypeOK'
    BY <1>1, <1>2 DEF TypeInv, TypeOK, Goto
  <1>4. RequestOK(t)'
    BY <1>1 DEF RequestOK, InObjects, InShifts, InReport, TypeInv, TypeOK, Goto
  <1> QED
    BY <1>1, <1>3, <1>4, OneServes

\* Nothing that a request needs changes.
LEMMA StutterTypes ==
  ASSUME TypeInv, UNCHANGED <<members, locals, at, req, requests, history>>, crashed' \in BOOLEAN
  PROVE  TypeInv'
  <1>1. TypeOK'
    BY DEF TypeInv, TypeOK, members, locals, history
  <1>2. ASSUME NEW u \in Thread PROVE RequestOK(u)'
    BY DEF TypeInv, RequestOK, Asked, Session, members, locals
  <1> QED
    BY <1>1, <1>2 DEF TypeInv

\* Every step of any thread keeps the types.
LEMMA TypesInductive == TypeInv /\ [Next]_vars => TypeInv'
  <1> SUFFICES ASSUME TypeInv, [Next]_vars PROVE TypeInv'
    OBVIOUS
  <1>1. ASSUME NEW t \in Thread, Service(t), UNCHANGED crashed PROVE TypeInv'
    BY <1>1, ReceiveTypes, GetUserIDTypes, DispatchTypes, OtherAnswerTypes, StoreUserTypes, ListSessionTypes,
       ClientNameTypes, CreateModelsTypes, ObjectsPageTypes, ShiftsSessionTypes, ShiftsQueryTypes,
       ShiftsOpenTypes, ShiftsModelTypes, ShiftsPageTypes, ReportSessionTypes, ReportQueryTypes,
       ReportOpenTypes, ReportModelsTypes, ReportPageTypes DEF Service
  <1>2. ASSUME NEW t \in Thread, Crash(t) PROVE TypeInv'
    BY <1>2, StutterTypes DEF Crash
  <1>3. CASE UNCHANGED vars
    BY <1>3, StutterTypes DEF vars, TypeInv, TypeOK
  <1> QED
    BY <1>1, <1>2, <1>3 DEF Next

\* The types when the server starts.
LEMMA TypesInitially == Init => TypeInv
  <1> SUFFICES ASSUME Init PROVE TypeInv
    OBVIOUS
  <1>1. TypeOK
    <2>1. None \in UserOrNone /\ None \in ObjectOrNone /\ None \in ShiftOrNone
      BY DEF UserOrNone, ObjectOrNone, ShiftOrNone
    <2>2. Blank \in Subjects
      BY <2>1 DEF Blank, Subject, Subjects
    <2>3. /\ userID \in UserOrNone
          /\ session \in [Client -> [user : UserOrNone, object : ObjectOrNone, shift : ShiftOrNone]]
          /\ list \in [userID : UserOrNone, model : UserOrNone]
          /\ shifts \in [objectID : ObjectOrNone, dbObj : ObjectOrNone, termData : ObjectOrNone,
                        model : ObjectOrNone]
      BY <2>1 DEF Init
    <2>4. report \in [objectID : ObjectOrNone, shiftID : ShiftOrNone, terminalID : ObjectOrNone,
                      dbObj : ObjectOrNone, models : Subjects]
      BY <2>1, <2>2 DEF Init
    <2>5. requests \in 0..MaxRequests /\ crashed \in BOOLEAN
      <3>1. 0 \in 0..MaxRequests
        BY MaxRequestsAssumption
      <3> QED
        BY <3>1, Zenon DEF Init
    <2>6. at \in [Thread -> {"idle", "login", "dispatch"} \cup InObjects \cup InShifts \cup InReport]
      BY DEF Init
    <2>7. /\ req \in [Thread -> Received \cup {None}] /\ page \in [Thread -> Page \cup {None}]
          /\ row \in [Thread -> User \cup Object \cup {None}] /\ opened \in [Thread -> BOOLEAN]
          /\ azs \subseteq Object
          /\ disturbed \subseteq Thread /\ mixed \in BOOLEAN
      BY DEF Init
    <2> QED
      BY <2>3, <2>4, <2>5, <2>6, <2>7 DEF TypeOK
  <1>2. ASSUME NEW t \in Thread PROVE RequestOK(t)
    BY DEF Init, RequestOK, InObjects, InShifts, InReport
  <1> QED
    BY <1>1, <1>2 DEF TypeInv

-----------------------------------------------------------------------------
(***************************************************************************)
(* Threads at the same time.  What an undisturbed thread has set in the    *)
(* members is still there when it reads them: the step of another thread   *)
(* Leaves the members of other pages alone, and a thread of the same page  *)
(* would have disturbed it (Overlaps).  So ServiceOK follows the request   *)
(* from page to page.                                                      *)
(***************************************************************************)
Shown(t) == ObjectsShown(t) /\ ShiftsShown(t) /\ ReportShown(t)

Callers ==
  /\ Overlaps /\ HeadOK
  /\ \A t \in Thread : Unfinished(t)
  /\ \A t \in Thread : t \notin disturbed => ServiceOK(t) /\ Shown(t)
  /\ \A t \in Thread : ~mixed => HeadOfRows(t)

\* What a step of t does not touch, by the page that t makes.
Leaves(t) ==
  /\ \A u \in Thread \ {t} : /\ at'[u] = at[u] /\ row'[u] = row[u]
                             /\ opened'[u] = opened[u] /\ page'[u] = page[u]
  /\ Asked(t).path # "/objects" =>
       userID' = userID /\ list' = list /\ \A c \in Client : session'[c].user = session[c].user
  /\ Asked(t).path # "/shifts" =>
       shifts' = shifts /\ \A c \in Client : session'[c].object = session[c].object
  /\ Asked(t).path # "/report" => \A c \in Client : session'[c].shift = session[c].shift
  /\ Asked(t).path \notin {"/shifts", "/report"} => report' = report

\* The other threads do not notice.
LEMMA OthersServed ==
  ASSUME TypeInv, Callers, NEW t \in Thread, at[t] # "idle", Leaves(t), UNCHANGED <<req, history>>,
         NEW u \in Thread \ {t}
  PROVE  /\ Unfinished(u)' /\ (~mixed' => HeadOfRows(u)')
         /\ u \notin disturbed' => ServiceOK(u)' /\ Shown(u)'
  <1>1. at'[u] = at[u] /\ row'[u] = row[u] /\ opened'[u] = opened[u] /\ page'[u] = page[u] /\ Asked(u)' = Asked(u)
    BY DEF Leaves, Asked
  <1>2. Unfinished(u)' /\ (~mixed' => HeadOfRows(u)')
    BY <1>1 DEF Callers, Unfinished, HeadOfRows, Wrote, history
  <1>3. ASSUME u \notin disturbed PROVE ServiceOK(u)' /\ Shown(u)'
    <2>1. ServiceOK(u) /\ Shown(u) /\ RequestOK(u)
      BY <1>3 DEF Callers, TypeInv
    <2>2. at[u] # "idle" => /\ req[u] \in Received /\ req[u].client \in Client /\ Session(u)' = session'[req[u].client]
                            /\ ~Disturbs(Asked(t).path, Asked(u).path)
      BY <1>3, <2>1 DEF Callers, Overlaps, RequestOK, Received, Session
    <2>3. Shown(u)'
      BY <1>1, <2>1 DEF Shown, ObjectsShown, ShiftsShown, ReportShown, Wrote, Subject
    <2>4. ListOK(u)'
      <3>1. at[u] # "idle" /\ Asked(u).named => Asked(u).path = "/objects"
        BY <2>2 DEF Asked, Received, Request, Login
      <3>2. at[u] # "idle" /\ Asked(u).named =>
              userID' = userID /\ list' = list /\ Session(u)'.user = Session(u).user
        BY <2>2, <3>1 DEF Leaves, Disturbs, Session
      <3> QED
        BY <1>1, <2>1, <3>2 DEF ServiceOK, ListOK
    <2>5. ShiftsOK(u)'
      <3>1. at[u] \in InShifts => shifts' = shifts /\ Session(u)'.object = Session(u).object
        BY <2>1, <2>2 DEF Leaves, Disturbs, Session, RequestOK, InShifts
      <3> QED
        BY <1>1, <2>1, <3>1 DEF ServiceOK, ShiftsOK, InShifts
    <2>6. ReportOK(u)'
      <3>1. at[u] \in InReport => /\ report' = report /\ Session(u)'.shift = Session(u).shift
                                  /\ Session(u)'.object = Session(u).object
        BY <2>1, <2>2 DEF Leaves, Disturbs, Session, RequestOK, InReport
      <3> QED
        BY <1>1, <2>1, <3>1 DEF ServiceOK, ReportOK, InReport, Current, Subject
    <2> QED
      BY <2>3, <2>4, <2>5, <2>6 DEF ServiceOK
  <1> QED
    BY <1>2, <1>3 DEF history

\* A step of one thread in service.
LEMMA StepServes ==
  ASSUME TypeInv, Callers, NEW t \in Thread, at[t] # "idle", Leaves(t), UNCHANGED <<req, history>>,
         HeadOK', Unfinished(t)', ~mixed => HeadOfRows(t)',
         t \notin disturbed => ServiceOK(t)' /\ Shown(t)'
  PROVE  Callers'
  <1>1. Overlaps'
    <2>1. disturbed' = disturbed /\ mixed' = mixed /\ \A u \in Thread : Asked(u)' = Asked(u)
      BY DEF history, Asked
    <2>2. \A u \in Thread : at'[u] # "idle" => at[u] # "idle"
      BY DEF Leaves
    <2> QED
      BY <2>1, <2>2 DEF Callers, Overlaps, Serves, TypeInv, TypeOK
  <1>2. \A u \in Thread : /\ Unfinished(u)' /\ (~mixed' => HeadOfRows(u)')
                          /\ u \notin disturbed' => ServiceOK(u)' /\ Shown(u)'
    BY OthersServed DEF history
  <1> QED
    BY <1>1, <1>2 DEF Callers

\* A page that is not finished shows nothing yet.
LEMMA InService ==
  ASSUME TypeInv, Callers, NEW t \in Thread, at[t] # "idle", Leaves(t), UNCHANGED <<req, history>>,
         at'[t] # "idle", HeadOK', Unfinished(t)', t \notin disturbed => ServiceOK(t)'
  PROVE  Callers'
  <1>1. HeadOfRows(t)' /\ Shown(t)'
    BY DEF HeadOfRows, Shown, ObjectsShown, ShiftsShown, ReportShown, Wrote
  <1> QED
    BY <1>1, StepServes

\* Receive() forgets the page and the database of the request before, and
\* tells whom the new one disturbs.
LEMMA ReceiveServes ==
  ASSUME TypeInv, TypeInv', Callers, NEW t \in Thread, Receive(t)
  PROVE  Callers'
  <1>1. /\ at[t] = "idle" /\ at'[t] = "login" /\ page'[t] = None /\ opened'[t] = FALSE
        /\ UNCHANGED <<userID, session, list, shifts, report, azs>>
        /\ \A u \in Thread \ {t} : /\ at'[u] = at[u] /\ row'[u] = row[u] /\ opened'[u] = opened[u]
                                   /\ page'[u] = page[u] /\ req'[u] = req[u]
    BY DEF Receive, Goto, members, TypeInv, TypeOK
  <1>2. PICK r \in Request : Asked(t)' = r /\ Overlap(t, r)
    BY DEF Receive, Asked, TypeInv, TypeOK
  <1>3. \A u \in Thread \ {t} : Asked(u)' = Asked(u)
    BY <1>1 DEF Asked
  <1>4. Overlaps'
    <2>1. ASSUME NEW u \in Thread, NEW v \in Thread, u # v, at'[u] # "idle", at'[v] # "idle",
                 Disturbs(Asked(v)'.path, Asked(u)'.path)
          PROVE  u \in disturbed'
      <3>1. CASE u = t
        BY <1>1, <1>2, <1>3, <2>1, <3>1 DEF Overlap
      <3>2. CASE v = t
        BY <1>1, <1>2, <1>3, <2>1, <3>2 DEF Overlap
      <3>3. CASE u # t /\ v # t
        BY <1>1, <1>2, <1>3, <2>1, <3>3 DEF Overlap, Callers, Overlaps
      <3> QED
        BY <3>1, <3>2, <3>3
    <2>2. ASSUME NEW u \in disturbed', Serves(u, "/shifts")' PROVE mixed'
      <3>1. u \in Thread /\ at'[u] # "idle" /\ Asked(u)'.path = "/shifts"
        BY <2>2 DEF TypeInv, TypeOK, Serves
      <3>2. CASE u = t
        <4>1. PICK v \in Thread \ {t} : at[v] # "idle" /\ Disturbs(Asked(v).path, r.path)
          BY <1>2, <2>2, <3>2 DEF Overlap
        <4>2. Serves(v, "/shifts") /\ r.path = "/shifts"
          BY <1>2, <3>1, <3>2, <4>1 DEF Disturbs, Serves
        <4> QED
          BY <1>2, <4>2 DEF Overlap
      <3>3. CASE u # t /\ u \in disturbed
        BY <1>1, <1>2, <1>3, <3>1, <3>3 DEF Callers, Overlaps, Serves, Overlap
      <3>4. CASE u # t /\ u \notin disturbed
        <4>1. at[u] # "idle" /\ Disturbs(r.path, Asked(u).path) /\ Serves(u, "/shifts")
          BY <1>1, <1>2, <1>3, <2>2, <3>1, <3>4 DEF Overlap, Serves
        <4>2. r.path = "/shifts"
          BY <4>1 DEF Disturbs, Serves
        <4> QED
          BY <1>2, <3>1, <3>4, <4>1, <4>2 DEF Overlap
      <3> QED
        BY <3>2, <3>3, <3>4
    <2> QED
      BY <2>1, <2>2 DEF Overlaps
  <1>5. HeadOK'
    BY <1>1, <1>2 DEF Callers, HeadOK, Overlap
  <1>6. /\ Unfinished(t)' /\ (~mixed' => HeadOfRows(t)')
        /\ ServiceOK(t)' /\ Shown(t)'
    BY <1>1 DEF Unfinished, HeadOfRows, ServiceOK, ListOK, ShiftsOK, ReportOK, InShifts, InReport,
                Shown, ObjectsShown, ShiftsShown, ReportShown, Wrote
  <1>7. ASSUME NEW u \in Thread \ {t}
        PROVE  /\ Unfinished(u)' /\ (~mixed' => HeadOfRows(u)')
               /\ u \notin disturbed' => ServiceOK(u)' /\ Shown(u)'
    <2>1. u \notin disturbed' => u \notin disturbed
      BY <1>2 DEF Overlap
    <2>2. ~mixed' => ~mixed
      BY <1>2 DEF Overlap
    <2>3. Session(u)' = Session(u)
      BY <1>1 DEF Session
    <2>4. Unfinished(u)' /\ (~mixed' => HeadOfRows(u)')
      BY <1>1, <1>3, <2>2 DEF Callers, Unfinished, HeadOfRows, Wrote
    <2>5. ServiceOK(u) => ServiceOK(u)'
      BY <1>1, <1>3, <2>3 DEF ServiceOK, ListOK, ShiftsOK, ReportOK, Current, Subject
    <2>6. Shown(u) => Shown(u)'
      BY <1>1, <1>3 DEF Shown, ObjectsShown, ShiftsShown, ReportShown, Wrote, Subject
    <2> QED
      BY <2>1, <2>4, <2>5, <2>6 DEF Callers
  <1> QED
    BY <1>4, <1>5, <1>6, <1>7 DEF Callers

\* The user of a login is in the member userID.
LEMMA GetUserIDServes ==
  ASSUME TypeInv, Callers, NEW t \in Thread, GetUserID(t)
  PROVE  Callers'
  <1>1. /\ at[t] = "login" /\ at'[t] = "dispatch"
        /\ UNCHANGED <<session, list, shifts, report, row, opened, page, req, disturbed, mixed>>
    BY DEF GetUserID, At, Goto, locals, members, history, TypeInv, TypeOK
  <1>2. req[t] \in Received /\ RequestOK(t) /\ Unfinished(t)
    BY <1>1 DEF TypeInv, RequestOK, Callers
  <1>3. /\ Asked(t).named => userID' = Asked(t).user
        /\ ~Asked(t).named => userID' = userID
        /\ Asked(t).named => Asked(t).path = "/objects"
    BY <1>2 DEF GetUserID, LogsIn, Asked, Received, Request, Login
  <1>4. Leaves(t)
    BY <1>1, <1>2, <1>3 DEF Leaves, GetUserID, At, locals, members, Goto, TypeInv, TypeOK, RequestOK,
       InObjects, InShifts, InReport
  <1>5. HeadOK'
    BY <1>1, <1>3 DEF Callers, HeadOK
  <1>6. Unfinished(t)' /\ at'[t] # "idle"
    BY <1>1, <1>2, <1>3 DEF Unfinished, TypeInv, TypeOK
  <1>7. ASSUME t \notin disturbed PROVE ServiceOK(t)'
    <2>1. ServiceOK(t)
      BY <1>7 DEF Callers
    <2>2. ListOK(t)'
      BY <1>1, <1>2, <1>3, <2>1 DEF ServiceOK, ListOK, Asked, Session
    <2>3. ShiftsOK(t)'
      BY <1>1, <1>2, <1>3, <2>1 DEF ServiceOK, ShiftsOK, InShifts, InReport, InObjects, Asked, Session
    <2>4. ReportOK(t)'
      BY <1>1, <1>2, <1>3, <2>1 DEF ServiceOK, ReportOK, InShifts, InReport, InObjects, Asked, Session,
         Current, Subject
    <2> QED
      BY <2>2, <2>3, <2>4 DEF ServiceOK
  <1> QED
    BY <1>1, <1>4, <1>5, <1>6, <1>7, InService DEF history

\* The object or the shift that is asked for is in the session.
LEMMA DispatchServes ==
  ASSUME TypeInv, Callers, NEW t \in Thread, Dispatch(t)
  PROVE  Callers'
  <1>1. /\ at[t] = "dispatch" /\ UNCHANGED <<userID, list, shifts, report, row, opened, page, req, disturbed, mixed>>
        /\ \A u \in Thread \ {t} : at'[u] = at[u]
    BY DEF Dispatch, Goto, locals, history, TypeInv, TypeOK
  <1>2. req[t] \in Received /\ Unfinished(t)
    BY <1>1 DEF TypeInv, RequestOK, Callers
  <1>3. PICK c \in Client : c = req[t].client
    BY <1>2 DEF Received
  <1>4. opened[t] = FALSE /\ page[t] = None
    BY <1>1, <1>2 DEF Unfinished, TypeInv, TypeOK
  <1>5. HeadOK'
    BY <1>1 DEF Callers, HeadOK
  <1>6. CASE Asked(t).path = "/objects"
    <2>1. at'[t] = "store" /\ UNCHANGED session
      BY <1>6 DEF Dispatch, Goto, TypeInv, TypeOK
    <2>2. Leaves(t) /\ Unfinished(t)'
      BY <1>1, <1>4, <1>6, <2>1 DEF Leaves, Unfinished
    <2>3. t \notin disturbed => ServiceOK(t)'
      BY <1>1, <2>1 DEF Callers, ServiceOK, ListOK, ShiftsOK, ReportOK, InShifts, InReport, Asked
    <2> QED
      BY <1>1, <1>5, <2>1, <2>2, <2>3, InService DEF history
  <1>7. CASE Asked(t).path = "/shifts"
    <2>1. at'[t] = "shifts" /\ session' = [session EXCEPT ![c]["object"] = Asked(t).object]
      BY <1>3, <1>7 DEF Dispatch, SessionSet, Goto, TypeInv, TypeOK
    <2>2. Session(t)'.object = Asked(t)'.object
      BY <1>1, <1>3, <2>1 DEF Session, Asked, TypeInv, TypeOK
    <2>3. Leaves(t) /\ Unfinished(t)'
      BY <1>1, <1>4, <1>7, <2>1 DEF Leaves, Unfinished, TypeInv, TypeOK
    <2>4. ~Asked(t).named
      BY <1>2, <1>7 DEF Asked, Received, Request, Login
    <2>5. ServiceOK(t)'
      BY <1>1, <1>4, <2>1, <2>2, <2>4 DEF ServiceOK, ListOK, ShiftsOK, ReportOK, InShifts, InReport, Asked
    <2> QED
      BY <1>1, <1>5, <2>1, <2>3, <2>5, InService DEF history
  <1>8. CASE Asked(t).path = "/report"
    <2>1. at'[t] = "report" /\ session' = [session EXCEPT ![c]["shift"] = Asked(t).shift]
      BY <1>3, <1>8 DEF Dispatch, SessionSet, Goto, TypeInv, TypeOK
    <2>2. Session(t)'.shift = Asked(t)'.shift
      BY <1>1, <1>3, <2>1 DEF Session, Asked, TypeInv, TypeOK
    <2>3. Leaves(t) /\ Unfinished(t)'
      BY <1>1, <1>4, <1>8, <2>1 DEF Leaves, Unfinished, TypeInv, TypeOK
    <2>4. ~Asked(t).named
      BY <1>2, <1>8 DEF Asked, Received, Request, Login
    <2>5. ServiceOK(t)'
      BY <1>1, <1>4, <2>1, <2>2, <2>4 DEF ServiceOK, ListOK, ShiftsOK, ReportOK, InShifts, InReport, Asked
    <2> QED
      BY <1>1, <1>5, <2>1, <2>3, <2>5, InService DEF history
  <1> QED
    BY <1>6, <1>7, <1>8 DEF Dispatch

\* The session has the user of the login.
LEMMA StoreUserServes ==
  ASSUME TypeInv, Callers, NEW t \in Thread, StoreUser(t)
  PROVE  Callers'
  <1>1. /\ at[t] = "store" /\ at'[t] = "objects"
        /\ UNCHANGED <<userID, list, shifts, report, row, opened, page, req, disturbed, mixed>>
    BY DEF StoreUser, At, Goto, locals, members, history, TypeInv, TypeOK
  <1>2. req[t] \in Received /\ RequestOK(t) /\ Unfinished(t)
    BY <1>1 DEF TypeInv, RequestOK, Callers
  <1>3. Session(t)'.user = userID
    BY <1>1, <1>2 DEF StoreUser, SessionSet, Session, Received, TypeInv, TypeOK
  <1>4. Leaves(t)
    BY <1>1, <1>2 DEF Leaves, StoreUser, At, locals, members, SessionSet, Session, Received, Goto, TypeInv,
       TypeOK, RequestOK, InObjects, InShifts, InReport
  <1>5. HeadOK'
    BY <1>1, <1>3 DEF Callers, HeadOK
  <1>6. Unfinished(t)' /\ at'[t] # "idle"
    BY <1>1, <1>2, <1>3 DEF Unfinished, TypeInv, TypeOK
  <1>7. ASSUME t \notin disturbed PROVE ServiceOK(t)'
    <2>1. ServiceOK(t)
      BY <1>7 DEF Callers
    <2>2. ListOK(t)'
      BY <1>1, <1>2, <1>3, <2>1 DEF ServiceOK, ListOK, Asked, Session
    <2>3. ShiftsOK(t)'
      BY <1>1, <1>2, <1>3, <2>1 DEF ServiceOK, ShiftsOK, InShifts, InReport, InObjects, Asked, Session
    <2>4. ReportOK(t)'
      BY <1>1, <1>2, <1>3, <2>1 DEF ServiceOK, ReportOK, InShifts, InReport, InObjects, Asked, Session,
         Current, Subject
    <2> QED
      BY <2>2, <2>3, <2>4 DEF ServiceOK
  <1> QED
    BY <1>1, <1>4, <1>5, <1>6, <1>7, InService DEF history

\* ObjectsList has the user of the session.
LEMMA ListSessionServes ==
  ASSUME TypeInv, Callers, NEW t \in Thread, ListSession(t)
  PROVE  Callers'
  <1>1. /\ at[t] = "objects" /\ at'[t] = "clientName"
        /\ UNCHANGED <<userID, session, shifts, report, row, opened, page, req, disturbed, mixed>>
    BY DEF ListSession, At, Goto, locals, members, history, TypeInv, TypeOK
  <1>2. req[t] \in Received /\ RequestOK(t) /\ Unfinished(t)
    BY <1>1 DEF TypeInv, RequestOK, Callers
  <1>3. list'.userID = Session(t).user
    BY DEF ListSession, TypeInv, TypeOK
  <1>4. Leaves(t)
    BY <1>1, <1>2 DEF Leaves, ListSession, At, locals, members, Goto, TypeInv, TypeOK, RequestOK, InObjects,
       InShifts, InReport
  <1>5. HeadOK'
    BY <1>1, <1>3 DEF Callers, HeadOK
  <1>6. Unfinished(t)' /\ at'[t] # "idle"
    BY <1>1, <1>2, <1>3 DEF Unfinished, TypeInv, TypeOK
  <1>7. ASSUME t \notin disturbed PROVE ServiceOK(t)'
    <2>1. ServiceOK(t)
      BY <1>7 DEF Callers
    <2>2. ListOK(t)'
      BY <1>1, <1>2, <1>3, <2>1 DEF ServiceOK, ListOK, Asked, Session
    <2>3. ShiftsOK(t)'
      BY <1>1, <1>2, <1>3, <2>1 DEF ServiceOK, ShiftsOK, InShifts, InReport, InObjects, Asked, Session
    <2>4. ReportOK(t)'
      BY <1>1, <1>2, <1>3, <2>1 DEF ServiceOK, ReportOK, InShifts, InReport, InObjects, Asked, Session,
         Current, Subject
    <2> QED
      BY <2>2, <2>3, <2>4 DEF ServiceOK
  <1> QED
    BY <1>1, <1>4, <1>5, <1>6, <1>7, InService DEF history

\* The name that is found is that of the user.
LEMMA ClientNameServes ==
  ASSUME TypeInv, Callers, NEW t \in Thread, ClientName(t)
  PROVE  Callers'
  <1>1. /\ at[t] = "clientName" /\ at'[t] = "objectsModel"
        /\ UNCHANGED <<userID, session, list, shifts, report, opened, page, req, disturbed, mixed>>
    BY DEF ClientName, At, Goto, locals, members, history, TypeInv, TypeOK
  <1>2. req[t] \in Received /\ RequestOK(t) /\ Unfinished(t)
    BY <1>1 DEF TypeInv, RequestOK, Callers
  <1>3. row'[t] = list.userID
    BY DEF ClientName, TypeInv, TypeOK
  <1>4. Leaves(t)
    BY <1>1, <1>2 DEF Leaves, ClientName, At, locals, members, Goto, TypeInv, TypeOK, RequestOK, InObjects,
       InShifts, InReport
  <1>5. HeadOK'
    BY <1>1, <1>3 DEF Callers, HeadOK
  <1>6. Unfinished(t)' /\ at'[t] # "idle"
    BY <1>1, <1>2, <1>3 DEF Unfinished, TypeInv, TypeOK
  <1>7. ASSUME t \notin disturbed PROVE ServiceOK(t)'
    <2>1. ServiceOK(t)
      BY <1>7 DEF Callers
    <2>2. ListOK(t)'
      BY <1>1, <1>2, <1>3, <2>1 DEF ServiceOK, ListOK, Asked, Session
    <2>3. ShiftsOK(t)'
      BY <1>1, <1>2, <1>3, <2>1 DEF ServiceOK, ShiftsOK, InShifts, InReport, InObjects, Asked, Session
    <2>4. ReportOK(t)'
      BY <1>1, <1>2, <1>3, <2>1 DEF ServiceOK, ReportOK, InShifts, InReport, InObjects, Asked, Session,
         Current, Subject
    <2> QED
      BY <2>2, <2>3, <2>4 DEF ServiceOK
  <1> QED
    BY <1>1, <1>4, <1>5, <1>6, <1>7, InService DEF history

\* The model is that of the user.
LEMMA CreateModelsServes ==
  ASSUME TypeInv, Callers, NEW t \in Thread, CreateModels(t)
  PROVE  Callers'
  <1>1. /\ at[t] = "objectsModel" /\ at'[t] = "objectsPage"
        /\ UNCHANGED <<userID, session, shifts, report, row, opened, page, req, disturbed, mixed>>
    BY DEF CreateModels, At, Goto, locals, members, history, TypeInv, TypeOK
  <1>2. req[t] \in Received /\ RequestOK(t) /\ Unfinished(t)
    BY <1>1 DEF TypeInv, RequestOK, Callers
  <1>3. list'.userID = list.userID /\ list'.model = list.userID
    BY DEF CreateModels, TypeInv, TypeOK
  <1>4. Leaves(t)
    BY <1>1, <1>2 DEF Leaves, CreateModels, At, locals, members, Goto, TypeInv, TypeOK, RequestOK, InObjects,
       InShifts, InReport
  <1>5. HeadOK'
    BY <1>1, <1>3 DEF Callers, HeadOK
  <1>6. Unfinished(t)' /\ at'[t] # "idle"
    BY <1>1, <1>2, <1>3 DEF Unfinished, TypeInv, TypeOK
  <1>7. ASSUME t \notin disturbed PROVE ServiceOK(t)'
    <2>1. ServiceOK(t)
      BY <1>7 DEF Callers
    <2>2. ListOK(t)'
      BY <1>1, <1>2, <1>3, <2>1 DEF ServiceOK, ListOK, Asked, Session
    <2>3. ShiftsOK(t)'
      BY <1>1, <1>2, <1>3, <2>1 DEF ServiceOK, ShiftsOK, InShifts, InReport, InObjects, Asked, Session
    <2>4. ReportOK(t)'
      BY <1>1, <1>2, <1>3, <2>1 DEF ServiceOK, ReportOK, InShifts, InReport, InObjects, Asked, Session,
         Current, Subject
    <2> QED
      BY <2>2, <2>3, <2>4 DEF ServiceOK
  <1> QED
    BY <1>1, <1>4, <1>5, <1>6, <1>7, InService DEF history

\* ShiftsList has the object of the session.
LEMMA ShiftsSessionServes ==
  ASSUME TypeInv, Callers, NEW t \in Thread, ShiftsSession(t)
  PROVE  Callers'
  <1>1. /\ at[t] = "shifts" /\ at'[t] = "shiftsQuery"
        /\ UNCHANGED <<userID, session, list, report, row, opened, page, req, disturbed, mixed>>
    BY DEF ShiftsSession, At, Goto, locals, members, history, TypeInv, TypeOK
  <1>2. req[t] \in Received /\ RequestOK(t) /\ Unfinished(t)
    BY <1>1 DEF TypeInv, RequestOK, Callers
  <1>3. shifts'.objectID = Session(t).object /\ shifts'.termData = shifts.termData /\ shifts'.model = shifts.model
    BY DEF ShiftsSession, TypeInv, TypeOK
  <1>4. Leaves(t)
    BY <1>1, <1>2 DEF Leaves, ShiftsSession, At, locals, members, Goto, TypeInv, TypeOK, RequestOK,
       InObjects, InShifts, InReport
  <1>5. HeadOK'
    BY <1>1, <1>3 DEF Callers, HeadOK
  <1>6. Unfinished(t)' /\ at'[t] # "idle"
    BY <1>1, <1>2, <1>3 DEF Unfinished, TypeInv, TypeOK
  <1>7. ASSUME t \notin disturbed PROVE ServiceOK(t)'
    <2>1. ServiceOK(t)
      BY <1>7 DEF Callers
    <2>2. ListOK(t)'
      BY <1>1, <1>2, <1>3, <2>1 DEF ServiceOK, ListOK, Asked, Session
    <2>3. ShiftsOK(t)'
      BY <1>1, <1>2, <1>3, <2>1 DEF ServiceOK, ShiftsOK, InShifts, InReport, InObjects, Asked, Session
    <2>4. ReportOK(t)'
      BY <1>1, <1>2, <1>3, <2>1 DEF ServiceOK, ReportOK, InShifts, InReport, InObjects, Asked, Session,
         Current, Subject
    <2> QED
      BY <2>2, <2>3, <2>4 DEF ServiceOK
  <1> QED
    BY <1>1, <1>4, <1>5, <1>6, <1>7, InService DEF history

\* The row that is found is that of the object.
LEMMA ShiftsQueryServes ==
  ASSUME TypeInv, Callers, NEW t \in Thread, ShiftsQuery(t)
  PROVE  Callers'
  <1>1. /\ at[t] = "shiftsQuery"
        /\ UNCHANGED <<userID, session, list, shifts, report, opened, page, req, disturbed, mixed>>
    BY DEF ShiftsQuery, At, Goto, locals, members, history, TypeInv, TypeOK
  <1>2. req[t] \in Received /\ RequestOK(t) /\ Unfinished(t)
    BY <1>1 DEF TypeInv, RequestOK, Callers
  <1>3. \/ at'[t] = "shiftsOpen" /\ row'[t] = shifts.objectID
        \/ at'[t] = "shiftsPage" /\ UNCHANGED row
    BY DEF ShiftsQuery, At, Goto, TypeInv, TypeOK
  <1>4. Leaves(t)
    BY <1>1, <1>2 DEF Leaves, ShiftsQuery, At, locals, members, Goto, TypeInv, TypeOK, RequestOK, InObjects,
       InShifts, InReport
  <1>5. HeadOK'
    BY <1>1, <1>3 DEF Callers, HeadOK
  <1>6. Unfinished(t)' /\ at'[t] # "idle"
    BY <1>1, <1>2, <1>3 DEF Unfinished, TypeInv, TypeOK
  <1>7. ASSUME t \notin disturbed PROVE ServiceOK(t)'
    <2>1. ServiceOK(t)
      BY <1>7 DEF Callers
    <2>2. ListOK(t)'
      BY <1>1, <1>2, <1>3, <2>1 DEF ServiceOK, ListOK, Asked, Session
    <2>3. ShiftsOK(t)'
      BY <1>1, <1>2, <1>3, <2>1 DEF ServiceOK, Unfinished, ShiftsOK, InShifts, InReport, InObjects, Asked,
         Session
    <2>4. ReportOK(t)'
      BY <1>1, <1>2, <1>3, <2>1 DEF ServiceOK, ReportOK, InShifts, InReport, InObjects, Asked, Session,
         Current, Subject
    <2> QED
      BY <2>2, <2>3, <2>4 DEF ServiceOK
  <1> QED
    BY <1>1, <1>4, <1>5, <1>6, <1>7, InService DEF history

\* A database that is not opened leaves opened FALSE.
LEMMA ShiftsOpenServes ==
  ASSUME TypeInv, Callers, NEW t \in Thread, ShiftsOpen(t)
  PROVE  Callers'
  <1>1. /\ at[t] = "shiftsOpen"
        /\ UNCHANGED <<userID, session, list, row, page, req, disturbed, mixed>>
    BY DEF ShiftsOpen, At, Goto, locals, members, history, TypeInv, TypeOK
  <1>2. req[t] \in Received /\ RequestOK(t) /\ Unfinished(t)
    BY <1>1 DEF TypeInv, RequestOK, Callers
  <1>3. \/ at'[t] = "shiftsModel" /\ opened'[t] = TRUE
        \/ at'[t] = "shiftsPage" /\ UNCHANGED opened
    BY DEF ShiftsOpen, At, Goto, TypeInv, TypeOK
  <1>4. shifts'.objectID = shifts.objectID /\ shifts'.dbObj = row[t]
        /\ shifts'.termData = shifts.termData /\ shifts'.model = shifts.model
    BY DEF ShiftsOpen, TypeInv, TypeOK
  <1>5. Leaves(t)
    BY <1>1, <1>2 DEF Leaves, ShiftsOpen, At, locals, members, Goto, TypeInv, TypeOK, RequestOK, InObjects,
       InShifts, InReport
  <1>6. HeadOK'
    BY <1>1, <1>4 DEF Callers, HeadOK
  <1>7. Unfinished(t)' /\ at'[t] # "idle"
    BY <1>1, <1>2, <1>3, <1>4 DEF Unfinished, TypeInv, TypeOK
  <1>8. ASSUME t \notin disturbed PROVE ServiceOK(t)'
    <2>1. ServiceOK(t)
      BY <1>8 DEF Callers
    <2>2. ListOK(t)'
      BY <1>1, <1>2, <1>3, <1>4, <2>1 DEF ServiceOK, ListOK, Asked, Session
    <2>3. ShiftsOK(t)'
      BY <1>1, <1>2, <1>3, <1>4, <2>1 DEF ServiceOK, Unfinished, ShiftsOK, InShifts, InReport, InObjects,
         Asked, Session
    <2>4. ReportOK(t)'
      BY <1>1, <1>2, <1>3, <1>4, <2>1 DEF ServiceOK, ReportOK, InShifts, InReport, InObjects, Asked, Session,
         Current, Subject
    <2> QED
      BY <2>2, <2>3, <2>4 DEF ServiceOK
  <1> QED
    BY <1>1, <1>5, <1>6, <1>7, <1>8, InService DEF history

\* The head and the rows change together, to the same object.
LEMMA ShiftsModelServes ==
  ASSUME TypeInv, Callers, NEW t \in Thread, ShiftsModel(t)
  PROVE  Callers'
  <1>1. /\ at[t] = "shiftsModel" /\ at'[t] = "shiftsPage"
        /\ UNCHANGED <<userID, session, list, report, row, opened, page, req, disturbed, mixed>>
    BY DEF ShiftsModel, At, Goto, locals, members, history, TypeInv, TypeOK
  <1>2. req[t] \in Received /\ RequestOK(t) /\ Unfinished(t)
    BY <1>1 DEF TypeInv, RequestOK, Callers
  <1>3. shifts'.objectID = shifts.objectID /\ shifts'.termData = row[t] /\ shifts'.model = shifts.dbObj
    BY DEF ShiftsModel, TermData, TypeInv, TypeOK
  <1>4. Leaves(t)
    BY <1>1, <1>2 DEF Leaves, ShiftsModel, At, locals, Goto, TypeInv, TypeOK, RequestOK, InObjects, InShifts,
       InReport
  <1>5. HeadOK'
    <2>1. t \in disturbed => mixed
      BY <1>1, <1>2 DEF Callers, Overlaps, Serves, RequestOK, InShifts
    <2>2. t \notin disturbed => shifts.dbObj = row[t]
      BY <1>1 DEF Callers, ServiceOK, ShiftsOK
    <2> QED
      BY <1>1, <1>3, <2>1, <2>2 DEF HeadOK
  <1>6. Unfinished(t)' /\ at'[t] # "idle"
    BY <1>1, <1>2, <1>3 DEF Unfinished, TypeInv, TypeOK
  <1>7. ASSUME t \notin disturbed PROVE ServiceOK(t)'
    <2>1. ServiceOK(t)
      BY <1>7 DEF Callers
    <2>2. ListOK(t)'
      BY <1>1, <1>2, <1>3, <2>1 DEF ServiceOK, ListOK, Asked, Session
    <2>3. ShiftsOK(t)'
      BY <1>1, <1>2, <1>3, <2>1 DEF ServiceOK, ShiftsOK, InShifts, InReport, InObjects, Asked, Session
    <2>4. ReportOK(t)'
      BY <1>1, <1>2, <1>3, <2>1 DEF ServiceOK, ReportOK, InShifts, InReport, InObjects, Asked, Session,
         Current, Subject
    <2> QED
      BY <2>2, <2>3, <2>4 DEF ServiceOK
  <1> QED
    BY <1>1, <1>4, <1>5, <1>6, <1>7, InService DEF history

\* ShiftReports has the object and the shift of the session.
LEMMA ReportSessionServes ==
  ASSUME TypeInv, Callers, NEW t \in Thread, ReportSession(t)
  PROVE  Callers'
  <1>1. /\ at[t] = "report" /\ at'[t] = "reportQuery"
        /\ UNCHANGED <<userID, session, list, shifts, row, opened, page, req, disturbed, mixed>>
    BY DEF ReportSession, At, Goto, locals, members, history, TypeInv, TypeOK
  <1>2. req[t] \in Received /\ RequestOK(t) /\ Unfinished(t)
    BY <1>1 DEF TypeInv, RequestOK, Callers
  <1>3. report'.objectID = Session(t).object /\ report'.shiftID = Session(t).shift
    BY DEF ReportSession, ShiftID, TypeInv, TypeOK
  <1>4. Leaves(t)
    BY <1>1, <1>2 DEF Leaves, ReportSession, At, locals, members, Goto, TypeInv, TypeOK, RequestOK,
       InObjects, InShifts, InReport
  <1>5. HeadOK'
    BY <1>1, <1>3 DEF Callers, HeadOK
  <1>6. Unfinished(t)' /\ at'[t] # "idle"
    BY <1>1, <1>2, <1>3 DEF Unfinished, TypeInv, TypeOK
  <1>7. ASSUME t \notin disturbed PROVE ServiceOK(t)'
    <2>1. ServiceOK(t)
      BY <1>7 DEF Callers
    <2>2. ListOK(t)'
      BY <1>1, <1>2, <1>3, <2>1 DEF ServiceOK, ListOK, Asked, Session
    <2>3. ShiftsOK(t)'
      BY <1>1, <1>2, <1>3, <2>1 DEF ServiceOK, ShiftsOK, InShifts, InReport, InObjects, Asked, Session
    <2>4. ReportOK(t)'
      BY <1>1, <1>2, <1>3, <2>1 DEF ServiceOK, ReportOK, InShifts, InReport, InObjects, Asked, Session,
         Current, Subject
    <2> QED
      BY <2>2, <2>3, <2>4 DEF ServiceOK
  <1> QED
    BY <1>1, <1>4, <1>5, <1>6, <1>7, InService DEF history

\* The terminal is that of the object.
LEMMA ReportQueryServes ==
  ASSUME TypeInv, Callers, NEW t \in Thread, ReportQuery(t)
  PROVE  Callers'
  <1>1. /\ at[t] = "reportQuery"
        /\ UNCHANGED <<userID, session, list, shifts, opened, page, req, disturbed, mixed>>
    BY DEF ReportQuery, At, Goto, locals, members, history, TypeInv, TypeOK
  <1>2. req[t] \in Received /\ RequestOK(t) /\ Unfinished(t)
    BY <1>1 DEF TypeInv, RequestOK, Callers
  <1>3. \/ at'[t] = "reportOpen" /\ row'[t] = report.objectID /\ report'.objectID = report.objectID
           /\ report'.shiftID = report.shiftID /\ report'.terminalID = report.objectID
        \/ at'[t] = "reportPage" /\ UNCHANGED <<row, report>>
    BY DEF ReportQuery, At, Goto, TypeInv, TypeOK
  <1>4. Leaves(t)
    BY <1>1, <1>2 DEF Leaves, ReportQuery, At, locals, members, Goto, TypeInv, TypeOK, RequestOK, InObjects,
       InShifts, InReport
  <1>5. HeadOK'
    BY <1>1, <1>3 DEF Callers, HeadOK
  <1>6. Unfinished(t)' /\ at'[t] # "idle"
    BY <1>1, <1>2, <1>3 DEF Unfinished, TypeInv, TypeOK
  <1>7. ASSUME t \notin disturbed PROVE ServiceOK(t)'
    <2>1. ServiceOK(t)
      BY <1>7 DEF Callers
    <2>2. ListOK(t)'
      BY <1>1, <1>2, <1>3, <2>1 DEF ServiceOK, ListOK, Asked, Session
    <2>3. ShiftsOK(t)'
      BY <1>1, <1>2, <1>3, <2>1 DEF ServiceOK, ShiftsOK, InShifts, InReport, InObjects, Asked, Session
    <2>4. ReportOK(t)'
      BY <1>1, <1>2, <1>3, <2>1 DEF ServiceOK, Unfinished, ReportOK, InShifts, InReport, InObjects, Asked,
         Session, Current, Subject
    <2> QED
      BY <2>2, <2>3, <2>4 DEF ServiceOK
  <1> QED
    BY <1>1, <1>4, <1>5, <1>6, <1>7, InService DEF history

\* A database that is not opened leaves opened FALSE.
LEMMA ReportOpenServes ==
  ASSUME TypeInv, Callers, NEW t \in Thread, ReportOpen(t)
  PROVE  Callers'
  <1>1. /\ at[t] = "reportOpen"
        /\ UNCHANGED <<userID, session, list, shifts, row, page, req, disturbed, mixed>>
    BY DEF ReportOpen, At, Goto, locals, members, history, TypeInv, TypeOK
  <1>2. req[t] \in Received /\ RequestOK(t) /\ Unfinished(t)
    BY <1>1 DEF TypeInv, RequestOK, Callers
  <1>3. \/ at'[t] = "reportModels" /\ opened'[t] = TRUE /\ report'.dbObj = row[t]
        \/ at'[t] = "reportPage" /\ UNCHANGED opened
    BY DEF ReportOpen, At, Goto, TypeInv, TypeOK
  <1>4. report'.objectID = report.objectID /\ report'.shiftID = report.shiftID /\ report'.terminalID = report.terminalID
    BY DEF ReportOpen, TypeInv, TypeOK
  <1>5. Leaves(t)
    BY <1>1, <1>2 DEF Leaves, ReportOpen, At, locals, members, Goto, TypeInv, TypeOK, RequestOK, InObjects,
       InShifts, InReport
  <1>6. HeadOK'
    BY <1>1, <1>3 DEF Callers, HeadOK
  <1>7. Unfinished(t)' /\ at'[t] # "idle"
    BY <1>1, <1>2, <1>3, <1>4 DEF Unfinished, TypeInv, TypeOK
  <1>8. ASSUME t \notin disturbed PROVE ServiceOK(t)'
    <2>1. ServiceOK(t)
      BY <1>8 DEF Callers
    <2>2. ListOK(t)'
      BY <1>1, <1>2, <1>3, <1>4, <2>1 DEF ServiceOK, ListOK, Asked, Session
    <2>3. ShiftsOK(t)'
      BY <1>1, <1>2, <1>3, <1>4, <2>1 DEF ServiceOK, ShiftsOK, InShifts, InReport, InObjects, Asked, Session
    <2>4. ReportOK(t)'
      BY <1>1, <1>2, <1>3, <1>4, <2>1 DEF ServiceOK, Unfinished, ReportOK, InShifts, InReport, InObjects,
         Asked, Session, Current, Subject
    <2> QED
      BY <2>2, <2>3, <2>4 DEF ServiceOK
  <1> QED
    BY <1>1, <1>5, <1>6, <1>7, <1>8, InService DEF history

\* The models and the tables are made of the same members.
LEMMA ReportModelsServes ==
  ASSUME TypeInv, Callers, NEW t \in Thread, ReportModels(t)
  PROVE  Callers'
  <1>1. /\ at[t] = "reportModels" /\ at'[t] = "reportPage"
        /\ UNCHANGED <<userID, session, list, shifts, row, opened, page, req, disturbed, mixed>>
    BY DEF ReportModels, At, Goto, locals, members, history, TypeInv, TypeOK
  <1>2. req[t] \in Received /\ RequestOK(t) /\ Unfinished(t)
    BY <1>1 DEF TypeInv, RequestOK, Callers
  <1>3. report'.objectID = report.objectID /\ report'.shiftID = report.shiftID
        /\ report'.terminalID = report.terminalID /\ report'.dbObj = report.dbObj /\ report'.models = Current
    BY DEF ReportModels, TypeInv, TypeOK
  <1>4. Leaves(t)
    BY <1>1, <1>2 DEF Leaves, ReportModels, At, locals, members, Goto, TypeInv, TypeOK, RequestOK, InObjects,
       InShifts, InReport
  <1>5. HeadOK'
    BY <1>1, <1>3 DEF Callers, HeadOK
  <1>6. Unfinished(t)' /\ at'[t] # "idle"
    BY <1>1, <1>2, <1>3 DEF Unfinished, TypeInv, TypeOK
  <1>7. ASSUME t \notin disturbed PROVE ServiceOK(t)'
    <2>1. ServiceOK(t)
      BY <1>7 DEF Callers
    <2>2. ListOK(t)'
      BY <1>1, <1>2, <1>3, <2>1 DEF ServiceOK, ListOK, Asked, Session
    <2>3. ShiftsOK(t)'
      BY <1>1, <1>2, <1>3, <2>1 DEF ServiceOK, ShiftsOK, InShifts, InReport, InObjects, Asked, Session
    <2>4. ReportOK(t)'
      BY <1>1, <1>2, <1>3, <2>1 DEF ServiceOK, ReportOK, InShifts, InReport, InObjects, Asked, Session,
         Current, Subject
    <2> QED
      BY <2>2, <2>3, <2>4 DEF ServiceOK
  <1> QED
    BY <1>1, <1>4, <1>5, <1>6, <1>7, InService DEF history

\* The end of a request: what is left of ServiceOK asks nothing of an idle thread.
LEMMA Answered ==
  ASSUME TypeInv, Callers, NEW t \in Thread, at[t] # "idle", at'[t] = "idle",
         UNCHANGED <<members, opened, req, history>>,
         \A u \in Thread \ {t} : at'[u] = at[u] /\ row'[u] = row[u] /\ page'[u] = page[u],
         ~mixed => HeadOfRows(t)', t \notin disturbed => Shown(t)'
  PROVE  Callers'
  <1>1. Leaves(t) /\ HeadOK'
    BY DEF Leaves, members, Callers, HeadOK, history
  <1>2. Unfinished(t)' /\ ServiceOK(t)'
    BY DEF Unfinished, ServiceOK, ListOK, ShiftsOK, ReportOK, InShifts, InReport
  <1> QED
    BY <1>1, <1>2, StepServes

\* Another answer writes none of the three pages.
LEMMA OtherAnswerServes ==
  ASSUME TypeInv, Callers, NEW t \in Thread, OtherAnswer(t)
  PROVE  Callers'
  <1>1. at[t] = "dispatch" /\ at'[t] = "idle" /\ UNCHANGED <<members, locals, req, history>>
        /\ \A u \in Thread \ {t} : at'[u] = at[u]
    BY DEF OtherAnswer, At, Goto, TypeInv, TypeOK
  <1>2. page'[t] = None
    BY <1>1 DEF locals, Callers, Unfinished
  <1>3. HeadOfRows(t)' /\ Shown(t)'
    BY <1>2 DEF HeadOfRows, Shown, ObjectsShown, ShiftsShown, ReportShown, Wrote
  <1> QED
    BY <1>1, <1>3, Answered DEF locals

\* The name and the rows are those of the login.
LEMMA ObjectsPageServes ==
  ASSUME TypeInv, Callers, NEW t \in Thread, ObjectsPage(t)
  PROVE  Callers'
  <1>1. at[t] = "objectsPage" /\ at'[t] = "idle" /\ UNCHANGED <<members, row, opened, req, history>>
        /\ \A u \in Thread \ {t} : at'[u] = at[u] /\ page'[u] = page[u]
    BY DEF ObjectsPage, At, Goto, TypeInv, TypeOK
  <1>2. Asked(t)' = Asked(t) /\ Asked(t).path = "/objects"
    BY <1>1 DEF TypeInv, RequestOK, InObjects, Asked
  <1>3. page'[t] = [name |-> row[t], rows |-> list.model]
    BY DEF ObjectsPage, TypeInv, TypeOK
  <1>4. HeadOfRows(t)'
    BY <1>2 DEF HeadOfRows, Wrote
  <1>5. ASSUME t \notin disturbed PROVE Shown(t)'
    <2>1. Asked(t).named => row[t] = Asked(t).user /\ list.model = Asked(t).user
      BY <1>1, <1>5 DEF Callers, ServiceOK, ListOK
    <2> QED
      BY <1>2, <1>3, <2>1 DEF Shown, ObjectsShown, ShiftsShown, ReportShown, Wrote
  <1> QED
    BY <1>1, <1>4, <1>5, Answered

\* The head and the rows agree, whatever has failed.
LEMMA ShiftsPageServes ==
  ASSUME TypeInv, Callers, NEW t \in Thread, ShiftsPage(t)
  PROVE  Callers'
  <1>1. at[t] = "shiftsPage" /\ at'[t] = "idle" /\ UNCHANGED <<members, row, opened, req, history>>
        /\ \A u \in Thread \ {t} : at'[u] = at[u] /\ page'[u] = page[u]
    BY DEF ShiftsPage, At, Goto, TypeInv, TypeOK
  <1>2. Asked(t)' = Asked(t) /\ Asked(t).path = "/shifts"
    BY <1>1 DEF TypeInv, RequestOK, InShifts, Asked
  <1>3. page'[t] = [head |-> shifts.termData, rows |-> shifts.model]
    BY DEF ShiftsPage, TypeInv, TypeOK
  <1>4. ~mixed => HeadOfRows(t)'
    BY <1>3 DEF Callers, HeadOK, HeadOfRows
  <1>5. ASSUME t \notin disturbed PROVE Shown(t)'
    <2>1. opened[t] => shifts.termData = Asked(t).object /\ shifts.model = Asked(t).object
      BY <1>1, <1>5 DEF Callers, ServiceOK, ShiftsOK
    <2> QED
      BY <1>1, <1>2, <1>3, <2>1 DEF Shown, ObjectsShown, ShiftsShown, ReportShown, Wrote
  <1> QED
    BY <1>1, <1>4, <1>5, Answered

\* The tables are made of what the models were made of.
LEMMA ReportPageServes ==
  ASSUME TypeInv, Callers, NEW t \in Thread, ReportPage(t)
  PROVE  Callers'
  <1>1. at[t] = "reportPage" /\ at'[t] = "idle" /\ UNCHANGED <<members, row, opened, req, history>>
        /\ \A u \in Thread \ {t} : at'[u] = at[u] /\ page'[u] = page[u]
    BY DEF ReportPage, At, Goto, TypeInv, TypeOK
  <1>2. Asked(t)' = Asked(t) /\ Asked(t).path = "/report"
    BY <1>1 DEF TypeInv, RequestOK, InReport, Asked
  <1>3. page'[t] = [models |-> report.models, tables |-> Current, chosen |-> Session(t).object]
    BY DEF ReportPage, TypeInv, TypeOK
  <1>4. HeadOfRows(t)'
    BY <1>2 DEF HeadOfRows, Wrote
  <1>5. ASSUME t \notin disturbed PROVE Shown(t)'
    <2>1. opened[t] => report.models = Current
                       /\ Current = Subject(Session(t).object, Session(t).object, Asked(t).shift)
      BY <1>1, <1>5 DEF Callers, ServiceOK, ReportOK
    <2>2. opened[t] => /\ page'[t].models = page'[t].tables
                       /\ page'[t].models = Subject(page'[t].chosen, page'[t].chosen, Asked(t).shift)
      BY <1>3, <2>1
    <2> QED
      BY <1>1, <1>2, <2>2 DEF Shown, ObjectsShown, ShiftsShown, ReportShown, Wrote, Subject
  <1> QED
    BY <1>1, <1>4, <1>5, Answered

\* Nothing that a page shows changes.
LEMMA StutterServes ==
  ASSUME Callers, UNCHANGED <<members, locals, at, req, history>>
  PROVE  Callers'
  <1>1. Overlaps' /\ HeadOK'
    BY DEF Callers, Overlaps, Serves, HeadOK, Asked, members, history
  <1>2. ASSUME NEW t \in Thread
        PROVE  /\ Unfinished(t)' /\ (~mixed' => HeadOfRows(t)')
               /\ t \notin disturbed' => ServiceOK(t)'
    BY DEF Callers, Unfinished, HeadOfRows, Wrote, ServiceOK, ListOK, ShiftsOK, ReportOK, Asked, Session,
           Current, Subject, members, locals, history
  <1>3. ASSUME NEW t \in Thread PROVE t \notin disturbed' => Shown(t)'
    BY DEF Callers, Shown, ObjectsShown, ShiftsShown, ReportShown, Wrote, Asked, Subject, locals, history
  <1> QED
    BY <1>1, <1>2, <1>3 DEF Callers

LEMMA IndInvIsCallers == IndInv <=> TypeInv /\ Callers
  BY DEF IndInv, Callers, Shown, ObjectsOfCaller, ShiftsOfCaller, ReportOfCaller

\* Every step of any thread keeps the invariant.
LEMMA CallersInductive == IndInv /\ [Next]_vars => IndInv'
  <1> SUFFICES ASSUME IndInv, [Next]_vars PROVE IndInv'
    OBVIOUS
  <1>1. TypeInv /\ Callers
    BY IndInvIsCallers
  <1>2. TypeInv'
    BY <1>1, TypesInductive
  <1>3. ASSUME NEW t \in Thread, Service(t) PROVE Callers'
    BY <1>1, <1>2, <1>3, ReceiveServes, GetUserIDServes, DispatchServes, OtherAnswerServes, StoreUserServes,
       ListSessionServes, ClientNameServes, CreateModelsServes, ObjectsPageServes, ShiftsSessionServes,
       ShiftsQueryServes, ShiftsOpenServes, ShiftsModelServes, ShiftsPageServes, ReportSessionServes,
       ReportQueryServes, ReportOpenServes, ReportModelsServes, ReportPageServes DEF Service
  <1>4. ASSUME NEW t \in Thread, Crash(t) PROVE Callers'
    BY <1>1, <1>4, StutterServes DEF Crash
  <1>5. ASSUME UNCHANGED vars PROVE Callers'
    BY <1>1, <1>5, StutterServes DEF vars
  <1>6. Callers'
    BY <1>3, <1>4, <1>5 DEF Next
  <1>7. IndInv' <=> TypeInv' /\ Callers'
    BY IndInvIsCallers, PTL
  <1> QED
    BY <1>2, <1>6, <1>7

\* The invariant when the server starts.
LEMMA CallersInitially == Init => IndInv
  <1> SUFFICES ASSUME Init PROVE IndInv
    OBVIOUS
  <1>1. TypeInv
    BY TypesInitially
  <1>2. /\ \A t \in Thread : at[t] = "idle" /\ page[t] = None /\ opened[t] = FALSE
        /\ disturbed = {} /\ shifts.termData = shifts.model
    BY DEF Init
  <1>3. Overlaps /\ HeadOK
    BY <1>2 DEF Overlaps, HeadOK
  <1>4. ASSUME NEW t \in Thread PROVE Unfinished(t) /\ HeadOfRows(t) /\ ServiceOK(t) /\ Shown(t)
    BY <1>2 DEF Unfinished, HeadOfRows, ServiceOK, ListOK, ShiftsOK, ReportOK, InShifts, InReport,
                Shown, ObjectsShown, ShiftsShown, ReportShown, Wrote
  <1> QED
    BY <1>1, <1>3, <1>4, IndInvIsCallers DEF Callers

\* Every variable keeps its type, however many threads serve requests at once:
\* no page is made of a user where an object belongs, and only objects have a
\* registered connection.
THEOREM TypeCorrect == Spec => []TypeOK
  <1>1. TypeInv => TypeOK
    BY DEF TypeInv
  <1> QED
    BY <1>1, TypesInitially, TypesInductive, PTL DEF Spec

\* The inductive invariant, with any number of threads in service at once.
THEOREM Invariance == Spec => []IndInv
  BY CallersInductive, CallersInitially, PTL DEF Spec

\* Whatever the other threads do, a login whose list of objects is not made at
\* the same time as another is answered with the name and the objects of the
\* user who logged in.
THEOREM ObjectsServed == Spec => []ObjectsOfCaller
  <1>1. IndInv => ObjectsOfCaller
    BY DEF IndInv
  <1> QED
    BY <1>1, Invariance, PTL

\* Whatever the other threads do, a list of shifts that is not made at the same
\* time as another is of the object asked for if its database was opened; and
\* every list is of one object until two have been made at once.
THEOREM ShiftsServed == Spec => []ShiftsOfCaller
  <1>1. IndInv => ShiftsOfCaller
    BY DEF IndInv
  <1> QED
    BY <1>1, Invariance, PTL

\* Whatever the other threads do, every part of a report that is made at the
\* same time as neither another report nor a list of shifts is about the shift
\* asked for and the object chosen in the same session.
THEOREM ReportServed == Spec => []ReportOfCaller
  <1>1. IndInv => ReportOfCaller
    BY DEF IndInv
  <1> QED
    BY <1>1, Invariance, PTL
=============================================================================
