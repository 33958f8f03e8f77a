---------------------------- MODULE HttpSession ----------------------------
(***************************************************************************)
(* HttpSession: handles that share one reference-counted HttpSessionData   *)
(* (httpsession.cpp).  The operators are the constructors, the assignment  *)
(* and the destructor; each changes the counter under the lock of the data *)
(* object, which makes it one step.  The deletion of the data comes after  *)
(* the lock is released: a step of its own.                                *)
(*                                                                         *)
(* A session is identified with its UUID, which is never used twice.       *)
(***************************************************************************)
EXTENDS Naturals

CONSTANTS
    Session,    \* the sessions that may ever be created
    None,       \* the null session: dataPtr is a null pointer
    MaxClock    \* bound: time stops here

ASSUME NoneAssumption == None \notin Session
ASSUME MaxClockAssumption == MaxClock \in Nat

VARIABLES
    data,       \* the life of a session's data object
    refCount,   \* HttpSessionData::refCount
    lastAccess, \* HttpSessionData::lastAccess
    clock       \* QDateTime::currentMSecsSinceEpoch()

sessionVars == <<data, refCount, lastAccess>>

Data == {"unborn", "alive", "deleted"}

SessionInit ==
    /\ data = [s \in Session |-> "unborn"]
    /\ refCount = [s \in Session |-> 0]
    /\ lastAccess = [s \in Session |-> 0]
    /\ clock = 0

\* HttpSession(true) and the copy that sessions.insert() makes of it.
ConstructAndInsert(s) ==
    /\ data[s] = "unborn"
    /\ data' = [data EXCEPT ![s] = "alive"]
    /\ refCount' = [refCount EXCEPT ![s] = 2]
    /\ lastAccess' = [lastAccess EXCEPT ![s] = clock]

\* The copy constructor; a copy of a null session is null.
BugCopyUncounted(s) == refCount' = refCount
Copy(s) == refCount' = [x \in Session |-> IF x = s THEN refCount[x] + 1 ELSE refCount[x]]

\* The destructor, up to the release of the lock; also the node of a QMap that
\* is erased.
Release(s) == refCount' = [x \in Session |-> IF x = s THEN refCount[x] - 1 ELSE refCount[x]]

\* Must the handle whose counter has just been decremented delete the data?
BugNeverLast(s) == FALSE
LastReference(s) == s # None /\ refCount[s] = 1

\* operator=: attach to the new data, renew its time, detach from the old.
Reassign(old, new) ==
    /\ refCount' = [x \in Session |->
            refCount[x] + (IF x = new THEN 1 ELSE 0) - (IF x = old THEN 1 ELSE 0)]
    /\ lastAccess' = [x \in Session |-> IF x = new THEN clock ELSE lastAccess[x]]

\* setLastAccess(); nothing on a null session.
BugNotTouched(s) == lastAccess' = lastAccess
SetLastAccess(s) ==
    lastAccess' = [x \in Session |-> IF x = s THEN clock ELSE lastAccess[x]]

Delete(s) == data' = [data EXCEPT ![s] = "deleted"]

Tick ==
    /\ clock < MaxClock
    /\ clock' = clock + 1
=============================================================================
