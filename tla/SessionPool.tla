---------------------------- MODULE SessionPool ----------------------------
(***************************************************************************)
(* RTPSessionPool / SingleRTPSessionPool (pool.cpp, ccrtp/pool.h): a list  *)
(* of RTP sessions served by one thread while application threads add and  *)
(* remove sessions.  A critical section of poolLock is two steps: one that *)
(* takes the lock and one that does the work and releases it, so that the  *)
(* invariants can look at a thread in the middle of its section.           *)
(***************************************************************************)
EXTENDS Integers, SequencesExt

CONSTANTS
    Sessions,    \* addresses of RTPSessionBase objects
    Elements,    \* addresses `new SessionListElement' can return
    Apps,        \* application threads
    Service,     \* the thread of SingleRTPSessionPool
    NoThread,    \* poolLock is not write-locked
    NoSession,   \* the null RTPSessionBase*
    Socket,      \* getDataRecvSocket of each session, a file descriptor
    SchedulingTimeouts,  \* what getSchedulingTimeout may return (microseconds)
    CheckInterval,       \* getRTCPCheckInterval, in microseconds
    MaxRemovals  \* bound: successful removeSession calls in a behaviour

ASSUME SessionPoolAssumption ==
    /\ Service \notin Apps
    /\ NoThread \notin Apps \cup {Service}
    /\ NoSession \notin Sessions
    /\ Socket \in [Sessions -> Nat]
    /\ SchedulingTimeouts \subseteq Nat
    /\ CheckInterval \in Nat
    /\ MaxRemovals \in Nat

VARIABLES
    sessionList,    \* std::list<SessionListElement*>
    allocated,      \* SessionListElement objects that exist
    elem,           \* SessionListElement::elem
    cleared,        \* SessionListElement::cleared
    live,           \* RTPSessionBase objects that exist
    readers, writer,        \* poolLock
    appPc, appArg,          \* the pool operation each application thread is in
    pc,             \* where SingleRTPSessionPool::run is
    sessions,       \* its copy of sessionList
    i,              \* its iterator (1-based)
    session,        \* the session it read from the element it is serving
    recvSocketSet, highestSocket, n, packetTimeout,
    pending,        \* datagrams waiting in a session's data socket
    removals

pool == <<sessionList, allocated, elem, cleared, live, removals>>
lock == <<readers, writer>>
app  == <<appPc, appArg>>
loop == <<sessions, i, session>>
io   == <<recvSocketSet, highestSocket, n, packetTimeout>>
vars == <<pool, lock, app, pc, loop, io, pending>>

Threads == Apps \cup {Service}

Init ==
    /\ sessionList = << >>
    /\ allocated = {}
    /\ elem = [e \in Elements |-> NoSession]
    /\ cleared = [e \in Elements |-> FALSE]
    /\ live = {}
    /\ readers = {} /\ writer = NoThread
    /\ appPc = [a \in Apps |-> "idle"]
    /\ appArg = [a \in Apps |-> NoSession]
    /\ pc = "new"
    /\ sessions = << >> /\ i = 1 /\ session = NoSession
    /\ recvSocketSet = {} /\ highestSocket = 0 /\ n = 0 /\ packetTimeout = 0
    /\ pending = [s \in Sessions |-> 0]
    /\ removals = 0

-----------------------------------------------------------------------------
(* ThreadLock, the reader/writer lock of GNU Common C++.                   *)
readLock(t) ==
    /\ writer = NoThread
    /\ readers' = readers \cup {t}
    /\ UNCHANGED writer

writeLock(t) ==
    /\ writer = NoThread /\ readers = {}
    /\ writer' = t
    /\ UNCHANGED readers

unlock(t) ==
    /\ readers' = readers \ {t}
    /\ writer' = IF writer = t THEN NoThread ELSE writer

(* PredEquals with std::find_if: the positions of a session in the list.   *)
Found(s) == {k \in 1..Len(sessionList) : elem[sessionList[k]] = s}

-----------------------------------------------------------------------------
(* The application builds a session object; the pool then owns it.  The    *)
(* allocator may hand out the address of a session deleted before.         *)
NewSession(s) ==
    /\ s \notin live
    /\ live' = live \cup {s}
    /\ UNCHANGED <<sessionList, allocated, elem, cleared, removals,
                   lock, app, pc, loop, io, pending>>

BeginAdd(a, s) ==
    /\ appPc[a] = "idle"
    /\ s \in live
    /\ Elements \ allocated # {}
    /\ writeLock(a)
    /\ appPc' = [appPc EXCEPT ![a] = "add"]
    /\ appArg' = [appArg EXCEPT ![a] = s]
    /\ UNCHANGED <<pool, pc, loop, io, pending>>

\* Fault: the list is not searched before the session is appended.
addSessionUnchecked(a) ==
    /\ appPc[a] = "add"
    /\ \E e \in Elements \ allocated :
          /\ allocated' = allocated \cup {e}
          /\ elem' = [elem EXCEPT ![e] = appArg[a]]
          /\ cleared' = [cleared EXCEPT ![e] = FALSE]
          /\ sessionList' = Append(sessionList, e)
    /\ unlock(a)
    /\ appPc' = [appPc EXCEPT ![a] = "idle"]
    /\ appArg' = [appArg EXCEPT ![a] = NoSession]
    /\ UNCHANGED <<live, removals, pc, loop, io, pending>>

addSession(a) ==
    /\ appPc[a] = "add"
    /\ \/ /\ Found(appArg[a]) = {}
          /\ \E e \in Elements \ allocated :
                /\ allocated' = allocated \cup {e}
                /\ elem' = [elem EXCEPT ![e] = appArg[a]]
                /\ cleared' = [cleared EXCEPT ![e] = FALSE]
                /\ sessionList' = Append(sessionList, e)
       \/ /\ Found(appArg[a]) # {}
          /\ UNCHANGED <<allocated, elem, cleared, sessionList>>
    /\ unlock(a)
    /\ appPc' = [appPc EXCEPT ![a] = "idle"]
    /\ appArg' = [appArg EXCEPT ![a] = NoSession]
    /\ UNCHANGED <<live, removals, pc, loop, io, pending>>

\* Fault: removeSession takes the shared lock instead of the exclusive one.
BeginRemoveShared(a, s) ==
    /\ appPc[a] = "idle"
    /\ removals < MaxRemovals
    /\ readLock(a)
    /\ appPc' = [appPc EXCEPT ![a] = "remove"]
    /\ appArg' = [appArg EXCEPT ![a] = s]
    /\ UNCHANGED <<pool, pc, loop, io, pending>>

BeginRemove(a, s) ==
    /\ appPc[a] = "idle"
    /\ removals < MaxRemovals
    /\ writeLock(a)
    /\ appPc' = [appPc EXCEPT ![a] = "remove"]
    /\ appArg' = [appArg EXCEPT ![a] = s]
    /\ UNCHANGED <<pool, pc, loop, io, pending>>

(* SessionListElement::clear deletes the session; the element stays in the *)
(* list until the service thread purges it.                                *)
clear(e) ==
    /\ cleared' = [cleared EXCEPT ![e] = TRUE]
    /\ live' = live \ {elem[e]}
    /\ pending' = [s \in Sessions |-> IF s = elem[e] THEN 0 ELSE pending[s]]
    /\ elem' = [elem EXCEPT ![e] = NoSession]

\* Fault: the element is unlinked and deleted by the application thread.
removeSessionErasing(a) ==
    /\ appPc[a] = "remove"
    /\ LET s == appArg[a] IN
       \/ /\ Found(s) # {}
          /\ LET k == Min(Found(s)) IN
             /\ clear(sessionList[k])
             /\ sessionList' = RemoveAt(sessionList, k)
             /\ allocated' = allocated \ {sessionList[k]}
          /\ removals' = removals + 1
       \/ /\ Found(s) = {}
          /\ UNCHANGED <<pool, pending>>
    /\ unlock(a)
    /\ appPc' = [appPc EXCEPT ![a] = "idle"]
    /\ appArg' = [appArg EXCEPT ![a] = NoSession]
    /\ UNCHANGED <<pc, loop, io>>

removeSession(a) ==
    /\ appPc[a] = "remove"
    /\ LET s == appArg[a] IN
       \/ /\ \E k \in Found(s) :
                /\ \A j \in Found(s) : k <= j
                /\ clear(sessionList[k])
          /\ removals' = removals + 1
          /\ UNCHANGED <<sessionList, allocated>>
       \/ /\ Found(s) = {}
          /\ UNCHANGED <<pool, pending>>
    /\ unlock(a)
    /\ appPc' = [appPc EXCEPT ![a] = "idle"]
    /\ appArg' = [appArg EXCEPT ![a] = NoSession]
    /\ UNCHANGED <<pc, loop, io>>

BeginGetPoolLength(a) ==
    /\ appPc[a] = "idle"
    /\ readLock(a)
    /\ appPc' = [appPc EXCEPT ![a] = "length"]
    /\ UNCHANGED <<pool, appArg, pc, loop, io, pending>>

getPoolLength(a) ==
    /\ appPc[a] = "length"
    /\ unlock(a)
    /\ appPc' = [appPc EXCEPT ![a] = "idle"]
    /\ UNCHANGED <<pool, appArg, pc, loop, io, pending>>

-----------------------------------------------------------------------------
(* SingleRTPSessionPool::run.                                              *)
startRunning ==
    /\ pc = "new"
    /\ pc' = "copy"
    /\ UNCHANGED <<pool, lock, app, loop, io, pending>>

BeginCopy ==
    /\ pc = "copy"
    /\ readLock(Service)
    /\ pc' = "copying"
    /\ UNCHANGED <<pool, app, loop, io, pending>>

CopyList ==
    /\ pc = "copying"
    /\ sessions' = sessionList
    /\ i' = 1
    /\ unlock(Service)
    /\ pc' = "control"
    /\ UNCHANGED <<pool, app, session, io, pending>>

(* get() of the element the iterator is at, unless it is cleared.          *)
Get == IF cleared[sessions[i]] THEN NoSession ELSE elem[sessions[i]]

BeginControl ==
    /\ pc = "control" /\ i <= Len(sessions)
    /\ readLock(Service)
    /\ session' = Get
    /\ pc' = "inControl"
    /\ UNCHANGED <<pool, app, sessions, i, io, pending>>

(* controlReceptionService and controlTransmissionService of the session,  *)
(* if there is one; neither touches the pool.                              *)
ControlServices ==
    /\ pc = "inControl"
    /\ unlock(Service)
    /\ i' = i + 1 /\ session' = NoSession
    /\ pc' = "control"
    /\ UNCHANGED <<pool, app, sessions, io, pending>>

BeginFdSet ==
    /\ pc = "control" /\ i > Len(sessions)
    /\ readLock(Service)
    /\ recvSocketSet' = {}
    /\ highestSocket' = 0
    /\ i' = 1
    /\ pc' = "fdset"
    /\ UNCHANGED <<pool, app, sessions, session, n, packetTimeout, pending>>

\* Fault: the bound for select is overwritten by every session.
FdSetLast ==
    /\ pc = "fdset" /\ i <= Len(sessions)
    /\ LET e == sessions[i] IN
       \/ /\ ~cleared[e]
          /\ recvSocketSet' = recvSocketSet \cup {Socket[elem[e]]}
          /\ highestSocket' = Socket[elem[e]] + 1
       \/ /\ cleared[e]
          /\ UNCHANGED <<recvSocketSet, highestSocket>>
    /\ i' = i + 1
    /\ UNCHANGED <<pool, lock, app, pc, sessions, session, n, packetTimeout,
                   pending>>

FdSet ==
    /\ pc = "fdset" /\ i <= Len(sessions)
    /\ LET e == sessions[i] IN
       \/ /\ ~cleared[e]
          /\ recvSocketSet' = recvSocketSet \cup {Socket[elem[e]]}
          /\ highestSocket' = IF Socket[elem[e]] > highestSocket + 1
                              THEN Socket[elem[e]] + 1 ELSE highestSocket
       \/ /\ cleared[e]
          /\ UNCHANGED <<recvSocketSet, highestSocket>>
    /\ i' = i + 1
    /\ UNCHANGED <<pool, lock, app, pc, sessions, session, n, packetTimeout,
                   pending>>

EndFdSet ==
    /\ pc = "fdset" /\ i > Len(sessions)
    /\ unlock(Service)
    /\ pc' = "select"
    /\ UNCHANGED <<pool, app, loop, io, pending>>

(* select looks at the descriptors below its first argument.  A descriptor *)
(* closed since it was put in the set makes it fail and leave the set      *)
(* alone; what it does to bits at or above its argument is not specified.  *)
select ==
    /\ pc = "select"
    /\ LET watched == {fd \in recvSocketSet : fd < highestSocket}
           open    == {Socket[s] : s \in live}
           ready   == {fd \in watched :
                          \E s \in live : Socket[s] = fd /\ pending[s] > 0}
       IN \/ /\ watched \subseteq open
             /\ n' = Cardinality(ready)
             /\ \E kept \in {{}, recvSocketSet \ watched} :
                   recvSocketSet' = ready \cup kept
          \/ /\ ~(watched \subseteq open)
             /\ n' = -1
             /\ UNCHANGED recvSocketSet
    /\ i' = 1
    /\ pc' = "data"
    /\ UNCHANGED <<pool, lock, app, sessions, session, highestSocket,
                   packetTimeout, pending>>

BeginData ==
    /\ pc = "data" /\ i <= Len(sessions)
    /\ readLock(Service)
    /\ session' = Get
    /\ pc' = "inData"
    /\ UNCHANGED <<pool, app, sessions, i, io, pending>>

(* takeInDataPacket when select reported the socket and left a count.      *)
TakeIn(s) ==
    \/ /\ Socket[s] \in recvSocketSet /\ n > 0
       /\ pending' = [pending EXCEPT ![s] = IF @ > 0 THEN @ - 1 ELSE 0]
       /\ n' = n - 1
    \/ /\ Socket[s] \in recvSocketSet /\ n <= 0
       /\ n' = n - 1
       /\ UNCHANGED pending
    \/ /\ Socket[s] \notin recvSocketSet
       /\ UNCHANGED <<n, pending>>

\* Fault: a timeout that was waited for is not reset.
ScheduleStale ==
    \E t \in IF packetTimeout < 1000 THEN SchedulingTimeouts ELSE {packetTimeout} :
       packetTimeout' = IF t > CheckInterval THEN CheckInterval ELSE t

(* packetTimeout is recomputed when it is below a millisecond, capped to   *)
(* the RTCP check interval, and reset unless a packet was dispatched.      *)
Schedule ==
    \E t \in IF packetTimeout < 1000 THEN SchedulingTimeouts ELSE {packetTimeout} :
       LET capped == IF t > CheckInterval THEN CheckInterval ELSE t
       IN packetTimeout' = IF capped < 1000 THEN capped ELSE 0

DataServices ==
    /\ pc = "inData"
    /\ \/ /\ session # NoSession
          /\ TakeIn(session)
          /\ Schedule
       \/ /\ session = NoSession
          /\ UNCHANGED <<n, pending, packetTimeout>>
    /\ unlock(Service)
    /\ i' = i + 1 /\ session' = NoSession
    /\ pc' = "data"
    /\ UNCHANGED <<pool, app, sessions, recvSocketSet, highestSocket>>

BeginPurge ==
    /\ pc = "data" /\ i > Len(sessions)
    /\ writeLock(Service)
    /\ i' = 1
    /\ pc' = "purge"
    /\ UNCHANGED <<pool, app, sessions, session, io, pending>>

\* Fault: the iterator moves on after an erase, skipping an element.
PurgeSkipping ==
    /\ pc = "purge" /\ i <= Len(sessionList)
    /\ LET e == sessionList[i] IN
       \/ /\ cleared[e]
          /\ sessionList' = RemoveAt(sessionList, i)
       \/ /\ ~cleared[e]
          /\ UNCHANGED sessionList
    /\ i' = i + 1
    /\ UNCHANGED <<allocated, elem, cleared, live, removals, lock, app, pc,
                   sessions, session, io, pending>>

\* Fault: the iterator is moved back after an erase.
PurgeStepsBack ==
    /\ pc = "purge" /\ i <= Len(sessionList)
    /\ LET e == sessionList[i] IN
       \/ /\ cleared[e]
          /\ sessionList' = RemoveAt(sessionList, i)
          /\ allocated' = allocated \ {e}
          /\ cleared' = [cleared EXCEPT ![e] = FALSE]
          /\ i' = i - 1
       \/ /\ ~cleared[e]
          /\ i' = i + 1
          /\ UNCHANGED <<sessionList, allocated, cleared>>
    /\ UNCHANGED <<elem, live, removals, lock, app, pc, sessions, session, io,
                   pending>>

Purge ==
    /\ pc = "purge" /\ i <= Len(sessionList)
    /\ LET e == sessionList[i] IN
       \/ /\ cleared[e]
          /\ sessionList' = RemoveAt(sessionList, i)
          /\ allocated' = allocated \ {e}
          /\ cleared' = [cleared EXCEPT ![e] = FALSE]   \* its contents are gone
          /\ UNCHANGED i
       \/ /\ ~cleared[e]
          /\ i' = i + 1
          /\ UNCHANGED <<sessionList, allocated, cleared>>
    /\ UNCHANGED <<elem, live, removals, lock, app, pc, sessions, session, io,
                   pending>>

EndPurge ==
    /\ pc = "purge" /\ i > Len(sessionList)
    /\ unlock(Service)
    /\ sessions' = << >> /\ i' = 1 /\ n' = 0     \* locals of the loop body
    /\ pc' = "copy"
    /\ UNCHANGED <<pool, app, session, recvSocketSet, highestSocket,
                   packetTimeout, pending>>

-----------------------------------------------------------------------------
(* A datagram arrives at the data socket of a session (one is enough).     *)
Arrive(s) ==
    /\ s \in live /\ pending[s] = 0
    /\ pending' = [pending EXCEPT ![s] = 1]
    /\ UNCHANGED <<pool, lock, app, pc, loop, io>>

AppBody(a) == addSession(a) \/ removeSession(a) \/ getPoolLength(a)

App(a) ==
    \/ \E s \in Sessions : BeginAdd(a, s) \/ BeginRemove(a, s)
    \/ BeginGetPoolLength(a)
    \/ AppBody(a)

Run ==
    \/ startRunning \/ BeginCopy \/ CopyList
    \/ BeginControl \/ ControlServices
    \/ BeginFdSet \/ FdSet \/ EndFdSet \/ select
    \/ BeginData \/ DataServices
    \/ BeginPurge \/ Purge \/ EndPurge

Next ==
    \/ \E s \in Sessions : NewSession(s) \/ Arrive(s)
    \/ \E a \in Apps : App(a)
    \/ Run

Spec == Init /\ [][Next]_vars

(* The service thread never stops (nothing clears poolActive), waiters for *)
(* poolLock are not starved, and a pool operation that began finishes.     *)
FairSpec ==
    /\ Spec
    /\ SF_vars(Run)
    /\ \A a \in Apps : WF_vars(AppBody(a))

-----------------------------------------------------------------------------
ServicePcs == {"new", "copy", "copying", "control", "inControl", "fdset",
               "select", "data", "inData", "purge"}

(* The variables have the types the code declares. *)
TypeOK ==
    /\ sessionList \in Seq(Elements)
    /\ allocated \subseteq Elements
    /\ elem \in [Elements -> Sessions \cup {NoSession}]
    /\ cleared \in [Elements -> BOOLEAN]
    /\ live \subseteq Sessions
    /\ readers \subseteq Threads
    /\ writer \in Threads \cup {NoThread}
    /\ appPc \in [Apps -> {"idle", "add", "remove", "length"}]
    /\ appArg \in [Apps -> Sessions \cup {NoSession}]
    /\ pc \in ServicePcs
    /\ sessions \in Seq(Elements)
    /\ i \in Nat \ {0}
    /\ session \in Sessions \cup {NoSession}
    /\ recvSocketSet \subseteq Nat /\ IsFiniteSet(recvSocketSet)
    /\ highestSocket \in Nat
    /\ n \in Int
    /\ packetTimeout \in Nat
    /\ pending \in [Sessions -> 0..1]
    /\ removals \in Nat

(* While run serves a list element, the element exists and the session it  *)
(* read from it has not been deleted by a removeSession of another thread: *)
(* the control services, takeInDataPacket and dispatchDataPacket only ever *)
(* run on live sessions.                                                   *)
ServedSessionLive ==
    pc \in {"inControl", "inData"} =>
        /\ sessions[i] \in allocated
        /\ session \in live \cup {NoSession}

(* Elements the service thread still has to visit in its private copy of   *)
(* the list were not deleted behind its back, whatever the applications    *)
(* removed since the copy was made.                                        *)
CopyNotDangling ==
    pc \in {"control", "inControl", "fdset", "select", "data", "inData"} =>
        \A k \in 1..Len(sessions) : sessions[k] \in allocated

(* addSession refuses a session that is in the list: no session is served  *)
(* twice in a round, and none is deleted twice by removeSession.           *)
NoDuplicateSession ==
    \A j, k \in 1..Len(sessionList) :
        elem[sessionList[j]] = elem[sessionList[k]]
            => j = k \/ elem[sessionList[j]] = NoSession

(* poolLock in the states of the threads: who holds it, and how.           *)
LockInv ==
    /\ writer # NoThread => readers = {}
    /\ pc \in {"copying", "inControl", "fdset", "inData"} <=> Service \in readers
    /\ pc = "purge" <=> writer = Service
    /\ \A a \in Apps : appPc[a] \in {"add", "remove"} <=> writer = a
    /\ \A a \in Apps : appPc[a] = "add" => appArg[a] \in live

(* The list holds every existing element exactly once; an element that is  *)
(* not cleared refers to a session that exists and to which no other       *)
(* element refers.                                                         *)
ListInv ==
    /\ \A k \in 1..Len(sessionList) : sessionList[k] \in allocated
    /\ \A e \in allocated : \E k \in 1..Len(sessionList) : sessionList[k] = e
    /\ \A j, k \in 1..Len(sessionList) : sessionList[j] = sessionList[k] => j = k
    /\ \A e \in allocated : ~cleared[e] => elem[e] \in live
    /\ \A e \in allocated : cleared[e] => elem[e] = NoSession
    /\ \A e, f \in allocated : elem[e] = elem[f] => e = f \/ elem[e] = NoSession

(* While an element is served the iterator is inside the private copy and  *)
(* the session read from the element is still its session.                 *)
IterInv ==
    pc \in {"inControl", "inData"} =>
        /\ i <= Len(sessions)
        /\ session \in {elem[sessions[i]], NoSession}

(* The inductive invariant behind the safety properties: who holds         *)
(* poolLock, what the list refers to, and that the private copy of the     *)
(* service thread only has elements that exist.                            *)
IndInv == TypeOK /\ LockInv /\ ListInv /\ IterInv /\ CopyNotDangling

(* packetTimeout is shared by all sessions; a wait computed for one of     *)
(* them is never taken for the schedule of the next one.                   *)
TimeoutRecomputed == pc = "inData" => packetTimeout < 1000

(* "highest socket number + 1" (pool.h): the first argument of select is   *)
(* above every descriptor in the set it is given.                          *)
HighestSocketPlusOne ==
    pc = "select" => \A fd \in recvSocketSet : fd < highestSocket

(* The element of a removed session is eventually unlinked and deleted.    *)
RemovedIsPurged ==
    \A e \in Elements :
        (pc # "new" /\ e \in allocated /\ cleared[e]) ~> e \notin allocated

(* A datagram for a session of the running pool is eventually taken in     *)
(* unless the session is removed first.                                    *)
PendingIsTakenIn ==
    \A s \in Sessions :
        (pc # "new" /\ Found(s) # {} /\ pending[s] > 0)
            ~> (pending[s] = 0 \/ Found(s) = {})
=============================================================================
