------------------------- MODULE SessionPoolProofs -------------------------
(***************************************************************************)
(* For every set of sessions, elements and application threads: the        *)
(* service thread of the pool only works on sessions and elements that     *)
(* exist, and no session is in the list twice.                             *)
(***************************************************************************)
EXTENDS SessionPool, SequenceTheorems, FiniteSetTheorems, TLAPS

(* What std::list::erase leaves: RemoveAt drops one position and moves the *)
(* later ones down.                                                        *)
LEMMA RemoveAtProperties ==
    ASSUME NEW S, NEW s \in Seq(S), NEW k \in 1..Len(s)
    PROVE  /\ RemoveAt(s, k) \in Seq(S)
           /\ Len(RemoveAt(s, k)) = Len(s) - 1
           /\ \A j \in 1..(Len(s) - 1) :
                 RemoveAt(s, k)[j] = IF j < k THEN s[j] ELSE s[j + 1]
<1> DEFINE l == SubSeq(s, 1, k - 1)
           r == SubSeq(s, k + 1, Len(s))
<1>1. /\ l \in Seq(S) /\ Len(l) = k - 1
      /\ \A j \in 1..(k - 1) : l[j] = s[j]
  <2>1. \A j \in 1..(k - 1) : s[j] \in S
    BY ElementOfSeq, LenProperties
  <2> QED BY <2>1, SubSeqProperties, LenProperties
<1>2. /\ r \in Seq(S) /\ Len(r) = Len(s) - k
      /\ \A j \in 1..(Len(s) - k) : r[j] = s[k + j]
  <2>1. \A j \in (k + 1)..Len(s) : s[j] \in S
    BY ElementOfSeq, LenProperties
  <2>2. /\ r \in Seq(S)
        /\ Len(r) = IF k + 1 <= Len(s) THEN Len(s) - (k + 1) + 1 ELSE 0
        /\ \A j \in 1..(Len(s) - (k + 1) + 1) : r[j] = s[(k + 1) + j - 1]
    BY <2>1, SubSeqProperties, LenProperties
  <2> QED BY <2>2, LenProperties
<1>3. /\ l \o r \in Seq(S) /\ Len(l \o r) = Len(l) + Len(r)
      /\ \A j \in 1..(Len(l) + Len(r)) :
            (l \o r)[j] = IF j <= Len(l) THEN l[j] ELSE r[j - Len(l)]
  BY <1>1, <1>2, ConcatProperties
<1> HIDE DEF l, r
<1>4. RemoveAt(s, k) = l \o r
  BY DEF RemoveAt, l, r
<1>5. \A j \in 1..(Len(s) - 1) :
         (l \o r)[j] = IF j < k THEN s[j] ELSE s[j + 1]
  BY <1>1, <1>2, <1>3, LenProperties
<1> QED BY <1>1, <1>2, <1>3, <1>4, <1>5, LenProperties

-----------------------------------------------------------------------------
(* The three parts of the inductive invariant, action by action.           *)
LEMMA InitInv == Init => IndInv
BY SessionPoolAssumption, EmptySeq, FS_EmptySet
   DEF Init, IndInv, TypeOK, LockInv, ListInv, IterInv, CopyNotDangling,
       Threads, ServicePcs

LEMMA NewSessionInv ==
    ASSUME IndInv, NEW s \in Sessions, NewSession(s)
    PROVE  IndInv'
BY SessionPoolAssumption
   DEF NewSession, IndInv, TypeOK, LockInv, ListInv, IterInv, CopyNotDangling,
       lock, app, loop, io

LEMMA ArriveInv ==
    ASSUME IndInv, NEW s \in Sessions, Arrive(s)
    PROVE  IndInv'
BY SessionPoolAssumption
   DEF Arrive, IndInv, TypeOK, LockInv, ListInv, IterInv, CopyNotDangling,
       pool, lock, app, loop, io

LEMMA BeginInv ==
    ASSUME IndInv, NEW a \in Apps,
           \/ \E s \in Sessions : BeginAdd(a, s) \/ BeginRemove(a, s)
           \/ BeginGetPoolLength(a)
    PROVE  IndInv'
<1>1. ASSUME NEW s \in Sessions, BeginAdd(a, s)
      PROVE  IndInv'
  BY <1>1, SessionPoolAssumption
     DEF BeginAdd, writeLock, IndInv, TypeOK, LockInv, ListInv, IterInv,
         CopyNotDangling, pool, loop, io, Threads
<1>2. ASSUME NEW s \in Sessions, BeginRemove(a, s)
      PROVE  IndInv'
  BY <1>2, SessionPoolAssumption
     DEF BeginRemove, writeLock, IndInv, TypeOK, LockInv, ListInv, IterInv,
         CopyNotDangling, pool, loop, io, Threads
<1>3. ASSUME BeginGetPoolLength(a)
      PROVE  IndInv'
  BY <1>3, SessionPoolAssumption
     DEF BeginGetPoolLength, readLock, IndInv, TypeOK, LockInv, ListInv,
         IterInv, CopyNotDangling, pool, loop, io, Threads
<1> QED BY <1>1, <1>2, <1>3

LEMMA GetPoolLengthInv ==
    ASSUME IndInv, NEW a \in Apps, getPoolLength(a)
    PROVE  IndInv'
BY SessionPoolAssumption
   DEF getPoolLength, unlock, IndInv, TypeOK, LockInv, ListInv, IterInv,
       CopyNotDangling, pool, loop, io, Threads

LEMMA AddSessionInv ==
    ASSUME IndInv, NEW a \in Apps, addSession(a)
    PROVE  IndInv'
<1> USE SessionPoolAssumption
<1>1. CASE Found(appArg[a]) # {}
  <2>1. UNCHANGED <<sessionList, allocated, elem, cleared, live>>
    BY <1>1 DEF addSession
  <2>2. TypeOK'
    BY <2>1 DEF addSession, unlock, IndInv, TypeOK, loop, io, Threads
  <2>3. LockInv' /\ ListInv' /\ IterInv' /\ CopyNotDangling'
    BY <2>1 DEF addSession, unlock, IndInv, TypeOK, LockInv, ListInv, IterInv,
                CopyNotDangling, loop
  <2> QED BY <2>2, <2>3 DEF IndInv
<1>2. CASE Found(appArg[a]) = {}
  <2>1. PICK e \in Elements \ allocated :
           /\ allocated' = allocated \cup {e}
           /\ elem' = [elem EXCEPT ![e] = appArg[a]]
           /\ cleared' = [cleared EXCEPT ![e] = FALSE]
           /\ sessionList' = Append(sessionList, e)
    BY <1>2 DEF addSession
  <2>2. /\ sessionList' \in Seq(Elements)
        /\ Len(sessionList') = Len(sessionList) + 1
        /\ \A k \in 1..Len(sessionList) : sessionList'[k] = sessionList[k]
        /\ sessionList'[Len(sessionList) + 1] = e
    BY <2>1, AppendProperties DEF IndInv, TypeOK
  <2>3. appArg[a] \in live /\ live' = live
    BY DEF addSession, IndInv, LockInv
  <2>4. \A f \in allocated : elem[f] # appArg[a]
    BY <1>2 DEF Found, IndInv, ListInv
  <2>5. TypeOK'
    BY <2>1, <2>2 DEF addSession, unlock, IndInv, TypeOK, loop, io, Threads
  <2>6. LockInv'
    BY DEF addSession, unlock, IndInv, TypeOK, LockInv, Threads
  <2>7. ListInv'
    <3>1. Len(sessionList) \in Nat
      BY LenProperties DEF IndInv, TypeOK
    <3>2. \A k \in 1..Len(sessionList') : sessionList'[k] \in allocated'
      BY <2>1, <2>2, <3>1 DEF IndInv, ListInv
    <3>3. \A f \in allocated' : \E k \in 1..Len(sessionList') : sessionList'[k] = f
      <4> SUFFICES ASSUME NEW f \in allocated'
                   PROVE  \E k \in 1..Len(sessionList') : sessionList'[k] = f
        OBVIOUS
      <4>1. CASE f = e
        BY <4>1, <2>2, <3>1
      <4>2. CASE f \in allocated
        <5>1. PICK k \in 1..Len(sessionList) : sessionList[k] = f
          BY <4>2 DEF IndInv, ListInv
        <5> QED BY <5>1, <2>2, <3>1
      <4> QED BY <4>1, <4>2, <2>1
    <3>4. \A j, k \in 1..Len(sessionList') :
             sessionList'[j] = sessionList'[k] => j = k
      BY <2>1, <2>2, <3>1 DEF IndInv, ListInv
    <3>5. /\ \A f \in allocated' : ~cleared'[f] => elem'[f] \in live'
          /\ \A f \in allocated' : cleared'[f] => elem'[f] = NoSession
      BY <2>1, <2>3 DEF IndInv, ListInv, TypeOK
    <3>6. \A f, g \in allocated' :
             elem'[f] = elem'[g] => f = g \/ elem'[f] = NoSession
      BY <2>1, <2>4 DEF IndInv, ListInv, TypeOK
    <3> QED BY <3>2, <3>3, <3>4, <3>5, <3>6 DEF ListInv
  <2>8. IterInv' /\ CopyNotDangling'
    <3>1. pc' = pc /\ pc \notin {"inControl", "inData"}
      BY DEF addSession, IndInv, LockInv, TypeOK
    <3> QED BY <2>1, <3>1 DEF addSession, IndInv, IterInv, CopyNotDangling, loop
  <2> QED BY <2>5, <2>6, <2>7, <2>8 DEF IndInv
<1> QED BY <1>1, <1>2

LEMMA RemoveSessionInv ==
    ASSUME IndInv, NEW a \in Apps, removeSession(a)
    PROVE  IndInv'
<1> USE SessionPoolAssumption
<1>1. CASE UNCHANGED <<pool, pending>>
  BY <1>1
     DEF removeSession, unlock, IndInv, TypeOK, LockInv, ListInv, IterInv,
         CopyNotDangling, pool, loop, io, Threads
<1>2. CASE ~ UNCHANGED <<pool, pending>>
  <2>1. PICK k \in Found(appArg[a]) : clear(sessionList[k])
    BY <1>2 DEF removeSession
  <2>2. /\ removals' = removals + 1
        /\ UNCHANGED <<sessionList, allocated>>
    BY <1>2 DEF removeSession
  <2> DEFINE e == sessionList[k]
  <2>3. e \in allocated /\ e \in Elements
    BY <2>1 DEF Found, IndInv, ListInv, TypeOK
  <2>4. writer = a /\ \A b \in Apps : b # a => appPc[b] # "add"
    BY DEF removeSession, IndInv, LockInv, TypeOK
  <2>5. TypeOK'
    BY <2>1, <2>2, <2>3
       DEF removeSession, clear, unlock, IndInv, TypeOK, loop, io, Threads
  <2>6. LockInv'
    BY <2>4 DEF removeSession, unlock, IndInv, TypeOK, LockInv, Threads
  <2>7. ListInv'
    <3>1. /\ cleared' = [cleared EXCEPT ![e] = TRUE]
          /\ elem' = [elem EXCEPT ![e] = NoSession]
          /\ live' = live \ {elem[e]}
      BY <2>1 DEF clear
    <3>2. \A f \in allocated : f # e => elem[f] # elem[e] \/ elem[f] = NoSession
      BY <2>3 DEF IndInv, ListInv
    <3> HIDE DEF e
    <3>3. \A f \in allocated : ~cleared'[f] => elem'[f] \in live'
      BY <2>3, <3>1, <3>2 DEF IndInv, ListInv, TypeOK
    <3>4. /\ \A f \in allocated : cleared'[f] => elem'[f] = NoSession
          /\ \A f, g \in allocated :
                elem'[f] = elem'[g] => f = g \/ elem'[f] = NoSession
      BY <2>3, <3>1 DEF IndInv, ListInv, TypeOK
    <3> QED BY <2>2, <3>3, <3>4 DEF IndInv, ListInv
  <2>8. IterInv' /\ CopyNotDangling'
    <3>1. pc' = pc /\ pc \notin {"inControl", "inData"}
      BY DEF removeSession, IndInv, LockInv, TypeOK
    <3> QED BY <2>2, <3>1
            DEF removeSession, IndInv, IterInv, CopyNotDangling, loop
  <2> QED BY <2>5, <2>6, <2>7, <2>8 DEF IndInv
<1> QED BY <1>1, <1>2

(* The steps of run that leave the list alone.                             *)
LEMMA RunReadInv ==
    ASSUME IndInv,
           startRunning \/ BeginCopy \/ CopyList \/ BeginControl
              \/ ControlServices \/ EndFdSet \/ BeginData \/ BeginPurge
              \/ EndPurge
    PROVE  IndInv'
<1> USE SessionPoolAssumption
    DEF IndInv, TypeOK, LockInv, ListInv, IterInv, CopyNotDangling, ServicePcs,
        Threads, pool, lock, app, loop, io, readLock, writeLock, unlock, Get
<1>1. CASE startRunning   BY <1>1 DEF startRunning
<1>2. CASE BeginCopy      BY <1>2 DEF BeginCopy
<1>3. CASE CopyList       BY <1>3 DEF CopyList
<1>4. CASE BeginControl   BY <1>4 DEF BeginControl
<1>5. CASE ControlServices BY <1>5 DEF ControlServices
<1>6. CASE EndFdSet       BY <1>6 DEF EndFdSet
<1>7. CASE BeginData      BY <1>7 DEF BeginData
<1>8. CASE BeginPurge     BY <1>8 DEF BeginPurge
<1>9. CASE EndPurge       BY <1>9, EmptySeq DEF EndPurge
<1> QED BY <1>1, <1>2, <1>3, <1>4, <1>5, <1>6, <1>7, <1>8, <1>9

LEMMA FdSetInv ==
    ASSUME IndInv, BeginFdSet \/ FdSet
    PROVE  IndInv'
<1> USE SessionPoolAssumption
<1>1. CASE BeginFdSet
  BY <1>1, FS_EmptySet
     DEF BeginFdSet, readLock, IndInv, TypeOK, LockInv, ListInv, IterInv,
         CopyNotDangling, ServicePcs, Threads, pool, app
<1>2. CASE FdSet
  <2> DEFINE e == sessions[i]
  <2>1. e \in Elements /\ e \in allocated
    BY <1>2 DEF FdSet, IndInv, TypeOK, CopyNotDangling
  <2>2. ~cleared[e] => Socket[elem[e]] \in Nat
    BY <2>1 DEF IndInv, TypeOK, ListInv
  <2>3. recvSocketSet' \subseteq Nat /\ IsFiniteSet(recvSocketSet')
    <3>1. IsFiniteSet(recvSocketSet \cup {Socket[elem[e]]})
      BY FS_AddElement DEF IndInv, TypeOK
    <3> QED BY <1>2, <2>2, <3>1 DEF FdSet, IndInv, TypeOK
  <2>4. highestSocket' \in Nat
    BY <1>2, <2>2 DEF FdSet, IndInv, TypeOK
  <2>5. TypeOK'
    BY <1>2, <2>3, <2>4 DEF FdSet, IndInv, TypeOK, pool, lock, app
  <2>6. LockInv' /\ ListInv' /\ IterInv' /\ CopyNotDangling'
    BY <1>2 DEF FdSet, IndInv, LockInv, ListInv, IterInv, CopyNotDangling,
                pool, lock, app
  <2> QED BY <2>5, <2>6 DEF IndInv
<1> QED BY <1>1, <1>2

LEMMA SelectInv ==
    ASSUME IndInv, select
    PROVE  IndInv'
<1> USE SessionPoolAssumption
<1>1. recvSocketSet' \subseteq recvSocketSet /\ n' \in Int
  <2> DEFINE watched == {fd \in recvSocketSet : fd < highestSocket}
             ready   == {fd \in watched :
                            \E s \in live : Socket[s] = fd /\ pending[s] > 0}
  <2>1. IsFiniteSet(ready) /\ ready \subseteq recvSocketSet
    BY FS_Subset DEF IndInv, TypeOK
  <2>2. Cardinality(ready) \in Int
    BY <2>1, FS_CardinalityType
  <2> QED BY <2>1, <2>2 DEF select
<1>2. IsFiniteSet(recvSocketSet')
  BY <1>1, FS_Subset DEF IndInv, TypeOK
<1>3. TypeOK'
  BY <1>1, <1>2 DEF select, IndInv, TypeOK, ServicePcs, pool, lock, app
<1>4. LockInv' /\ ListInv' /\ IterInv' /\ CopyNotDangling'
  BY DEF select, IndInv, LockInv, ListInv, IterInv, CopyNotDangling,
         pool, lock, app
<1> QED BY <1>3, <1>4 DEF IndInv

LEMMA DataServicesInv ==
    ASSUME IndInv, DataServices
    PROVE  IndInv'
<1> USE SessionPoolAssumption
<1>1. n' \in Int /\ pending' \in [Sessions -> 0..1]
  <2>1. CASE session = NoSession
    BY <2>1 DEF DataServices, IndInv, TypeOK
  <2>2. CASE session # NoSession
    <3>1. session \in Sessions /\ TakeIn(session)
      BY <2>2 DEF DataServices, IndInv, TypeOK
    <3> QED BY <3>1 DEF TakeIn, IndInv, TypeOK
  <2> QED BY <2>1, <2>2
<1>2. packetTimeout' \in Nat
  BY DEF DataServices, Schedule, IndInv, TypeOK
<1>3. TypeOK'
  BY <1>1, <1>2
     DEF DataServices, unlock, IndInv, TypeOK, ServicePcs, Threads, pool, app
<1>4. LockInv'
  BY DEF DataServices, unlock, IndInv, TypeOK, LockInv, pool, app
<1>5. ListInv' /\ IterInv' /\ CopyNotDangling'
  BY DEF DataServices, IndInv, ListInv, IterInv, CopyNotDangling, pool
<1> QED BY <1>3, <1>4, <1>5 DEF IndInv

LEMMA PurgeInv ==
    ASSUME IndInv, Purge
    PROVE  IndInv'
<1> USE SessionPoolAssumption
<1> DEFINE e == sessionList[i]
<1>1. i \in 1..Len(sessionList) /\ e \in Elements /\ e \in allocated
  BY DEF Purge, IndInv, TypeOK, ListInv
<1>2. CASE ~cleared[e]
  <2>1. i' = i + 1 /\ UNCHANGED <<sessionList, allocated, cleared>>
    BY <1>2 DEF Purge
  <2>2. TypeOK'
    BY <2>1 DEF Purge, IndInv, TypeOK, lock, app, io
  <2>3. LockInv' /\ ListInv' /\ IterInv' /\ CopyNotDangling'
    BY <2>1 DEF Purge, IndInv, LockInv, ListInv, IterInv, CopyNotDangling,
                lock, app
  <2> QED BY <2>2, <2>3 DEF IndInv
<1>3. CASE cleared[e]
  <2>1. /\ sessionList' = RemoveAt(sessionList, i)
        /\ allocated' = allocated \ {e}
        /\ cleared' = [cleared EXCEPT ![e] = FALSE]
        /\ UNCHANGED <<elem, live, i, pc, sessions>>
    BY <1>3 DEF Purge
  <2>2. /\ sessionList' \in Seq(Elements)
        /\ Len(sessionList') = Len(sessionList) - 1
        /\ \A j \in 1..(Len(sessionList) - 1) :
              sessionList'[j] = IF j < i THEN sessionList[j]
                                         ELSE sessionList[j + 1]
    BY <1>1, <2>1, RemoveAtProperties DEF IndInv, TypeOK
  <2>3. TypeOK'
    BY <1>1, <2>1, <2>2 DEF Purge, IndInv, TypeOK, lock, app, io
  <2>4. LockInv'
    BY <2>1 DEF Purge, IndInv, LockInv, lock, app
  <2>5. ListInv'
    <3>1. Len(sessionList) \in Nat /\ i \in Nat
      BY <1>1, LenProperties DEF IndInv, TypeOK
    <3>2. \A k \in 1..Len(sessionList') : sessionList'[k] \in allocated'
      <4> SUFFICES ASSUME NEW k \in 1..Len(sessionList')
                   PROVE  sessionList'[k] \in allocated'
        OBVIOUS
      <4> DEFINE m == IF k < i THEN k ELSE k + 1
      <4>1. m \in 1..Len(sessionList) /\ m # i
        BY <1>1, <2>2, <3>1
      <4>2. sessionList'[k] = sessionList[m]
        BY <2>2
      <4> HIDE DEF m
      <4>3. sessionList[m] \in allocated /\ sessionList[m] # e
        BY <1>1, <4>1 DEF IndInv, ListInv
      <4> QED BY <2>1, <4>2, <4>3
    <3>3. \A f \in allocated' :
             \E k \in 1..Len(sessionList') : sessionList'[k] = f
      <4> SUFFICES ASSUME NEW f \in allocated'
                   PROVE  \E k \in 1..Len(sessionList') : sessionList'[k] = f
        OBVIOUS
      <4>1. PICK k \in 1..Len(sessionList) : sessionList[k] = f
        BY <2>1 DEF IndInv, ListInv
      <4>2. k # i
        BY <2>1, <4>1
      <4>3. CASE k < i
        BY <1>1, <2>2, <3>1, <4>1, <4>3
      <4>4. CASE k > i
        <5>1. k - 1 \in 1..Len(sessionList') /\ sessionList'[k - 1] = f
          BY <1>1, <2>2, <3>1, <4>1, <4>4
        <5> QED BY <5>1
      <4> QED BY <3>1, <4>2, <4>3, <4>4
    <3>4. \A j, k \in 1..Len(sessionList') :
             sessionList'[j] = sessionList'[k] => j = k
      BY <1>1, <2>2, <3>1 DEF IndInv, ListInv
    <3>5. /\ \A f \in allocated' : ~cleared'[f] => elem'[f] \in live'
          /\ \A f \in allocated' : cleared'[f] => elem'[f] = NoSession
          /\ \A f, g \in allocated' :
                elem'[f] = elem'[g] => f = g \/ elem'[f] = NoSession
      BY <2>1 DEF IndInv, ListInv, TypeOK
    <3> QED BY <3>2, <3>3, <3>4, <3>5 DEF ListInv
  <2>6. IterInv' /\ CopyNotDangling'
    BY <2>1 DEF Purge, IterInv, CopyNotDangling
  <2> QED BY <2>3, <2>4, <2>5, <2>6 DEF IndInv
<1> QED BY <1>2, <1>3

LEMMA NextInv == IndInv /\ [Next]_vars => IndInv'
<1> SUFFICES ASSUME IndInv, [Next]_vars
             PROVE  IndInv'
  OBVIOUS
<1>1. ASSUME NEW s \in Sessions, NewSession(s) \/ Arrive(s)
      PROVE  IndInv'
  BY <1>1, NewSessionInv, ArriveInv
<1>2. ASSUME NEW a \in Apps, App(a)
      PROVE  IndInv'
  BY <1>2, BeginInv, AddSessionInv, RemoveSessionInv, GetPoolLengthInv
     DEF App, AppBody
<1>3. CASE Run
  BY <1>3, RunReadInv, FdSetInv, SelectInv, DataServicesInv, PurgeInv DEF Run
<1>4. CASE UNCHANGED vars
  BY <1>4 DEF vars, pool, lock, app, loop, io, IndInv, TypeOK, LockInv,
              ListInv, IterInv, CopyNotDangling
<1> QED BY <1>1, <1>2, <1>3, <1>4 DEF Next

-----------------------------------------------------------------------------
(* The invariant that ties poolLock, the list and the private copy of the  *)
(* service thread together holds in every reachable state.                 *)
THEOREM PoolInvariant == Spec => []IndInv
BY InitInv, NextInv, PTL DEF Spec

(* The service thread never works on a session that removeSession has      *)
(* deleted, nor looks at a list element that no longer exists.             *)
THEOREM ServedSessionIsLive == Spec => []ServedSessionLive
<1>1. IndInv => ServedSessionLive
  <2> SUFFICES ASSUME IndInv, pc \in {"inControl", "inData"}
               PROVE  sessions[i] \in allocated /\ session \in live \cup {NoSession}
    BY DEF ServedSessionLive
  <2>1. i \in 1..Len(sessions)
    BY DEF IndInv, TypeOK, IterInv
  <2>2. sessions[i] \in allocated
    BY <2>1 DEF IndInv, CopyNotDangling
  <2>3. elem[sessions[i]] \in live \cup {NoSession}
    BY <2>2 DEF IndInv, ListInv
  <2> QED BY <2>2, <2>3 DEF IndInv, IterInv
<1> QED BY <1>1, PoolInvariant, PTL

(* Elements of the private copy exist until the thread's own purge.        *)
THEOREM CopyIsNotDangling == Spec => []CopyNotDangling
<1>1. IndInv => CopyNotDangling
  BY DEF IndInv
<1> QED BY <1>1, PoolInvariant, PTL

(* No session is in the list twice, so none is served twice in a round or  *)
(* deleted twice.                                                          *)
THEOREM SessionsAreUnique == Spec => []NoDuplicateSession
<1>1. IndInv => NoDuplicateSession
  BY DEF IndInv, ListInv, NoDuplicateSession
<1> QED BY <1>1, PoolInvariant, PTL

=============================================================================
