---------------------------- MODULE RtcpControl -----------------------------
(***************************************************************************)
(* The sources a session knows and the times of its RTCP packets: the hash *)
(* table and the member count of MembershipBookkeeping (members.cpp), and  *)
(* the control services of QueueRTCPManager (control.cpp) that fill it and *)
(* that schedule reports from it.  One thread runs all of this, in the     *)
(* order of run (rtp.h); the network and the clock act at any time.        *)
(***************************************************************************)
EXTENDS Integers, FiniteSets, SequencesExt

CONSTANTS
    SSRCs,              \* identifiers of remote sources
    sourceBucketsNum,
    CountModulus,       \* 2^32: the member count is a uint32
    WordModulus,        \* 2^32 microseconds: a microtimeout_t
    rtcpMinInterval,    \* least time between reports
    PerMember,          \* rtcpAvgSize / bwfract: reporting time per member
    Randoms,            \* the random factors, from 0.5 to 1.5, in eighths
    rtcpCheckInterval,
    Backoff,            \* 50: more members than this make dispatchBYE wait
    Compounds,          \* compound packets the network delivers: reporter
                        \* ssrc, SDES packets, blocks of the BYE packet
    StartTime,          \* the clock when the session starts, long after 0
    MaxPending,         \* bound: compounds waiting at the control socket
    MaxTime             \* bound: the clock stops here

ASSUME RtcpControlAssumption ==
    /\ SSRCs \subseteq Nat /\ sourceBucketsNum \in Nat \ {0}
    /\ CountModulus \in Nat \ {0} /\ WordModulus \in Nat \ {0}
    /\ rtcpMinInterval \in Nat \ {0} /\ PerMember \in Nat
    /\ Randoms \subseteq 4..11 /\ Randoms # {}
    /\ rtcpCheckInterval \in Nat \ {0} /\ Backoff \in Nat
    /\ \A c \in Compounds : c.ssrc \in SSRCs /\ c.sdes \in Seq(SSRCs) /\ c.bye \in Nat
    /\ StartTime \in Nat /\ StartTime >= rtcpCheckInterval
    /\ MaxPending \in Nat \ {0} /\ MaxTime \in Nat

VARIABLES
    db,             \* MembershipBookkeeping: sourceLinks (one collision list
                    \* per bucket), the list of sources, members, and per
                    \* source its flag and state; told: history, the
                    \* sources onNewSyncSource was called for
    t,              \* reconsInfo: rtcpTp, rtcpTn, rtcpTc, rtcpPMembers
    nextCheck, lastCheck,
    pending,        \* the compounds waiting at the control socket
    pc,             \* which service the thread is about to run
    now,
    lastReport,     \* history: the time of the last report, 0 for none
    said,           \* history: sources that said BYE
    polite          \* history: sources said BYE once, and nothing after it

vars == <<db, t, nextCheck, lastCheck, pending, pc, now, lastReport, said, polite>>

Init ==
    /\ db = [sourceLinks |-> [b \in 0..(sourceBucketsNum - 1) |-> << >>],
             list |-> << >>, members |-> 0,
             flag |-> [s \in SSRCs |-> FALSE],
             state |-> [s \in SSRCs |-> "unknown"], told |-> {}]
    /\ now = StartTime
    /\ t = [tp |-> 0, tn |-> 0, tc |-> 0, pMembers |-> 1]
    /\ nextCheck = now /\ lastCheck = now - rtcpCheckInterval
    /\ pending = << >> /\ pc = "receive"
    /\ lastReport = 0 /\ said = {} /\ polite = TRUE

-----------------------------------------------------------------------------
(* MembershipBookkeeping                                                   *)

HASH(ssrc) == (ssrc + ssrc \div 256) % sourceBucketsNum

(* Where the walk along the collision list of ssrc stops.                  *)
Walk(d, ssrc) ==
    LET list  == d.sourceLinks[HASH(ssrc)]
        stops == {k \in 1..Len(list) : list[k] >= ssrc}
    IN IF stops = {} THEN Len(list) + 1 ELSE Min(stops)

isRegistered(d, ssrc) ==
    LET list == d.sourceLinks[HASH(ssrc)]
        k    == Walk(d, ssrc)
    IN k <= Len(list) /\ list[k] = ssrc

\* Fault: a new source goes to the front of its collision list.
getSourceBySSRCFront(d, ssrc) ==
    IF isRegistered(d, ssrc) THEN d
    ELSE [d EXCEPT !.sourceLinks[HASH(ssrc)] = <<ssrc>> \o @,
                   !.list = Append(@, ssrc),
                   !.members = (@ + 1) % CountModulus]

(* Gets the source, or creates it in order in its collision list.          *)
getSourceBySSRC(d, ssrc) ==
    IF isRegistered(d, ssrc) THEN d
    ELSE [d EXCEPT !.sourceLinks[HASH(ssrc)] = InsertAt(@, Walk(d, ssrc), ssrc),
                   !.list = Append(@, ssrc),
                   !.members = (@ + 1) % CountModulus]

(* getHello and onNewSyncSource; getGoodbye, and onGotGoodbye with it.     *)
getHello(d, ssrc) ==
    IF d.flag[ssrc] THEN d
    ELSE [d EXCEPT !.flag[ssrc] = TRUE, !.told = @ \cup {ssrc}]

getGoodbye(d, ssrc) == [d EXCEPT !.flag[ssrc] = FALSE]

BYESource(d, ssrc) ==
    IF isRegistered(d, ssrc)
    THEN [d EXCEPT !.members = (@ - 1 + CountModulus) % CountModulus]
    ELSE d

-----------------------------------------------------------------------------
(* Timing                                                                  *)

Bigger(a, b) == IF a > b THEN a ELSE b

(* computeRTCPInterval for a number of members (no source is ever counted  *)
(* as a sender): the interval, times a random number.                      *)
computeRTCPInterval(members) ==
    LET interval == Bigger(members * PerMember, rtcpMinInterval)
    IN {(interval * r) \div 8 : r \in Randoms}

(* A time difference kept in a microtimeout_t and scaled by the members    *)
(* that are left.                                                          *)
Scaled(diff, members, pMembers) ==
    (((diff % WordModulus) * members) % WordModulus) \div pMembers

\* Fault: the ratio is the wrong way round.
reverseReconsiderationSwapped(r, members) ==
    IF members < r.pMembers /\ members > 0
    THEN [r EXCEPT !.tn = r.tc + Scaled(r.tn - r.tc, r.pMembers, members),
                   !.tp = r.tc + Scaled(r.tc - r.tp, r.pMembers, members),
                   !.pMembers = members]
    ELSE [r EXCEPT !.pMembers = members]

(* reverseReconsideration, after the member count went down.               *)
reverseReconsideration(r, members) ==
    IF members < r.pMembers
    THEN [r EXCEPT !.tn = r.tc + Scaled(r.tn - r.tc, members, r.pMembers),
                   !.tp = r.tc + Scaled(r.tc - r.tp, members, r.pMembers),
                   !.pMembers = members]
    ELSE [r EXCEPT !.pMembers = members]

-----------------------------------------------------------------------------
(* Reception                                                               *)

(* The network: a compound arrives at the control socket.                  *)
Deliver(c) ==
    /\ Len(pending) < MaxPending /\ pc # "gone"
    /\ pending' = Append(pending, c)
    /\ said' = IF c.bye > 0 THEN said \cup {c.ssrc} ELSE said
    /\ polite' = /\ polite /\ c.bye <= 1
                 /\ said \cap ({c.ssrc} \cup ToSet(c.sdes)) = {}
    /\ UNCHANGED <<db, t, nextCheck, lastCheck, pc, now, lastReport>>

(* getSourceBySSRC and, for a source that it created, getHello.            *)
Meet(d, ssrc) ==
    IF isRegistered(d, ssrc) THEN d ELSE getHello(getSourceBySSRC(d, ssrc), ssrc)

(* takeInDataPacket, as far as membership is concerned.                    *)
takeInDataPacket(ssrc) ==
    /\ pc = "receive"
    /\ db' = Meet(db, ssrc)
    /\ polite' = (polite /\ ssrc \notin said)
    /\ UNCHANGED <<t, nextCheck, lastCheck, pending, pc, now, lastReport, said>>

\* Fault: the source of a chunk is entered and not announced.
onGotSDESSilent(d, source, chunk) ==
    [getSourceBySSRC(d, chunk) EXCEPT !.state[source] = "active"]

(* onGotSDES, for an SDES packet of one chunk in a compound from source:   *)
(* onGotSDESChunk finds the CNAME every chunk has and trusts source.       *)
onGotSDES(d, source, chunk) ==
    getHello([getSourceBySSRC(d, chunk) EXCEPT !.state[source] = "active"], chunk)

\* Fault: the source is taken off the count without being marked.
getBYEUnmarked(st, ssrc) ==
    LET left == BYESource(getGoodbye(getSourceBySSRC(st.db, ssrc), ssrc), ssrc)
    IN [db |-> left, t |-> reverseReconsideration(st.t, left.members)]

(* One turn of the loop in getBYE: it looks at the first identifier of the *)
(* packet in every turn.                                                   *)
getBYE(st, ssrc) ==
    LET known == getSourceBySSRC(st.db, ssrc)
        left  == [BYESource(getGoodbye(known, ssrc), ssrc)
                    EXCEPT !.state[ssrc] = "leaving"]
    IN [db |-> left, t |-> reverseReconsideration(st.t, left.members)]

(* A compound: the report, the SDES packets, then the BYE packet.          *)
takeInControlPacket(st, c) ==
    LET sdes == FoldLeft(LAMBDA d, chunk : onGotSDES(d, c.ssrc, chunk),
                         Meet(st.db, c.ssrc), c.sdes)
    IN FoldLeft(LAMBDA s, k : getBYE(s, c.ssrc),
                [db |-> sdes, t |-> st.t], [k \in 1..c.bye |-> k])

\* Fault: the time for the next check is computed once.
NextCheckOnce(tc) ==
    nextCheck' = lastCheck + rtcpCheckInterval /\ lastCheck' = nextCheck

(* The do-while loop that moves the time for the next check past tc: turn  *)
(* k leaves Turn(k) in rtcpNextCheck and Turn(k - 1) in rtcpLastCheck, each *)
(* a check interval after what was there two turns before.                 *)
NextCheck(tc) ==
    LET Turn(k) == (IF k % 2 = 1 THEN lastCheck ELSE nextCheck)
                      + ((k + 1) \div 2) * rtcpCheckInterval
        done    == {k \in 1..(2 * MaxTime) : tc < Turn(k)}
    IN nextCheck' = Turn(Min(done)) /\ lastCheck' = Turn(Min(done) - 1)

controlReceptionService ==
    /\ pc = "receive" /\ pc' = "transmit"
    /\ \/ /\ now < nextCheck
          /\ t' = [t EXCEPT !.tc = now]
          /\ UNCHANGED <<db, nextCheck, lastCheck, pending>>
       \/ /\ now >= nextCheck
          /\ LET st == FoldLeft(takeInControlPacket,
                               [db |-> db, t |-> [t EXCEPT !.tc = now]], pending)
             IN db' = st.db /\ t' = st.t
          /\ pending' = << >>
          /\ NextCheck(now)
    /\ UNCHANGED <<now, lastReport, said, polite>>

-----------------------------------------------------------------------------
(* Transmission                                                            *)

\* Fault: a report is sent at the time set before, without reconsideration.
timerReconsiderationNot(interval) == TRUE

(* timerReconsideration: with the interval computed again, is it time?     *)
timerReconsideration(interval) == now >= t.tp + interval

controlTransmissionService ==
    /\ pc = "transmit" /\ pc' = "receive"
    /\ \/ /\ now < t.tn
          /\ t' = [t EXCEPT !.tc = now]
          /\ UNCHANGED <<lastCheck, lastReport>>
       \/ /\ now >= t.tn
          /\ \E interval \in computeRTCPInterval(db.members) :
             \/ /\ ~timerReconsideration(interval)
                /\ t' = [t EXCEPT !.tc = now, !.tn = t.tp + interval]
                /\ UNCHANGED <<lastCheck, lastReport>>
             \/ /\ timerReconsideration(interval)
                /\ lastReport' = now /\ lastCheck' = now
                /\ \E next \in computeRTCPInterval(db.members) :
                      t' = [tp |-> now, tc |-> now, tn |-> now + next,
                            pMembers |-> db.members]
    /\ UNCHANGED <<db, nextCheck, pending, now, said, polite>>

(* The stack ends: dispatchBYE sends its BYE at once, or not at all when   *)
(* nothing was sent before, or first backs off.                            *)
dispatchBYE ==
    /\ pc = "receive"
    /\ \/ /\ db.members <= Backoff \/ lastReport = 0
          /\ pc' = "gone" /\ UNCHANGED <<db, t>>
       \/ /\ db.members > Backoff
          /\ pc' = "backoff"
          /\ db' = [db EXCEPT !.members = 1]
          /\ \E interval \in computeRTCPInterval(1) :
                t' = [tp |-> now, tc |-> now, tn |-> now + interval, pMembers |-> 1]
    /\ UNCHANGED <<nextCheck, lastCheck, pending, now, lastReport, said, polite>>

\* Fault: the count goes below zero.
OnlyByeBelow(d, c) ==
    IF c.bye = 0 THEN d ELSE [getSourceBySSRC(d, c.ssrc) EXCEPT !.members = @ - 1]

(* The BYE packet of a compound that arrives while dispatchBYE waits.      *)
OnlyBye(d, c) ==
    IF c.bye = 0 THEN d
    ELSE BYESource(getGoodbye(getSourceBySSRC(d, c.ssrc), c.ssrc), c.ssrc)

(* One turn of the waiting loop: getOnlyBye returns when compounds wait or *)
(* at rtcpTn, then the time is reconsidered; or rtcpTn has passed already. *)
getOnlyBye ==
    /\ pc = "backoff"
    /\ \/ /\ pending # << >> \/ now >= t.tn
          /\ db' = FoldLeft(OnlyBye, db, pending) /\ pending' = << >>
          /\ \E interval \in computeRTCPInterval(db'.members) :
                /\ t' = [t EXCEPT !.tc = now, !.tn = t.tp + interval]
                /\ pc' = IF timerReconsideration(interval) THEN "gone" ELSE pc
       \/ /\ now >= t.tn /\ pc' = "gone" /\ t' = [t EXCEPT !.tc = now]
          /\ UNCHANGED <<db, pending>>
    /\ UNCHANGED <<nextCheck, lastCheck, now, lastReport, said, polite>>

Tick ==
    /\ now < MaxTime /\ pc # "gone" /\ now' = now + 1
    /\ UNCHANGED <<db, t, nextCheck, lastCheck, pending, pc, lastReport, said, polite>>

Next ==
    \/ \E c \in Compounds : Deliver(c)
    \/ \E ssrc \in SSRCs : takeInDataPacket(ssrc)
    \/ controlReceptionService \/ controlTransmissionService
    \/ dispatchBYE \/ getOnlyBye
    \/ Tick

Spec == Init /\ [][Next]_vars

-----------------------------------------------------------------------------
(* The variables have the types the code declares. *)
TypeOK ==
    /\ db.list \in Seq(SSRCs) /\ db.members \in 0..(CountModulus - 1)
    /\ db.flag \in [SSRCs -> BOOLEAN] /\ db.told \subseteq SSRCs
    /\ db.state \in [SSRCs -> {"unknown", "active", "leaving"}]
    /\ t \in [tp : Nat, tn : Nat, tc : 0..now, pMembers : 0..(CountModulus - 1)]
    /\ pending \in Seq(Compounds)
    /\ pc \in {"receive", "transmit", "backoff", "gone"}

(* The hash table and the list of sources hold the same sources, each one  *)
(* once: collision lists are in order, as the walks of isRegistered and    *)
(* getSourceBySSRC need them, and every listed source is found.            *)
TablesAgree ==
    /\ IsInjective(db.list)
    /\ \A b \in DOMAIN db.sourceLinks :
          LET list == db.sourceLinks[b]
          IN /\ \A j, k \in 1..Len(list) : j < k => list[j] < list[k]
             /\ ToSet(list) = {s \in ToSet(db.list) : HASH(s) = b}
    /\ \A s \in SSRCs : isRegistered(db, s) <=> s \in ToSet(db.list)

(* "Sources in statePrevalid and stateLeaving are not counted for the      *)
(* number of session members estimation" (sources.h): as long as sources   *)
(* say BYE once and nothing after it, getMembersCount, from which the      *)
(* reporting interval is computed, is the number of sources still there.   *)
MembersCounted ==
    polite /\ pc \in {"receive", "transmit"} =>
        db.members = Cardinality({s \in ToSet(db.list) : db.state[s] # "leaving"})

(* The application hears of every source by onNewSyncSource, whichever     *)
(* packet of whichever source made getSourceBySSRC enter it.               *)
SourcesAnnounced ==
    pc \in {"receive", "transmit"} => ToSet(db.list) \subseteq db.told

(* Two reports are at least half of the minimum interval apart, whatever   *)
(* BYEs and reconsideration make of the times of the previous and the next *)
(* one in between ("result of computeRTCPInterval will always be >= (times *)
(* a random number between 0.5 and 1.5)", cqueue.h).                       *)
ReportsKeepDistance ==
    [][lastReport # 0 /\ lastReport' # lastReport
          => lastReport' - lastReport >= rtcpMinInterval \div 2]_vars

(* A report never waits longer because a BYE came in before it was due:    *)
(* reverseReconsideration brings rtcpTn nearer, in 32-bit arithmetic too.  *)
ByeNeverPostpones ==
    [][pc = "receive" /\ pc' = "transmit" /\ now < t.tn => t'.tn <= t.tn]_vars

(* After controlReceptionService the next look at the control socket is in *)
(* the future and at most one check interval away, though the loop that    *)
(* computes it starts from two times, one of which sending a report moves. *)
ChecksGoOn ==
    pc = "transmit" => t.tc < nextCheck /\ nextCheck <= t.tc + rtcpCheckInterval

(* rtcpTp is the "time for previous RTCP packet" (control.cpp): never a    *)
(* time to come.                                                           *)
PreviousIsPast == t.tp <= now
=============================================================================
