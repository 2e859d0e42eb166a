--------------------------- MODULE OutgoingQueue ---------------------------
(***************************************************************************)
(* OutgoingDataQueue (outqueue.cpp, ccrtp/oqueue.h) driven by the thread   *)
(* of SingleThreadRTPSession (rtp.h): applications put packets in the      *)
(* sending queue, the thread sends each one at its timestamp or drops it   *)
(* when it is too late.  Time is in milliseconds, the grain at which run   *)
(* tells "now" from "later"; timestamps are in milliseconds of that clock. *)
(* The doubly linked list sendFirst .. sendLast is the sequence sendQueue. *)
(***************************************************************************)
EXTENDS Integers, SequencesExt

CONSTANTS
    Apps,               \* application threads
    Service,            \* the thread running SingleThreadRTPSession::run
    NoThread,           \* sendLock is free
    SeqModulus,         \* 2^16: sequence numbers wrap
    Stamps,             \* timestamps the applications use
    DataLens,           \* data sizes they use
    PartialOffsets,     \* offsets they pass to setPartial
    MaxSendSegmentSize,
    SchedulingTimeout,  \* returned when there is no packet to send
    ExpireTimeout,
    CheckInterval,      \* getRTCPCheckInterval
    MaxCalls,           \* bound: putData, sendImmediate and setMark calls
    MaxTime             \* bound: the clock stops here

ASSUME OutgoingQueueAssumption ==
    /\ Service \notin Apps /\ NoThread \notin Apps \cup {Service}
    /\ SeqModulus \in Nat \ {0}
    /\ Stamps \subseteq Nat /\ DataLens \subseteq Nat \ {0}
    /\ PartialOffsets \subseteq Nat
    /\ MaxSendSegmentSize \in Nat \ {0}
    /\ SchedulingTimeout \in Nat /\ ExpireTimeout \in Nat
    /\ CheckInterval \in Nat \ {0}
    /\ MaxCalls \in Nat /\ MaxTime \in Nat

VARIABLES
    sendQueue,          \* packets from sendFirst to sendLast
    sendSeq, marked,    \* sendInfo.sendSeq, sendInfo.marked
    packetCount,        \* sendInfo.packetCount
    sendLock,           \* the thread that has write-locked sendLock
    appPc, call, packet,    \* per application: where, in which call, on what
    pc, timeout, head,      \* run: where, its timeout, the packet examined
    active,             \* dataServiceActive
    now,                \* gettimeofday
    created, calls, marks,  \* history: packets built, calls and marks made
    wire, expired, purged   \* history: what became of the packets

queue == <<sendQueue, sendLock>>
info  == <<sendSeq, marked, packetCount>>
app   == <<appPc, call, packet>>
run   == <<pc, timeout, head>>
hist  == <<created, calls, marks, wire, expired, purged>>
vars  == <<queue, info, app, run, active, now, hist>>

NoCall   == [op |-> "none", stamp |-> 0, len |-> 0, offset |-> 0, id |-> 0]
NoPacket == [id |-> -1, seq |-> 0, stamp |-> 0, mark |-> FALSE, call |-> 0,
             offset |-> 0, len |-> 0, total |-> 0]

Init ==
    /\ sendQueue = << >> /\ sendLock = NoThread
    /\ sendSeq = 0 /\ marked = FALSE /\ packetCount = 0
    /\ appPc = [a \in Apps |-> "idle"]
    /\ call = [a \in Apps |-> NoCall]
    /\ packet = [a \in Apps |-> NoPacket]
    /\ pc = "schedule" /\ timeout = 0 /\ head = NoPacket
    /\ active = TRUE /\ now = 0
    /\ created = 0 /\ calls = 0 /\ marks = 0
    /\ wire = << >> /\ expired = {} /\ purged = {}

(* ThreadLock::writeLock; a thread that still holds the lock gets an error *)
(* from the system, which ThreadLock ignores, and goes on.                 *)
Lockable(t) == sendLock \in {NoThread, t}

-----------------------------------------------------------------------------
(* setMark(true).  The bit is clear again once a packet has carried it.    *)
setMark(a) ==
    /\ active /\ appPc[a] = "idle" /\ ~marked
    /\ marks < MaxCalls
    /\ marked' = TRUE
    /\ marks' = marks + 1
    /\ UNCHANGED <<queue, sendSeq, packetCount, app, run, active, now, created,
                   calls, wire, expired, purged>>

(* putData or sendImmediate is called with data.                           *)
BeginCall(a, op, stamp, len) ==
    /\ active /\ appPc[a] = "idle"
    /\ calls < MaxCalls
    /\ calls' = calls + 1
    /\ call' = [call EXCEPT ![a] = [op |-> op, stamp |-> stamp, len |-> len,
                                    offset |-> 0, id |-> calls']]
    /\ appPc' = [appPc EXCEPT ![a] = "build"]
    /\ UNCHANGED <<queue, info, packet, run, active, now, created, marks, wire,
                   expired, purged>>

putData(a, stamp, len)       == BeginCall(a, "put", stamp, len)
sendImmediate(a, stamp, len) == BeginCall(a, "immediate", stamp, len)

(* The marker bit goes to the first segment.                               *)
CarriesMark(c) == c.offset = 0 /\ marked

\* Fault: a full segment is taken whatever remains of the data.
StepFull(c) == MaxSendSegmentSize

Step(c) ==
    LET remainder == c.len - c.offset
    IN IF remainder > MaxSendSegmentSize THEN MaxSendSegmentSize ELSE remainder

(* The packet of the next segment.  Nothing protects sendInfo: what is     *)
(* read here is written back in a later step.                              *)
Build(a) ==
    /\ appPc[a] = "build"
    /\ LET c == call[a]
       IN packet' = [packet EXCEPT ![a] =
              [id |-> created, seq |-> sendSeq, stamp |-> c.stamp,
               mark |-> CarriesMark(c), call |-> c.id,
               offset |-> c.offset, len |-> Step(c), total |-> c.len]]
    /\ created' = created + 1
    /\ appPc' = [appPc EXCEPT ![a] = "stamped"]
    /\ UNCHANGED <<queue, info, call, run, active, now, calls, marks, wire,
                   expired, purged>>

\* Fault: sequence numbers do not wrap.
StampUnwrapped(a) ==
    /\ appPc[a] = "stamped"
    /\ sendSeq' = packet[a].seq + 1
    /\ marked' = (marked /\ ~packet[a].mark)
    /\ appPc' = [appPc EXCEPT ![a] = call[a].op]
    /\ UNCHANGED <<queue, packetCount, call, packet, run, active, now, hist>>

\* Fault: setMark(false) is forgotten.
StampKeepMark(a) ==
    /\ appPc[a] = "stamped"
    /\ sendSeq' = (packet[a].seq + 1) % SeqModulus
    /\ appPc' = [appPc EXCEPT ![a] = call[a].op]
    /\ UNCHANGED <<queue, marked, packetCount, call, packet, run, active, now, hist>>

(* sendInfo.sendSeq++ and setMark(false) are stored.                       *)
Stamp(a) ==
    /\ appPc[a] = "stamped"
    /\ sendSeq' = (packet[a].seq + 1) % SeqModulus
    /\ marked' = (marked /\ ~packet[a].mark)
    /\ appPc' = [appPc EXCEPT ![a] = call[a].op]
    /\ UNCHANGED <<queue, packetCount, call, packet, run, active, now, hist>>

(* offset += step: the next segment, or the end of the call.               *)
NextSegment(a) ==
    LET c == call[a]
        next == c.offset + packet[a].len
        more == next < c.len
    IN /\ call' = [call EXCEPT ![a] =
                     IF more THEN [c EXCEPT !.offset = next]
                             ELSE NoCall]
       /\ appPc' = [appPc EXCEPT ![a] = IF more THEN "build" ELSE "idle"]
       /\ packet' = [packet EXCEPT ![a] = NoPacket]

\* Fault: the packet becomes the new sendFirst.
EnqueueFirst(a) ==
    /\ appPc[a] = "put" /\ Lockable(a)
    /\ sendQueue' = <<packet[a]>> \o sendQueue
    /\ sendLock' = NoThread
    /\ NextSegment(a)
    /\ UNCHANGED <<info, run, active, now, hist>>

(* putData appends the packet under sendLock.                              *)
Enqueue(a) ==
    /\ appPc[a] = "put" /\ Lockable(a)
    /\ sendQueue' = Append(sendQueue, packet[a])
    /\ sendLock' = NoThread
    /\ NextSegment(a)
    /\ UNCHANGED <<info, run, active, now, hist>>

Sent(p, via) == [packet |-> p, via |-> via, at |-> now]

(* sendImmediate hands the packet to dispatchImmediate and deletes it.     *)
DispatchImmediate(a) ==
    /\ appPc[a] = "immediate"
    /\ wire' = Append(wire, Sent(packet[a], "immediate"))
    /\ NextSegment(a)
    /\ UNCHANGED <<queue, info, run, active, now, created, calls, marks,
                   expired, purged>>

(* setPartial: the first packet not before stamp, if it is at stamp, gets  *)
(* new data; an offset outside the payload returns without unlocking.      *)
setPartial(a, stamp, offset) ==
    /\ active /\ appPc[a] = "idle" /\ Lockable(a)
    /\ LET notBefore == {k \in 1..Len(sendQueue) : sendQueue[k].stamp >= stamp}
           outside == \E k \in notBefore :
                         /\ \A j \in notBefore : k <= j
                         /\ sendQueue[k].stamp = stamp
                         /\ offset >= sendQueue[k].len
       IN sendLock' = IF outside THEN a ELSE NoThread
    /\ UNCHANGED <<sendQueue, info, app, run, active, now, hist>>

-----------------------------------------------------------------------------
\* Fault: a packet is dropped as soon as it is late.
getSchedulingTimeoutStrict ==
    /\ pc = "schedule"
    /\ \/ /\ sendQueue = << >>
          /\ timeout' = SchedulingTimeout /\ pc' = "act" /\ UNCHANGED head
       \/ /\ sendQueue # << >> /\ Head(sendQueue).stamp >= now
          /\ timeout' = Head(sendQueue).stamp - now
          /\ pc' = "act" /\ UNCHANGED head
       \/ /\ sendQueue # << >> /\ Head(sendQueue).stamp < now
          /\ head' = Head(sendQueue) /\ pc' = "expire" /\ UNCHANGED timeout
    /\ UNCHANGED <<queue, info, app, active, now, hist>>

(* One turn of the loop of getSchedulingTimeout, which looks at sendFirst  *)
(* without the lock: wait for the packet, send it now, or expire it.       *)
getSchedulingTimeout ==
    /\ pc = "schedule"
    /\ \/ /\ sendQueue = << >>
          /\ timeout' = SchedulingTimeout /\ pc' = "act" /\ UNCHANGED head
       \/ /\ sendQueue # << >>
          /\ LET diff == Head(sendQueue).stamp - now IN
             \/ /\ -diff <= ExpireTimeout
                /\ timeout' = IF diff >= 0 THEN diff ELSE 0
                /\ pc' = "act" /\ UNCHANGED head
             \/ /\ -diff > ExpireTimeout
                /\ head' = Head(sendQueue) /\ pc' = "expire"
                /\ UNCHANGED timeout
    /\ UNCHANGED <<queue, info, app, active, now, hist>>

(* Case D of getSchedulingTimeout: whatever is sendFirst by now is deleted *)
(* under sendLock, and the loop goes on.                                   *)
Expire ==
    /\ pc = "expire" /\ Lockable(Service)
    /\ sendQueue # << >>
    /\ expired' = expired \cup {Sent(Head(sendQueue), "expired")}
    /\ sendQueue' = Tail(sendQueue)
    /\ sendLock' = NoThread
    /\ pc' = "schedule" /\ head' = NoPacket
    /\ UNCHANGED <<info, app, timeout, active, now, created, calls, marks, wire,
                   purged>>

\* Fault: run sends a packet whatever the scheduling timeout is.
DueAlways == TRUE

(* The control services do not touch the queue; then run either sends ...  *)
Due == (IF timeout > CheckInterval THEN CheckInterval ELSE timeout) < 1

\* Fault: the packet stays in the queue after it was sent.
dispatchDataPacketKeeping ==
    /\ pc = "act" /\ Due /\ Lockable(Service)
    /\ \/ /\ sendQueue = << >>
          /\ UNCHANGED <<sendQueue, packetCount, wire>>
       \/ /\ sendQueue # << >>
          /\ Len(wire) < created
          /\ wire' = Append(wire, Sent(Head(sendQueue), "queue"))
          /\ packetCount' = packetCount + 1
          /\ UNCHANGED sendQueue
    /\ sendLock' = NoThread
    /\ pc' = "loop"
    /\ UNCHANGED <<sendSeq, marked, app, timeout, head, active, now, created,
                   calls, marks, expired, purged>>

dispatchDataPacket ==
    /\ pc = "act" /\ Due /\ Lockable(Service)
    /\ \/ /\ sendQueue = << >>
          /\ UNCHANGED <<sendQueue, packetCount, wire>>
       \/ /\ sendQueue # << >>
          /\ wire' = Append(wire, Sent(Head(sendQueue), "queue"))
          /\ sendQueue' = Tail(sendQueue)
          /\ packetCount' = packetCount + 1
    /\ sendLock' = NoThread
    /\ pc' = "loop"
    /\ UNCHANGED <<sendSeq, marked, app, timeout, head, active, now, created,
                   calls, marks, expired, purged>>

(* ... or waits for incoming data for up to timeout, and forgets it.       *)
Wait ==
    /\ pc = "act" /\ ~Due
    /\ timeout' = 0
    /\ pc' = "loop"
    /\ UNCHANGED <<queue, info, app, head, active, now, hist>>

\* Fault: the thread does not look at isActive again.
LoopForever ==
    /\ pc = "loop"
    /\ pc' = "schedule"
    /\ UNCHANGED <<queue, info, app, timeout, head, active, now, hist>>

(* while ( isActive() ), then dispatchBYE and the end of the thread.       *)
Loop ==
    /\ pc = "loop"
    /\ pc' = IF active THEN "schedule" ELSE "done"
    /\ UNCHANGED <<queue, info, app, timeout, head, active, now, hist>>

-----------------------------------------------------------------------------
(* ~SingleThreadRTPSession, called when no thread is in a call any more.   *)
disableStack ==
    /\ active /\ \A a \in Apps : appPc[a] = "idle"
    /\ active' = FALSE
    /\ UNCHANGED <<queue, info, app, run, now, hist>>

\* Fault: the queue is purged without joining the thread.
purgeOutgoingQueueUnjoined(a) ==
    /\ ~active /\ Lockable(a)
    /\ sendQueue # << >>
    /\ purged' = purged \cup ToSet(sendQueue)
    /\ sendQueue' = << >>
    /\ sendLock' = NoThread
    /\ UNCHANGED <<info, app, run, active, now, created, calls, marks, wire,
                   expired>>

(* endQueue, once Thread::join has returned.                               *)
purgeOutgoingQueue(a) ==
    /\ ~active /\ pc = "done" /\ Lockable(a)
    /\ sendQueue # << >>
    /\ purged' = purged \cup ToSet(sendQueue)
    /\ sendQueue' = << >>
    /\ sendLock' = NoThread
    /\ UNCHANGED <<info, app, run, active, now, created, calls, marks, wire,
                   expired>>

Tick ==
    /\ now < MaxTime
    /\ now' = now + 1
    /\ UNCHANGED <<queue, info, app, run, active, hist>>

AppBody(a) == Build(a) \/ Stamp(a) \/ Enqueue(a) \/ DispatchImmediate(a)

App(a) ==
    \/ setMark(a)
    \/ \E stamp \in Stamps, len \in DataLens :
          putData(a, stamp, len) \/ sendImmediate(a, stamp, len)
    \/ \E stamp \in Stamps, offset \in PartialOffsets : setPartial(a, stamp, offset)
    \/ AppBody(a)
    \/ purgeOutgoingQueue(a)

Run == getSchedulingTimeout \/ Expire \/ dispatchDataPacket \/ Wait \/ Loop

Next == (\E a \in Apps : App(a)) \/ Run \/ disableStack \/ Tick

Spec == Init /\ [][Next]_vars

(* The session's thread is scheduled, sendLock does not starve it, calls   *)
(* that began go on, and the clock advances.                               *)
FairSpec ==
    /\ Spec
    /\ SF_vars(Run)
    /\ \A a \in Apps : WF_vars(AppBody(a))
    /\ WF_vars(Tick)

-----------------------------------------------------------------------------
Packets ==
    [id : Int, seq : 0..(SeqModulus - 1), stamp : Nat,
     mark : BOOLEAN, call : Nat, offset : Nat, len : Nat, total : Nat]

(* The variables have the types the code declares. *)
TypeOK ==
    /\ sendQueue \in Seq(Packets)
    /\ sendLock \in Apps \cup {NoThread}
    /\ sendSeq \in 0..(SeqModulus - 1) /\ marked \in BOOLEAN
    /\ packetCount \in Nat
    /\ appPc \in [Apps -> {"idle", "build", "stamped", "put", "immediate"}]
    /\ packet \in [Apps -> Packets]
    /\ pc \in {"schedule", "expire", "act", "loop", "done"}
    /\ timeout \in Nat /\ head \in Packets
    /\ active \in BOOLEAN /\ now \in 0..MaxTime
    /\ created \in Nat /\ calls \in Nat /\ marks \in Nat

(* The packets that left the applications' hands, and all packets.         *)
Released == ToSet(sendQueue) \cup {w.packet : w \in ToSet(wire) \cup expired}
            \cup purged
InHand   == {packet[a] : a \in {b \in Apps : packet[b] # NoPacket}}

(* No packet is lost or sent twice: every packet putData or sendImmediate  *)
(* built is in exactly one place, in the hands of its caller, waiting in   *)
(* the queue, sent, expired, or purged with the session.                   *)
Accounted ==
    /\ Cardinality(Released \cup InHand)
         = Len(sendQueue) + Len(wire) + Cardinality(expired)
           + Cardinality(purged) + Cardinality(InHand)
    /\ \A p, q \in Released \cup InHand : p.id = q.id => p = q
    /\ \A k \in 0..(created - 1) :
          \E p \in Released \cup InHand : p.id = k

(* putData gives packets consecutive sequence numbers (modulo 2^16) in the *)
(* order in which they are queued, and dispatchDataPacket sends them in    *)
(* that order.                                                             *)
SequenceFollowsQueue ==
    LET sent == SelectSeq(wire, LAMBDA w : w.via = "queue")
        order == [k \in 1..Len(sent) |-> sent[k].packet] \o sendQueue
    IN /\ \A k \in 1..Len(order) : order[k].seq = order[k].id % SeqModulus
       /\ \A j, k \in 1..Len(order) : j < k => order[j].id < order[k].id

(* A call that has returned has put exactly its data in packets: the       *)
(* segments follow each other without gap or overlap, and only the last    *)
(* one is shorter than the maximum.                                        *)
SegmentsCoverData ==
    \A p \in Released :
        /\ p.offset + p.len = p.total
           \/ /\ p.offset + p.len < p.total /\ p.len = MaxSendSegmentSize
              /\ \/ \E q \in Released \cup InHand :
                       q.call = p.call /\ q.offset = p.offset + p.len
                 \/ \E a \in Apps : /\ appPc[a] = "build"
                                    /\ call[a].id = p.call
                                    /\ call[a].offset = p.offset + p.len
        /\ p.len <= MaxSendSegmentSize

(* Each setMark(true) marks exactly one packet, the first one of the next  *)
(* data.                                                                   *)
MarkedOnce ==
    LET carriers == {p \in Released \cup InHand : p.mark}
        unstored == {a \in Apps : appPc[a] = "stamped" /\ packet[a].mark}
    IN /\ Cardinality(carriers) + (IF marked THEN 1 ELSE 0)
             - Cardinality(unstored) = marks
       /\ \A p \in carriers : p.offset = 0

(* getSchedulingTimeout judges sendFirst before it takes sendLock; the     *)
(* packet it then deletes is still the one it judged.                      *)
ExpiresWhatItExamined ==
    pc = "expire" => sendQueue # << >> /\ Head(sendQueue) = head

(* Only packets that are more than the expire timeout late are dropped.    *)
ExpiredWasLate ==
    \A w \in expired : w.at - w.packet.stamp > ExpireTimeout

(* The timestamp of putData is the "expected send time of packet"          *)
(* (oqueue.h): the queue never sends a packet before it.                   *)
NotSentEarly ==
    \A k \in 1..Len(wire) : wire[k].via = "queue" => wire[k].at >= wire[k].packet.stamp

(* Every queued packet leaves the queue: it is sent when it is due, or     *)
(* expires, or is purged when the session ends.                            *)
QueuedIsSettled ==
    \A k \in 0..MaxCalls :
        LET queued == \E j \in 1..Len(sendQueue) : sendQueue[j].id = k
        IN (active /\ queued) ~> (~active \/ ~queued)

(* The destructor's join returns: once the stack is disabled, run ends.    *)
ServiceStops == ~active ~> pc = "done"
=============================================================================
