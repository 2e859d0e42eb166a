-------------------------- MODULE SourceValidation --------------------------
(***************************************************************************)
(* What ccRTP records of one synchronization source: the probation it has  *)
(* to pass, the highest sequence number with its cycles, and the loss that *)
(* reports announce (recordReception in incqueue.cpp, SyncSourceLink in    *)
(* iqueue.h and members.cpp).  The sender numbers its packets 0, 1, 2, ... *)
(* and the network delivers any of them at any time; the code sees an      *)
(* index modulo 2^16 only.                                                 *)
(***************************************************************************)
EXTENDS Integers

CONSTANTS
    SeqModulus,         \* SEQNUMMOD, 2^16
    WordModulus,        \* 2^32
    MinValids,          \* values of setMinValidPacketSequence
    MaxPacketDropout,
    MaxPacketMisorder,
    Lossless,           \* the network delivers every packet once, in order
    MaxIndex,           \* bound: packets the sender numbers
    MaxPackets          \* bound: packets delivered

ASSUME SourceValidationAssumption ==
    /\ SeqModulus \in Nat \ {0} /\ WordModulus \in Nat \ {0}
    /\ MinValids \subseteq Nat
    /\ MaxPacketDropout \in Nat /\ MaxPacketMisorder \in Nat
    /\ MaxPacketDropout + MaxPacketMisorder <= SeqModulus
    /\ Lossless \in BOOLEAN
    /\ MaxIndex \in Nat /\ MaxPackets \in Nat

VARIABLES
    minValid,                   \* minValidPacketSequence
    probation, badSeqNum,
    maxSeqNum, seqNumAccum,
    obsPacketCount,
    expectedPrior, receivedPrior, cumulativePacketLost, fractionLost,
    \* history
    received,                   \* packets that arrived
    lastIndex, inRow,           \* the last one; how many in a row it ends
    top, calm,                  \* highest index since the first accepted packet;
                                \* that packet became the reference and no later
                                \* one strayed from the highest
    lastReport                  \* top and obsPacketCount at the last report

seqs  == <<probation, badSeqNum, maxSeqNum, seqNumAccum, obsPacketCount>>
stats == <<expectedPrior, receivedPrior, cumulativePacketLost, fractionLost>>
hist  == <<received, lastIndex, inRow, top, calm, lastReport>>
vars  == <<minValid, seqs, stats, hist>>

NoReport == [top |-> -1, count |-> 0]

(* initStats, then setProbation(getMinValidPacketSequence()).              *)
Init ==
    /\ minValid \in MinValids
    /\ probation = minValid /\ badSeqNum = SeqModulus + 1
    /\ maxSeqNum = 0 /\ seqNumAccum = 0 /\ obsPacketCount = 0
    /\ expectedPrior = 0 /\ receivedPrior = 0
    /\ cumulativePacketLost = 0 /\ fractionLost = 0
    /\ received = 0 /\ lastIndex = -1 /\ inRow = 0
    /\ top = -1 /\ calm = TRUE /\ lastReport = NoReport

-----------------------------------------------------------------------------
(* Subtraction of unsigned integers.                                       *)
Minus(a, b, modulus) == IF a >= b THEN a - b ELSE a - b + modulus

initSequence(n) == maxSeqNum' = n /\ seqNumAccum' = n

Accept == obsPacketCount' = obsPacketCount + 1
Reject == UNCHANGED obsPacketCount

\* Fault: a packet out of sequence only costs its own turn.
ProbationLenient(n) ==
    /\ probation # 0
    /\ \/ /\ probation > 1
          /\ probation' = probation - 1 /\ maxSeqNum' = n /\ Reject
          /\ UNCHANGED seqNumAccum
       \/ /\ probation = 1
          /\ probation' = 0 /\ initSequence(n) /\ Accept
    /\ UNCHANGED badSeqNum

(* The source is not yet valid: packets in sequence end its probation.     *)
Probation(n) ==
    /\ probation # 0
    /\ \/ /\ n = maxSeqNum + 1 /\ probation > 1
          /\ probation' = probation - 1 /\ maxSeqNum' = n /\ Reject
          /\ UNCHANGED seqNumAccum
       \/ /\ n = maxSeqNum + 1 /\ probation = 1
          /\ probation' = 0 /\ initSequence(n) /\ Accept
       \/ /\ n # maxSeqNum + 1
          /\ probation' = minValid - 1 /\ maxSeqNum' = n /\ Reject
          /\ UNCHANGED seqNumAccum
    /\ UNCHANGED badSeqNum

\* Fault: a wrap of the sequence numbers is not counted.
OrderedUncounted(n) ==
    /\ maxSeqNum' = n /\ Accept
    /\ UNCHANGED <<probation, badSeqNum, seqNumAccum>>

(* Ordered, with not too high step.                                        *)
Ordered(n) ==
    /\ seqNumAccum' = IF n < maxSeqNum THEN seqNumAccum + SeqModulus ELSE seqNumAccum
    /\ maxSeqNum' = n /\ Accept
    /\ UNCHANGED <<probation, badSeqNum>>

(* Too high a step: accepted when it follows the packet rejected last, or  *)
(* when nothing was accepted before.                                       *)
Strayed(n) ==
    \/ /\ n = badSeqNum
       /\ initSequence(n) /\ Accept
       /\ UNCHANGED <<probation, badSeqNum>>
    \/ /\ n # badSeqNum
       /\ badSeqNum' = (n + 1) % SeqModulus
       /\ \/ /\ obsPacketCount > 0 /\ Reject /\ UNCHANGED maxSeqNum
          \/ /\ obsPacketCount = 0 /\ Accept /\ maxSeqNum' = n
       /\ UNCHANGED <<probation, seqNumAccum>>

(* Duplicate or reordered packet.                                          *)
Reordered ==
    /\ Accept
    /\ UNCHANGED <<probation, badSeqNum, maxSeqNum, seqNumAccum>>

Valid(n) ==
    LET step == Minus(n, maxSeqNum, SeqModulus) IN
    /\ probation = 0
    /\ \/ step < MaxPacketDropout /\ Ordered(n)
       \/ /\ step >= MaxPacketDropout
          /\ \/ step <= SeqModulus - MaxPacketMisorder /\ Strayed(n)
             \/ step > SeqModulus - MaxPacketMisorder /\ Reordered

recordReception(n) == Probation(n) \/ Valid(n)

(* Within what the settings call ordered or reordered.                     *)
Near(index) == index < top + MaxPacketDropout /\ index > top - MaxPacketMisorder

(* The sequence number b comes after a.                                    *)
Follows(b, a) == b = IF a = SeqModulus - 1 THEN 0 ELSE a + 1

(* The packet with this index arrives.                                     *)
Receive(index) ==
    /\ received < MaxPackets
    /\ Lossless => lastIndex = -1 \/ index = lastIndex + 1
    /\ recordReception(index % SeqModulus)
    /\ received' = received + 1
    /\ lastIndex' = index
    /\ inRow' = IF lastIndex >= 0 /\ Follows(index % SeqModulus, lastIndex % SeqModulus)
                THEN inRow + 1 ELSE 1
    /\ \/ /\ obsPacketCount = 0
          /\ top' = (IF obsPacketCount' = 1 THEN index ELSE top)
          /\ calm' = (obsPacketCount' = 1 => maxSeqNum' = index % SeqModulus)
       \/ /\ obsPacketCount > 0
          /\ calm' = (calm /\ Near(index))
          /\ top' = IF index > top THEN index ELSE top
    /\ UNCHANGED <<minValid, stats, lastReport>>

-----------------------------------------------------------------------------
extendedMaxSeqNum == maxSeqNum + seqNumAccum

baseSeqNum == 0     \* set by initStats and by nothing else

\* Fault: the fraction is not cut to the eight bits of the report.
lossFractionWide(lost, expected) ==
    IF expected = 0 \/ lost = 0 THEN 0
    ELSE ((lost * 256) % WordModulus) \div expected

(* The lost packets of an interval, in 1/256 of the expected ones.         *)
lossFraction(lost, expected) ==
    IF expected = 0 \/ lost = 0 THEN 0
    ELSE (((lost * 256) % WordModulus) \div expected) % 256

\* Fault: the packets received before are not remembered.
RememberStale(expected) == expectedPrior' = expected /\ UNCHANGED receivedPrior

Remember(expected) == expectedPrior' = expected /\ receivedPrior' = obsPacketCount

(* packReportBlocks updates the statistics of the source for a report.     *)
computeStats ==
    LET expected == Minus(extendedMaxSeqNum + 1, baseSeqNum, WordModulus) % WordModulus
        expectedDelta == Minus(expected, expectedPrior, WordModulus)
        receivedDelta == Minus(obsPacketCount, receivedPrior, WordModulus)
    IN /\ cumulativePacketLost' =
              IF obsPacketCount = 0 THEN 0 ELSE Minus(expected, obsPacketCount, WordModulus)
       /\ Remember(expected)
       /\ fractionLost' =
              lossFraction(Minus(expectedDelta, receivedDelta, WordModulus), expectedDelta)
       /\ lastReport' = [top |-> top, count |-> obsPacketCount]
       /\ UNCHANGED <<minValid, seqs, received, lastIndex, inRow, top, calm>>

Next == (\E index \in 0..MaxIndex : Receive(index)) \/ computeStats

Spec == Init /\ [][Next]_vars

-----------------------------------------------------------------------------
(* The variables have the types the code declares. *)
TypeOK ==
    /\ minValid \in MinValids
    /\ probation \in 0..minValid
    /\ maxSeqNum \in 0..(SeqModulus - 1) /\ badSeqNum \in 0..(SeqModulus + 1)
    /\ seqNumAccum \in Nat /\ obsPacketCount \in 0..received
    /\ {expectedPrior, receivedPrior, cumulativePacketLost}
          \subseteq 0..(WordModulus - 1)
    /\ fractionLost \in 0..255
    /\ received \in 0..MaxPackets /\ inRow \in 0..received
    /\ top \in -1..MaxIndex /\ calm \in BOOLEAN

(* "How many data packets must be received in sequence before the source   *)
(* is considered valid and the stack starts to accept its packets"         *)
(* (setMinValidPacketSequence): the first packet that is accepted ends at  *)
(* least that many in a row.                                               *)
ValidatedByRun ==
    [][obsPacketCount = 0 /\ obsPacketCount' = 1 => inRow' >= minValid]_vars

(* As long as packets stay within the dropout and the misorder limits of   *)
(* the highest one, all of them are accepted, and the extended sequence    *)
(* number of the reports advances as the sender's count does, through any  *)
(* number of wraps of the 16 bit numbers.                                  *)
FollowsSender ==
    [][obsPacketCount > 0 /\ calm' /\ received' > received =>
          /\ obsPacketCount' = obsPacketCount + 1
          /\ extendedMaxSeqNum' - extendedMaxSeqNum = top' - top]_vars

(* The fraction lost of a report is that of the packets sent since the     *)
(* report before, if both saw an undisturbed stream and no duplicates made *)
(* up for the loss.                                                        *)
FractionOfInterval ==
    [][LET sent == top - lastReport.top
           got  == obsPacketCount - lastReport.count
       IN lastReport' # lastReport /\ lastReport.count > 0 /\ calm /\ got <= sent
             => fractionLost' = IF sent = 0 THEN 0 ELSE ((sent - got) * 256) \div sent]_vars

(* When the network loses nothing, reports announce no loss.               *)
NoLossReported == Lossless /\ minValid = 0 => cumulativePacketLost = 0
=============================================================================
