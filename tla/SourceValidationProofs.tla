----------------------- MODULE SourceValidationProofs -----------------------
(***************************************************************************)
(* A source passes its probation only by the run of packets the            *)
(* application asks for, for every length of the run, every modulus and    *)
(* whatever the network delivers.                                          *)
(***************************************************************************)
EXTENDS SourceValidation, TLAPS

(* What a turn of probation knows of the packets so far: the last one is   *)
(* in maxSeqNum, and those still missing complete the run.  Only a run of  *)
(* one or none leaves a source valid before a packet was accepted: the     *)
(* first packet that is out of sequence does.                              *)
Missing ==
    /\ obsPacketCount = 0
    /\ lastIndex = -1 \/ maxSeqNum = lastIndex % SeqModulus
    /\ inRow + probation >= minValid

OnProbation ==
    /\ minValid \in Nat /\ probation \in Nat /\ obsPacketCount \in Nat
    /\ inRow \in Nat /\ lastIndex \in Nat \cup {-1}
    /\ lastIndex = -1 => inRow = 0
    /\ probation <= minValid
    /\ probation # 0 => Missing
    /\ probation = 0 /\ obsPacketCount = 0 => minValid <= 1

(* It holds for a source that recordReception has not seen yet.            *)
LEMMA ProbationInit == Init => OnProbation
  BY SourceValidationAssumption DEF Init, OnProbation, Missing

(* A packet either counts as one more or as the first of a run.            *)
LEMMA RunGrows ==
    ASSUME OnProbation, NEW index \in 0..MaxIndex, Receive(index)
    PROVE  /\ inRow' \in Nat /\ inRow' >= 1
           /\ index % SeqModulus = maxSeqNum + 1 /\ probation # 0 /\ lastIndex # -1
                => inRow' = inRow + 1
  <1>1. inRow' = IF lastIndex >= 0 /\ Follows(index % SeqModulus, lastIndex % SeqModulus)
                 THEN inRow + 1 ELSE 1
    BY DEF Receive
  <1>2. inRow' \in Nat /\ inRow' >= 1
    BY <1>1 DEF OnProbation, Missing
  <1>3. ASSUME index % SeqModulus = maxSeqNum + 1, probation # 0, lastIndex # -1
        PROVE  inRow' = inRow + 1
    <2>1. maxSeqNum = lastIndex % SeqModulus /\ lastIndex >= 0
      BY <1>3 DEF OnProbation, Missing
    <2>2. index % SeqModulus < SeqModulus /\ index % SeqModulus \in Nat
      BY SourceValidationAssumption
    <2>3. lastIndex % SeqModulus \in Nat
      BY <2>1, SourceValidationAssumption DEF OnProbation, Missing
    <2>4. Follows(index % SeqModulus, lastIndex % SeqModulus)
      BY <1>3, <2>1, <2>2, <2>3, SourceValidationAssumption DEF Follows
    <2> QED
      BY <1>1, <2>1, <2>4
  <1> QED
    BY <1>2, <1>3

(* The arithmetic of a run and of what is missing of it.                   *)
LEMMA RunArithmetic ==
    \A run, missing, valid \in Nat :
        /\ run >= 1 /\ missing >= valid => run + missing > valid
        /\ run + missing >= valid => run + 1 + missing > valid
        /\ run + missing > valid /\ missing > 1 => run + (missing - 1) >= valid
        /\ run + missing > valid /\ missing = 1 => run >= valid
        /\ run >= 1 => run + (valid - 1) >= valid
  OBVIOUS

(* A packet keeps the invariant, and the first one accepted ends a run.    *)
LEMMA ReceiveStep ==
    ASSUME OnProbation, NEW index \in 0..MaxIndex, Receive(index)
    PROVE  /\ OnProbation'
           /\ obsPacketCount = 0 /\ obsPacketCount' = 1 => inRow' >= minValid
  <1> DEFINE n == index % SeqModulus
  <1>1. lastIndex' = index /\ minValid' = minValid /\ index \in Nat
    BY SourceValidationAssumption DEF Receive
  <1>2. inRow' \in Nat /\ inRow' >= 1
    BY RunGrows
  <1>3. ASSUME n = maxSeqNum + 1, probation # 0
        PROVE  inRow' + probation > minValid
    <2>1. /\ inRow + probation >= minValid
          /\ minValid \in Nat /\ probation \in Nat /\ inRow \in Nat
      BY <1>3 DEF OnProbation, Missing
    <2>2. CASE lastIndex = -1
      <3>1. inRow = 0
        BY <2>2 DEF OnProbation, Missing
      <3>2. probation >= minValid
        BY <2>1, <3>1
      <3> QED
        BY <1>2, <2>1, <3>2, RunArithmetic
    <2>3. CASE lastIndex # -1
      <3>1. inRow' = inRow + 1
        BY <1>3, <2>3, RunGrows
      <3> QED
        BY <2>1, <3>1, RunArithmetic
    <2> QED
      BY <2>2, <2>3
  <1>4. CASE Probation(n)
    <2>1. probation # 0 /\ obsPacketCount = 0 /\ probation \in Nat /\ minValid \in Nat
      BY <1>4 DEF Probation, OnProbation, Missing
    <2>2. CASE n = maxSeqNum + 1 /\ probation > 1
      <3>1. /\ probation' = probation - 1 /\ maxSeqNum' = n
            /\ obsPacketCount' = obsPacketCount
        BY <1>4, <2>2 DEF Probation, Reject
      <3>2. inRow' + probation' >= minValid'
        BY <1>1, <1>2, <1>3, <2>1, <2>2, <3>1, RunArithmetic
      <3>3. /\ minValid' \in Nat /\ probation' \in Nat /\ probation' # 0
            /\ probation' <= minValid'
        BY <1>1, <2>1, <2>2, <3>1 DEF OnProbation, Missing
      <3>4. /\ obsPacketCount' = 0 /\ maxSeqNum' = lastIndex' % SeqModulus
            /\ lastIndex' \in Nat /\ lastIndex' # -1
        BY <1>1, <2>1, <3>1
      <3> QED
        <4>1. Missing'
          BY <3>2, <3>4 DEF Missing
        <4> QED
          BY <1>2, <3>3, <3>4, <4>1 DEF OnProbation
    <2>3. CASE n = maxSeqNum + 1 /\ probation = 1
      <3>1. probation' = 0 /\ obsPacketCount' = obsPacketCount + 1
        BY <1>4, <2>3 DEF Probation, Accept
      <3>2. inRow' >= minValid
        BY <1>2, <1>3, <2>1, <2>3, RunArithmetic
      <3> QED
        BY <1>1, <1>2, <2>1, <3>1, <3>2 DEF OnProbation, Missing
    <2>4. CASE n # maxSeqNum + 1
      <3>1. /\ probation' = minValid - 1 /\ maxSeqNum' = n
            /\ obsPacketCount' = obsPacketCount
        BY <1>4, <2>4 DEF Probation, Reject
      <3>2. minValid >= 1
        BY <2>1 DEF OnProbation, Missing
      <3>3. /\ minValid' \in Nat /\ probation' \in Nat /\ probation' <= minValid'
            /\ probation' = 0 => minValid' <= 1
        BY <1>1, <2>1, <3>1, <3>2
      <3>4. /\ obsPacketCount' = 0 /\ maxSeqNum' = lastIndex' % SeqModulus
            /\ lastIndex' \in Nat /\ lastIndex' # -1
        BY <1>1, <2>1, <3>1
      <3>5. inRow' + probation' >= minValid'
        BY <1>1, <1>2, <2>1, <3>1, RunArithmetic
      <3> QED
        <4>1. Missing'
          BY <3>4, <3>5 DEF Missing
        <4> QED
          BY <1>2, <3>3, <3>4, <4>1 DEF OnProbation
    <2> QED
      BY <2>1, <2>2, <2>3, <2>4
  <1>5. CASE Valid(n)
    BY <1>1, <1>2, <1>5
       DEF Valid, Ordered, Strayed, Reordered, OnProbation, Missing, Accept, Reject, initSequence
  <1> QED
    BY <1>4, <1>5 DEF Receive, recordReception

(* Reports leave what probation needs alone.                               *)
LEMMA ProbationStep == OnProbation /\ [Next]_vars => OnProbation'
  <1> SUFFICES ASSUME OnProbation, [Next]_vars PROVE OnProbation'
    OBVIOUS
  <1>1. CASE UNCHANGED vars
    BY <1>1 DEF vars, seqs, hist, OnProbation, Missing
  <1>2. CASE computeStats
    BY <1>2 DEF computeStats, seqs, OnProbation, Missing
  <1>3. CASE \E index \in 0..MaxIndex : Receive(index)
    BY <1>3, ReceiveStep
  <1> QED
    BY <1>1, <1>2, <1>3 DEF Next

(* recordReception accepts a source's first packet only at the end of a    *)
(* run of at least getMinValidPacketSequence packets in sequence.          *)
THEOREM ValidatedByRunAlways == Spec => ValidatedByRun
  <1>1. OnProbation /\ [Next]_vars =>
          [obsPacketCount = 0 /\ obsPacketCount' = 1 => inRow' >= minValid]_vars
    <2> SUFFICES ASSUME OnProbation, [Next]_vars, obsPacketCount = 0, obsPacketCount' = 1
                 PROVE  inRow' >= minValid
      OBVIOUS
    <2>1. PICK index \in 0..MaxIndex : Receive(index)
      BY DEF Next, computeStats, vars, seqs
    <2> QED
      BY <2>1, ReceiveStep
  <1> QED
    BY <1>1, ProbationInit, ProbationStep, PTL DEF Spec, ValidatedByRun
=============================================================================
