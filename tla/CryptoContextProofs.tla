------------------------ MODULE CryptoContextProofs -------------------------
(***************************************************************************)
(* The receiver of an SRTP stream stays in step with the sender, for every *)
(* number of sequence numbers, every replay window and every stream, as    *)
(* long as no packet is half a cycle away from the highest one and none    *)
(* sent before a roll-over arrives after one sent later.                   *)
(***************************************************************************)
EXTENDS CryptoContext, TLAPS

(* Before the first packet the context is as it was made.                  *)
Unset == ~seqNumSet => roc = 0 /\ replay_window = {}

IInv == TypeOK /\ Unset /\ InStep

(* A sequence number below the highest one, in the same cycle and less     *)
(* than half a cycle away, or above it, is guessed to be of that cycle.    *)
LEMMA GuessSameCycle ==
    ASSUME TypeOK, seqNumSet, NEW seq \in Seqs,
           seq - s_l < Half, s_l - seq < Half
    PROVE  guessIndex(seq) = [roc |-> roc, seq |-> seq]
  BY CryptoContextAssumption DEF TypeOK, guessIndex, Highest, Seqs, SeqModulus

(* A sequence number less than half a cycle ahead, past the roll-over, is  *)
(* guessed to be of the next cycle.                                        *)
LEMMA GuessNextCycle ==
    ASSUME TypeOK, seqNumSet, NEW seq \in Seqs,
           seq + SeqModulus - s_l < Half, roc + 1 < RocModulus
    PROVE  guessIndex(seq) = [roc |-> roc + 1, seq |-> seq]
  BY CryptoContextAssumption DEF TypeOK, guessIndex, Highest, Roc, Seqs, SeqModulus

(* The first packet sets the highest sequence number.                      *)
LEMMA GuessFirst ==
    ASSUME TypeOK, ~seqNumSet, NEW seq \in Seqs
    PROVE  /\ guessIndex(seq) = [roc |-> roc, seq |-> seq]
           /\ Highest(seq) = seq
  BY CryptoContextAssumption DEF TypeOK, guessIndex, Highest, Seqs, SeqModulus

(* Distances inside a cycle and to the next one.                           *)
LEMMA DeltaNear ==
    ASSUME NEW a, NEW b, a.roc \in Int, b.roc \in Int, a.seq \in Int, b.seq \in Int
    PROVE  /\ a.roc = b.roc => Delta(a, b) = a.seq - b.seq
           /\ a.roc = b.roc + 1 => Delta(a, b) = SeqModulus + a.seq - b.seq
  <1>1. SeqModulus \in Int
    BY CryptoContextAssumption DEF SeqModulus
  <1>2. 0 * SeqModulus = 0 /\ 1 * SeqModulus = SeqModulus
    BY <1>1
  <1>3. ASSUME a.roc = b.roc
        PROVE  Delta(a, b) = a.seq - b.seq
    <2>1. a.roc - b.roc = 0
      BY <1>3
    <2> QED
      BY <1>1, <1>2, <2>1 DEF Delta
  <1>4. ASSUME a.roc = b.roc + 1
        PROVE  Delta(a, b) = SeqModulus + a.seq - b.seq
    <2>1. a.roc - b.roc = 1
      BY <1>4
    <2> QED
      BY <1>1, <1>2, <2>1 DEF Delta
  <1> QED
    BY <1>3, <1>4

-----------------------------------------------------------------------------
(* A guess is an index.                                                    *)
LEMMA GuessType ==
    ASSUME TypeOK, NEW seq \in Seqs
    PROVE  /\ guessIndex(seq) \in Indices
           /\ guessIndex(seq).seq = seq
           /\ Highest(seq) \in Seqs
  BY CryptoContextAssumption
     DEF TypeOK, guessIndex, Highest, Roc, Seqs, Indices, SeqModulus

(* update keeps the window inside its 64 bits.                             *)
LEMMA WindowType ==
    ASSUME TypeOK, NEW delta
    PROVE  \A w \in ReplayWindows(delta) : w \subseteq Window
  <1>1. 0 \in Window
    BY CryptoContextAssumption DEF Window
  <1> QED
    BY <1>1 DEF ReplayWindows, TypeOK

(* The initial states have their types.                                    *)
LEMMA TypeInit == Init => TypeOK
  <1> SUFFICES ASSUME Init PROVE TypeOK
    OBVIOUS
  <1>1. PICK seq \in FirstSeqs : first = [roc |-> 0, seq |-> seq]
    BY DEF Init
  <1>2. /\ 0 \in 0..(RocModulus - 1) /\ 0 \in Seqs /\ seq \in Seqs
    BY CryptoContextAssumption DEF Seqs, SeqModulus
  <1>3. first \in Indices
    BY <1>1, <1>2 DEF Indices
  <1> QED
    BY <1>2, <1>3 DEF Init, TypeOK

(* Steps keep the types.                                                   *)
LEMMA TypeStep == TypeOK /\ [Next]_vars => TypeOK'
  <1> SUFFICES ASSUME TypeOK, [Next]_vars PROVE TypeOK'
    OBVIOUS
  <1>1. CASE UNCHANGED vars
    BY <1>1 DEF vars, context, TypeOK
  <1>2. CASE protect
    <2>1. sender' \in Indices
      BY <1>2, CryptoContextAssumption DEF protect, TypeOK, Indices, Seqs, SeqModulus
    <2> QED
      BY <1>2, <2>1 DEF protect, context, TypeOK
  <1>3. ASSUME NEW p \in Indices, unprotect(p)
        PROVE  TypeOK'
    <2> DEFINE guess == guessIndex(p.seq)
               delta == Delta(guess, [roc |-> roc, seq |-> Highest(p.seq)])
    <2>1. p.seq \in Seqs
      BY DEF Indices
    <2>2. /\ guess \in Indices /\ guess.roc \in 0..(RocModulus - 1)
          /\ guess.seq \in Seqs /\ Highest(p.seq) \in Seqs /\ guess.seq = p.seq
      BY <2>1, GuessType DEF Indices
    <2>3. /\ first' \in Indices /\ sender' \in Indices /\ top' \in Indices
          /\ guessed_roc' \in 0..(RocModulus - 1)
          /\ seqNumSet' \in BOOLEAN /\ calm' \in BOOLEAN
      BY <1>3, <2>2 DEF unprotect, TypeOK
    <2>4. recent' \subseteq Indices
      BY <1>3 DEF unprotect, TypeOK
    <2>5. late' \in BOOLEAN /\ again' \in BOOLEAN
      BY <1>3 DEF unprotect, TypeOK
    <2>6. /\ roc' \in 0..(RocModulus - 1) /\ s_l' \in Seqs
          /\ replay_window' \subseteq Window
      <3>1. CASE s_l' = Highest(p.seq) /\ UNCHANGED <<roc, replay_window>>
        BY <3>1, <2>2 DEF TypeOK
      <3>2. CASE update(guess, delta)
        BY <3>2, <2>2, WindowType DEF update, TypeOK
      <3> QED
        BY <1>3, <3>1, <3>2 DEF unprotect
    <2> QED
      BY <2>3, <2>4, <2>5, <2>6 DEF TypeOK
  <1> QED
    BY <1>1, <1>2, <1>3 DEF Next

(* Every variable of the context and of the sender keeps its type: no      *)
(* guess leaves the 32 bits of the roll-over counter.                      *)
THEOREM TypeCorrect == Spec => []TypeOK
  BY TypeInit, TypeStep, PTL DEF Spec

-----------------------------------------------------------------------------
(* What the arrival of a packet near the highest one does: the context     *)
(* moves to the highest index, and the packet is accepted if it is that.   *)
LEMMA CalmArrival ==
    ASSUME ~AcrossWrap, IInv, NEW p \in Indices, unprotect(p), calm'
    PROVE  /\ roc' = top'.roc /\ s_l' = top'.seq
           /\ ~seqNumSet \/ top' # top => top' \in recent'
  <1> DEFINE guess == guessIndex(p.seq)
             delta == Delta(guess, [roc |-> roc, seq |-> Highest(p.seq)])
             Accepted == /\ update(guess, delta)
                         /\ recent' = {q \in recent \cup {p} :
                                         Delta(top', q) < ReplayWindowSize}
  <1>1. /\ p.roc \in 0..(RocModulus - 1) /\ p.seq \in Seqs
        /\ p = [roc |-> p.roc, seq |-> p.seq]
    BY DEF Indices
  <1>2. /\ roc \in Nat /\ s_l \in Seqs /\ Seqs \subseteq Nat /\ SeqModulus \in Nat
        /\ top.roc \in Nat /\ top.seq \in Seqs /\ ReplayWindowSize > 0
    BY CryptoContextAssumption DEF IInv, TypeOK, Indices, Seqs, SeqModulus
  <1> DEFINE here == [roc |-> roc, seq |-> Highest(p.seq)]
  <1>3. ASSUME guess = p, checkReplay(delta) = {TRUE}
        PROVE  Accepted
    BY <1>3 DEF unprotect
  <1>4. ASSUME top' = p, Accepted
        PROVE  p \in recent'
    <2>1. Delta(p, p) = 0
      BY <1>1, <1>2, DeltaNear
    <2> QED
      BY <2>1, <1>2, <1>4
  <1>5. CASE ~seqNumSet
    <2>1. guess = [roc |-> roc, seq |-> p.seq] /\ Highest(p.seq) = p.seq
      BY <1>1, <1>5, GuessFirst DEF IInv
    <2>2. roc = 0 /\ p.roc = 0 /\ replay_window = {} /\ top' = p
      BY <1>5 DEF unprotect, IInv, Unset
    <2>3. guess = p
      BY <1>1, <2>1, <2>2
    <2>4. delta = 0
      <3>1. /\ guess.roc = here.roc /\ guess.seq = here.seq
            /\ guess.roc \in Int /\ guess.seq \in Int
        BY <1>1, <1>2, <2>1
      <3>2. delta = guess.seq - here.seq
        BY <3>1, DeltaNear
      <3> QED
        BY <3>1, <3>2
    <2>5. checkReplay(delta) = {TRUE}
      <3>1. /\ ~(delta > 0) /\ ~(-delta > ReplayWindowSize)
            /\ ~(-delta = ReplayWindowSize)
        BY <1>2, <2>4, CryptoContextAssumption
      <3>2. -delta \notin replay_window
        BY <2>2
      <3> QED
        BY <3>1, <3>2 DEF checkReplay
    <2>6. Accepted
      BY <1>3, <2>3, <2>5
    <2>7. roc' = 0 /\ s_l' = p.seq
      BY <2>1, <2>2, <2>3, <2>6, <1>2, <1>1 DEF update
    <2> QED
      BY <1>4, <2>2, <2>6, <2>7
  <1>6. CASE seqNumSet
    <2>1. Near(p) /\ calm
      BY <1>6 DEF unprotect
    <2>2. roc = top.roc /\ s_l = top.seq /\ Highest(p.seq) = s_l
      BY <1>6, <2>1 DEF IInv, InStep, Highest
    <2>3. CASE p.roc = top.roc
      <3>1. guess = p
        BY <1>1, <1>2, <1>6, <2>1, <2>2, <2>3, GuessSameCycle DEF Near, IInv
      <3>2. delta = p.seq - s_l
        <4>1. /\ p.roc = here.roc /\ here.seq = s_l
              /\ p.roc \in Int /\ p.seq \in Int /\ here.seq \in Int
          BY <1>1, <1>2, <2>2, <2>3
        <4> QED
          BY <3>1, <4>1, DeltaNear
      <3>3. CASE p.seq > s_l
        <4>1. top' = p
          BY <1>2, <2>2, <2>3, <3>3, <1>1 DEF unprotect, Before
        <4>2. Accepted
          <5>1. delta > 0
            BY <1>1, <1>2, <3>2, <3>3
          <5> QED
            BY <1>3, <3>1, <5>1 DEF checkReplay
        <4>3. roc' = p.roc /\ s_l' = p.seq
          BY <1>1, <1>2, <2>2, <2>3, <3>1, <3>3, <4>2 DEF update
        <4> QED
          BY <1>4, <4>1, <4>2, <4>3
      <3>4. CASE ~(p.seq > s_l)
        <4>1. top' = top
          BY <1>1, <1>2, <1>6, <2>2, <2>3, <3>4 DEF unprotect, Before
        <4>2. ~(guess.seq > Highest(guess.seq) \/ guess.roc > roc)
          BY <1>1, <1>2, <2>2, <2>3, <3>1, <3>4
        <4>3. roc' = roc /\ s_l' = s_l
          <5>1. CASE s_l' = Highest(p.seq) /\ UNCHANGED roc
            BY <5>1, <2>2
          <5>2. CASE update(guess, delta)
            BY <5>2, <4>2, <2>2, <3>1 DEF update
          <5> QED
            BY <5>1, <5>2 DEF unprotect
        <4> QED
          BY <1>6, <2>2, <4>1, <4>3
      <3> QED
        BY <3>3, <3>4
    <2>4. CASE p.roc # top.roc
      <3>1. p.roc = roc + 1 /\ p.seq + SeqModulus - s_l < Half
        BY <2>1, <2>2, <2>4 DEF Near
      <3>2. guess = p
        BY <1>1, <1>2, <1>6, <3>1, GuessNextCycle, CryptoContextAssumption DEF IInv
      <3>3. delta = SeqModulus + p.seq - s_l
        <4>1. /\ p.roc = here.roc + 1 /\ here.seq = s_l /\ here.roc \in Int
              /\ p.roc \in Int /\ p.seq \in Int /\ here.seq \in Int
          BY <1>1, <1>2, <2>2, <3>1
        <4> QED
          BY <3>2, <4>1, DeltaNear
      <3>4. delta > 0
        BY <1>1, <1>2, <3>3 DEF Seqs
      <3>5. top' = p
        BY <1>2, <2>2, <3>1 DEF unprotect, Before
      <3>6. Accepted
        BY <1>3, <3>2, <3>4 DEF checkReplay
      <3>7. roc' = p.roc /\ s_l' = p.seq
        BY <1>1, <1>2, <3>1, <3>2, <3>6 DEF update
      <3> QED
        BY <1>4, <3>5, <3>6, <3>7
    <2> QED
      BY <2>3, <2>4
  <1> QED
    BY <1>5, <1>6 DEF IInv, TypeOK

(* The inductive invariant holds initially.                                *)
LEMMA IInvInit == Init => IInv
  BY TypeInit DEF Init, IInv, Unset, InStep

(* Steps keep it.                                                          *)
LEMMA IInvStep ==
    ASSUME ~AcrossWrap
    PROVE  IInv /\ [Next]_vars => IInv'
  <1> SUFFICES ASSUME IInv, [Next]_vars PROVE IInv'
    OBVIOUS
  <1>1. TypeOK'
    BY TypeStep DEF IInv
  <1>2. CASE UNCHANGED vars
    BY <1>1, <1>2 DEF vars, context, IInv, Unset, InStep
  <1>3. CASE protect
    BY <1>1, <1>3 DEF protect, context, IInv, Unset, InStep
  <1>4. ASSUME NEW p \in Indices, unprotect(p)
        PROVE  Unset' /\ InStep'
    <2>1. seqNumSet' = TRUE
      BY <1>4 DEF unprotect
    <2>2. calm' => roc' = top'.roc /\ s_l' = top'.seq
      BY <1>4, CalmArrival
    <2> QED
      BY <2>1, <2>2 DEF Unset, InStep
  <1> QED
    BY <1>1, <1>2, <1>3, <1>4 DEF Next, IInv

(* update keeps the highest index: the receiver's counter and sequence     *)
(* number are the ones of the newest packet that arrived, for every        *)
(* modulus and every stream whose packets stay near.                       *)
THEOREM ReceiverInStep ==
    ASSUME ~AcrossWrap
    PROVE  Spec => []InStep
  <1>1. IInv => InStep
    BY DEF IInv
  <1> QED
    BY <1>1, IInvInit, IInvStep, PTL DEF Spec

(* Every packet newer than the ones before it is guessed right, passes     *)
(* checkReplay and is accepted.                                            *)
THEOREM NewerIsAccepted ==
    ASSUME ~AcrossWrap
    PROVE  Spec => NewerAccepted
  <1>1. IInv /\ [Next]_vars =>
          [calm' /\ (top' # top \/ seqNumSet' # seqNumSet) => top' \in recent']_vars
    <2> SUFFICES ASSUME IInv, [Next]_vars, calm',
                        top' # top \/ seqNumSet' # seqNumSet
                 PROVE  top' \in recent'
      OBVIOUS
    <2>1. PICK p \in Indices : unprotect(p)
      BY DEF Next, protect, vars, context
    <2>2. seqNumSet' # seqNumSet => ~seqNumSet
      BY <2>1 DEF unprotect, IInv, TypeOK
    <2> QED
      BY <2>1, <2>2, CalmArrival
  <1> QED
    BY <1>1, IInvInit, IInvStep, PTL DEF Spec, NewerAccepted
=============================================================================
