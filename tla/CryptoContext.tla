--------------------------- MODULE CryptoContext ----------------------------
(***************************************************************************)
(* The packet index of SRTP.  A packet carries the low 16 bits of its      *)
(* index, its sequence number; the sender counts the roll-overs (protect,  *)
(* rtppkt.cpp) and the receiver guesses them from what it received before  *)
(* (unprotect in rtppkt.cpp, guessIndex, checkReplay and update in         *)
(* CryptoContext.cpp).  The network loses, repeats and reorders packets.   *)
(* A guess is right if and only if the packet authenticates.               *)
(***************************************************************************)
EXTENDS Integers

CONSTANTS
    Half,               \* 32768, half of the sequence numbers
    RocModulus,         \* 2^32
    ReplayWindowSize,   \* REPLAY_WINDOW_SIZE
    FirstSeqs,          \* sequence numbers the sender may start with
    AcrossWrap          \* whether packets sent before a roll-over may still
                        \* arrive after one sent later

SeqModulus == 2 * Half

ASSUME CryptoContextAssumption ==
    /\ Half \in Nat \ {0}
    /\ RocModulus \in Nat /\ RocModulus > 2
    /\ ReplayWindowSize \in Nat \ {0}
    /\ FirstSeqs \subseteq 0..(SeqModulus - 1)
    /\ AcrossWrap \in BOOLEAN

Seqs    == 0..(SeqModulus - 1)
Indices == [roc : 0..(RocModulus - 1), seq : Seqs]
Window  == 0..(ReplayWindowSize - 1)

VARIABLES
    first, sender,      \* index of the sender's first and of its next packet
    roc, guessed_roc, s_l, seqNumSet, replay_window,
    \* history
    top,                \* the highest index that arrived
    recent,             \* accepted packets the replay window reaches from top
    calm,               \* packets stayed near top
    late,               \* an accepted packet was older than top, and new
    again               \* an accepted packet was in recent

context == <<roc, guessed_roc, s_l, seqNumSet, replay_window>>
vars == <<first, sender, context, top, recent, calm, late, again>>

Before(a, b) == a.roc < b.roc \/ (a.roc = b.roc /\ a.seq < b.seq)

(* How far index a is ahead of index b.                                    *)
Delta(a, b) == (a.roc - b.roc) * SeqModulus + a.seq - b.seq

(* The receiver's context comes from newCryptoContextForSSRC.              *)
Init ==
    /\ first \in [roc : {0}, seq : FirstSeqs] /\ sender = first
    /\ roc = 0 /\ guessed_roc = 0 /\ s_l = 0 /\ seqNumSet = FALSE
    /\ replay_window = {}
    /\ top = first /\ recent = {} /\ calm = TRUE /\ late = FALSE /\ again = FALSE

(* The sender protects its next packet; a key's life ends before its       *)
(* indices do.                                                             *)
protect ==
    /\ sender.roc < RocModulus - 1
    /\ sender' = IF sender.seq = SeqModulus - 1
                 THEN [roc |-> sender.roc + 1, seq |-> 0]
                 ELSE [sender EXCEPT !.seq = @ + 1]
    /\ UNCHANGED <<first, context, top, recent, calm, late, again>>

-----------------------------------------------------------------------------
(* The highest sequence number, which the first packet sets.               *)
Highest(seq) == IF seqNumSet THEN s_l ELSE seq

(* Unsigned arithmetic on the roll-over counter.                           *)
Roc(n) ==
    IF n < 0 THEN n + RocModulus ELSE IF n >= RocModulus THEN n - RocModulus ELSE n

\* Fault: the roll-over counter goes below zero.
guessIndexBelow(seq) ==
    LET h == Highest(seq) IN
    [roc |-> IF h < Half THEN IF seq - h > Half THEN roc - 1 ELSE roc
                         ELSE IF h - Half > seq THEN roc + 1 ELSE roc,
     seq |-> seq]

\* Fault: the distance from which on a wrap is assumed is off by one.
guessIndexNarrow(seq) ==
    LET h == Highest(seq) IN
    [roc |-> IF h < Half THEN IF seq - h > Half THEN Roc(roc - 1) ELSE roc
                         ELSE IF h - Half - 1 > seq THEN Roc(roc + 1) ELSE roc,
     seq |-> seq]

guessIndex(seq) ==
    LET h == Highest(seq) IN
    [roc |-> IF h < Half THEN IF seq - h > Half THEN Roc(roc - 1) ELSE roc
                         ELSE IF h - Half > seq THEN Roc(roc + 1) ELSE roc,
     seq |-> seq]

(* What checkReplay may answer.  A shift by the whole width of the window  *)
(* is undefined: the test then may read any bit.                           *)
checkReplay(delta) ==
    IF delta > 0 THEN {TRUE}
    ELSE IF -delta > ReplayWindowSize THEN {FALSE}
    ELSE IF -delta = ReplayWindowSize THEN BOOLEAN
    ELSE {-delta \notin replay_window}

\* Fault: the window does not move on.
ReplayWindowsStill(delta) == {replay_window \cup {0}}

(* What update may make of the window.  Shifting by a negative number, or  *)
(* by more than the width, is undefined.                                   *)
ReplayWindows(delta) ==
    IF delta >= ReplayWindowSize THEN {w \cup {0} : w \in SUBSET Window}
    ELSE IF delta > 0 THEN {{0} \cup ({k + delta : k \in replay_window} \cap Window)}
    ELSE IF delta = 0 THEN {replay_window \cup {0}}
    ELSE {replay_window \cup w : w \in SUBSET Window}

\* Fault: the sequence number is taken over though it is not the highest.
updateAlways(guess, delta) ==
    /\ replay_window' \in ReplayWindows(delta)
    /\ s_l' = guess.seq
    /\ roc' = IF guess.roc > roc THEN guess.roc ELSE roc

(* After the packet was accepted.                                          *)
update(guess, delta) ==
    /\ replay_window' \in ReplayWindows(delta)
    /\ s_l' = IF guess.seq > Highest(guess.seq) \/ guess.roc > roc
              THEN guess.seq ELSE Highest(guess.seq)
    /\ roc' = IF guess.roc > roc THEN guess.roc ELSE roc

(* Ahead of top by less than half a cycle, or behind it by less.           *)
Near(p) ==
    IF p.roc = top.roc THEN p.seq - top.seq < Half /\ top.seq - p.seq < Half
    ELSE \/ p.roc = top.roc + 1 /\ p.seq + SeqModulus - top.seq < Half
         \/ AcrossWrap /\ p.roc = top.roc - 1 /\ top.seq + SeqModulus - p.seq < Half

(* A packet arrives: a replay, one that does not authenticate, or one that *)
(* is decrypted and recorded.                                              *)
unprotect(p) ==
    LET guess == guessIndex(p.seq)
        delta == Delta(guess, [roc |-> roc, seq |-> Highest(p.seq)])
        newer == ~seqNumSet \/ Before(top, p)
    IN /\ ~Before(p, first) /\ Before(p, sender)
       /\ seqNumSet' = TRUE /\ guessed_roc' = guess.roc
       /\ top' = IF newer THEN p ELSE top
       /\ calm' = (calm /\ IF seqNumSet THEN Near(p) ELSE p.roc = 0)
       /\ \/ /\ FALSE \in checkReplay(delta) \/ guess.roc # p.roc
             /\ s_l' = Highest(p.seq)
             /\ recent' = {q \in recent : Delta(top', q) < ReplayWindowSize}
             /\ UNCHANGED <<roc, replay_window, late, again>>
          \/ /\ TRUE \in checkReplay(delta) /\ guess.roc = p.roc
             /\ update(guess, delta)
             /\ recent' = {q \in recent \cup {p} : Delta(top', q) < ReplayWindowSize}
             /\ late' = (late \/ (~newer /\ p \notin recent))
             /\ again' = (again \/ p \in recent)
       /\ UNCHANGED <<first, sender>>

Next == protect \/ \E p \in Indices : unprotect(p)

Spec == Init /\ [][Next]_vars

-----------------------------------------------------------------------------
(* The variables have the types the code declares. *)
TypeOK ==
    /\ first \in Indices /\ sender \in Indices
    /\ roc \in 0..(RocModulus - 1) /\ guessed_roc \in 0..(RocModulus - 1)
    /\ s_l \in Seqs /\ seqNumSet \in BOOLEAN
    /\ replay_window \subseteq Window
    /\ top \in Indices /\ recent \subseteq Indices
    /\ calm \in BOOLEAN /\ late \in BOOLEAN /\ again \in BOOLEAN

(* update keeps "the locally stored ROC and highest sequence number": they *)
(* are the highest index that arrived, as long as packets are less than    *)
(* half a cycle away from it.                                              *)
InStep == calm /\ seqNumSet => roc = top.roc /\ s_l = top.seq

(* No packet that is newer than all before it is refused or decrypted with *)
(* a wrong index, through any number of roll-overs, losses and reorderings *)
(* of less than half a cycle.                                              *)
NewerAccepted ==
    [][calm' /\ (top' # top \/ seqNumSet' # seqNumSet) => top' \in recent']_vars

(* checkReplay "supports a 64 packet history": of packets accepted in      *)
(* order none is accepted again.                                           *)
NoneAgain == calm /\ ~late => ~again
=============================================================================
