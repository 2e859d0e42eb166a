-------------------------- MODULE MCIncomingQueue --------------------------
(* Up to two sources and three packets of each for IncomingQueue.          *)
EXTENDS IncomingQueue, TLC

CONSTANT LastSeq   \* the highest sequence number that arrives

MCSeqs == 1..LastSeq

(* The second and the third packet are parts of one frame.                 *)
MCTimestamp == [n \in MCSeqs |-> IF n <= 2 THEN n ELSE n - 1]

Symmetry == Permutations(Links) \cup Permutations(Sources)
=============================================================================
