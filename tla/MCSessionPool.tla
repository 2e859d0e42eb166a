--------------------------- MODULE MCSessionPool ---------------------------
(* Two sessions and one or two application threads for SessionPool.        *)
EXTENDS SessionPool, TLC

CONSTANTS s1, s2

(* Data sockets of RTPSession objects: a DualRTPChannel opens a receive    *)
(* and a send socket for data and for control, so consecutive sessions are *)
(* four descriptors apart.                                                 *)
DualSockets == s1 :> 3 @@ s2 :> 7

(* Data sockets of SymmetricRTPSession objects: one descriptor per channel *)
(* and so two descriptors from one session to the next.                    *)
SymmetricSockets == s1 :> 3 @@ s2 :> 5

(* Element addresses and application threads are interchangeable.          *)
Symmetry == Permutations(Elements) \cup Permutations(Apps)
=============================================================================
