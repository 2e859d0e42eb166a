-------------------------- MODULE MCOutgoingQueue --------------------------
(* One or two application threads for OutgoingQueue.                       *)
EXTENDS OutgoingQueue, TLC

(* Application threads are interchangeable.                                *)
Symmetry == Permutations(Apps)
=============================================================================
