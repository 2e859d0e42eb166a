-------------------------- MODULE ReceptionQueue ---------------------------
(***************************************************************************)
(* What the reception queue of ccRTP promises to an application, without   *)
(* its links: packets wait in one queue, those of a source in the order of *)
(* their sequence numbers and each one once; getData(stamp) discards what  *)
(* is older than stamp and hands out the packet at stamp, if any.          *)
(***************************************************************************)
EXTENDS Integers, SequencesExt

CONSTANTS Sources, Seqs, Timestamp, EndToEndDelay, NoPacket

VARIABLES queue, result

Packets == [src : Sources, seq : Seqs]

Init == queue = << >> /\ result = NoPacket

(* Before the first later packet of its source, else at the end.           *)
Insert(p) ==
    /\ p \notin ToSet(queue)
    /\ LET later == {k \in 1..Len(queue) :
                        queue[k].src = p.src /\ queue[k].seq > p.seq}
       IN \/ /\ later = {}
             /\ queue' = Append(queue, p)
          \/ \E k \in later : /\ \A j \in later : k <= j
                              /\ queue' = InsertAt(queue, k, p)
    /\ result' = NoPacket

Reject(p) ==
    /\ p \in ToSet(queue)
    /\ result' = NoPacket
    /\ UNCHANGED queue

(* How many leading packets of q may be discarded: those before stamp and, *)
(* when an end to end delay is set, any that are delayed beyond it.        *)
Discards(q, stamp) ==
    {m \in 0..Len(q) :
        /\ m < Len(q) => Timestamp[q[m + 1].seq] >= stamp
        /\ EndToEndDelay \/ \A k \in 1..m : Timestamp[q[k].seq] < stamp}

Get(srcs, stamp) ==
    LET mine == SelectSeq(queue, LAMBDA p : p.src \in srcs) IN
    \E m \in Discards(mine, stamp) :
        LET found == m < Len(mine) /\ Timestamp[mine[m + 1].seq] = stamp
            gone  == {mine[k] : k \in 1..(IF found THEN m + 1 ELSE m)}
        IN /\ queue' = SelectSeq(queue, LAMBDA p : p \notin gone)
           /\ result' = IF found THEN mine[m + 1] ELSE NoPacket

Purge == queue' = << >> /\ result' = NoPacket

Next ==
    \/ \E p \in Packets : Insert(p) \/ Reject(p)
    \/ \E stamp \in Range(Timestamp) :
          Get(Sources, stamp) \/ \E s \in Sources : Get({s}, stamp)
    \/ Purge

Spec == Init /\ [][Next]_<<queue, result>>
=============================================================================
