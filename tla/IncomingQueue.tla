--------------------------- MODULE IncomingQueue ---------------------------
(***************************************************************************)
(* The reception queue of IncomingDataQueue (incqueue.cpp, ccrtp/iqueue.h) *)
(* link by link: every IncomingRTPPktLink is in a doubly linked list of    *)
(* all packets (recvFirst .. recvLast) and in one of its source (first ..  *)
(* last).  insertRecvPacket, getWaiting and purgeIncomingQueue each hold   *)
(* recvLock for writing from start to end, so each is one step.            *)
(***************************************************************************)
EXTENDS Integers, SequencesExt

CONSTANTS
    Sources,        \* SyncSourceLink objects
    Links,          \* addresses of IncomingRTPPktLink objects
    Null,           \* the null IncomingRTPPktLink*
    NoPacket,       \* getData returned a null pointer
    Seqs,           \* sequence numbers that arrive
    Timestamp,      \* the timestamp of the packet with a sequence number
    EndToEndDelay,  \* whether end2EndDelayed may find packets delayed
    Reordering,     \* "none", "inside" the queued packets, or "any"
    Duplicates,     \* copies the network makes: "none", of the packet "last"
                    \* queued, or of "any"
    Queries         \* kinds of getData calls: for "any" source, for one
                    \* "source", for the "first" packet of one source, the
                    \* same while that source is the "only" one waiting

ASSUME IncomingQueueAssumption ==
    /\ Null \notin Links
    /\ Seqs \subseteq 0..65535
    /\ Timestamp \in [Seqs -> Nat]
    /\ EndToEndDelay \in BOOLEAN
    /\ Duplicates \in {"none", "last", "any"}
    /\ Reordering \in {"none", "inside", "any"}
    /\ Queries \subseteq {"any", "source", "first", "only"}
    /\ NoPacket \notin [src : Sources, seq : Seqs]

VARIABLES
    allocated,                      \* links that exist
    pkt,                            \* the packet of a link
    next, prev, srcNext, srcPrev,   \* the pointers of a link
    recvFirst, recvLast,            \* IncomingDataQueue
    first, last,                    \* SyncSourceLink, per source
    result,                         \* what the last getData returned
    open,                           \* endQueue has not been called
    arrived, delivered, expired     \* history of packets

ptrs == <<next, prev, srcNext, srcPrev>>
ends == <<recvFirst, recvLast, first, last>>
hist == <<arrived, delivered, expired>>
vars == <<allocated, pkt, ptrs, ends, result, open, hist>>

Packets == [src : Sources, seq : Seqs]

Init ==
    /\ allocated = {} /\ pkt = [l \in Links |-> NoPacket]
    /\ next = [l \in Links |-> Null] /\ prev = [l \in Links |-> Null]
    /\ srcNext = [l \in Links |-> Null] /\ srcPrev = [l \in Links |-> Null]
    /\ recvFirst = Null /\ recvLast = Null
    /\ first = [s \in Sources |-> Null] /\ last = [s \in Sources |-> Null]
    /\ result = NoPacket /\ open = TRUE
    /\ arrived = {} /\ delivered = {} /\ expired = {}

(* The links met from l on along the pointers f, at most one per link.     *)
Chain(f, l) ==
    LET at[k \in 0..Cardinality(Links)] ==
            IF k = 0 THEN l ELSE IF at[k - 1] = Null THEN Null ELSE f[at[k - 1]]
        met == {k \in 0..Cardinality(Links) : at[k] # Null}
    IN [k \in 1..Cardinality(met) |-> at[k - 1]]

(* p->setX(q) when p may be null in the code's test.                       *)
Set(f, p, q) == IF p = Null THEN f ELSE [f EXCEPT ![p] = q]

Seq16(l)   == pkt[l].seq
Stamp(l)   == Timestamp[pkt[l].seq]

-----------------------------------------------------------------------------
(* insertRecvPacket: new link l of source s with sequence number n.  Each  *)
(* branch of the code is an operator of its own.                           *)

(* A disordered packet older than all queued ones of its source.           *)
InsertFirst(l, s) ==
    LET srcFirst == first[s] IN
    /\ srcPrev' = [srcPrev EXCEPT ![srcFirst] = l]
    /\ srcNext' = [srcNext EXCEPT ![l] = srcFirst]
    /\ next' = [Set(next, prev[srcFirst], l) EXCEPT ![l] = srcFirst]
    /\ prev' = [prev EXCEPT ![l] = prev[srcFirst], ![srcFirst] = l]
    /\ first' = [first EXCEPT ![s] = l]
    /\ UNCHANGED <<recvFirst, recvLast, last>>

\* Fault: the link before the new one in the list of all is not told.
InsertInsideUnlinked(l, plink) ==
    LET after == srcNext[plink] IN
    /\ srcPrev' = [srcPrev EXCEPT ![after] = l, ![l] = plink]
    /\ srcNext' = [srcNext EXCEPT ![l] = after, ![plink] = l]
    /\ next' = [next EXCEPT ![l] = after]
    /\ prev' = [prev EXCEPT ![l] = prev[after], ![after] = l]
    /\ UNCHANGED ends

(* A disordered packet between plink and the next one of its source.       *)
InsertInside(l, plink) ==
    LET after == srcNext[plink] IN
    /\ srcPrev' = [srcPrev EXCEPT ![after] = l, ![l] = plink]
    /\ srcNext' = [srcNext EXCEPT ![l] = after, ![plink] = l]
    /\ next' = [next EXCEPT ![prev[after]] = l, ![l] = after]
    /\ prev' = [prev EXCEPT ![l] = prev[after], ![after] = l]
    /\ UNCHANGED ends

\* Fault: the packet becomes the first of all packets.
InsertOnlyAtFront(l, s) ==
    /\ last' = [last EXCEPT ![s] = l]
    /\ first' = [first EXCEPT ![s] = l]
    /\ next' = [next EXCEPT ![l] = recvFirst]
    /\ prev' = Set(prev, recvFirst, l)
    /\ recvFirst' = l
    /\ recvLast' = IF recvLast = Null THEN l ELSE recvLast
    /\ UNCHANGED <<srcNext, srcPrev>>

(* The only packet of its source.                                          *)
InsertOnly(l, s) ==
    /\ last' = [last EXCEPT ![s] = l]
    /\ first' = [first EXCEPT ![s] = l]
    /\ next' = Set(next, recvLast, l)
    /\ prev' = [prev EXCEPT ![l] = recvLast]
    /\ recvLast' = l
    /\ recvFirst' = IF recvFirst = Null THEN l ELSE recvFirst
    /\ UNCHANGED <<srcNext, srcPrev>>

\* Fault: in the list of all packets the new one becomes the first.
InsertLastAtFront(l, s) ==
    /\ srcNext' = [srcNext EXCEPT ![last[s]] = l]
    /\ srcPrev' = [srcPrev EXCEPT ![l] = last[s]]
    /\ last' = [last EXCEPT ![s] = l]
    /\ next' = [next EXCEPT ![l] = recvFirst]
    /\ prev' = [prev EXCEPT ![recvFirst] = l]
    /\ recvFirst' = l
    /\ UNCHANGED <<recvLast, first>>

(* The last packet of its source.                                          *)
InsertLast(l, s) ==
    /\ srcNext' = [srcNext EXCEPT ![last[s]] = l]
    /\ srcPrev' = [srcPrev EXCEPT ![l] = last[s]]
    /\ last' = [last EXCEPT ![s] = l]
    /\ next' = [next EXCEPT ![recvLast] = l]
    /\ prev' = [prev EXCEPT ![l] = recvLast]
    /\ recvLast' = l
    /\ UNCHANGED <<recvFirst, first>>

(* The link with which the search from the source's last packet stops: the *)
(* first that is not after n, or null.                                     *)
Place(s, n) ==
    LET back == Chain(srcPrev, last[s])
        stop == {k \in 1..Len(back) : n >= Seq16(back[k])}
    IN IF stop = {} THEN Null ELSE back[Min(stop)]

\* Fault: a repeated packet counts as the next one of its source.
insertRecvPacketRepeated(l, s, n) ==
    \/ /\ last[s] = Null
       /\ InsertOnly(l, s)
    \/ /\ last[s] # Null /\ n >= Seq16(last[s])
       /\ InsertLast(l, s)

insertRecvPacket(l, s, n) ==
    \/ /\ last[s] = Null
       /\ InsertOnly(l, s)
    \/ /\ last[s] # Null /\ n > Seq16(last[s])
       /\ InsertLast(l, s)
    \/ /\ last[s] # Null /\ n < Seq16(last[s])
       /\ \/ Place(s, n) = Null /\ InsertFirst(l, s)
          \/ Place(s, n) # Null /\ InsertInside(l, Place(s, n))

(* The network: packets of a source come in order, or overtake each other  *)
(* while they are queued, or arbitrarily.                                  *)
InOrder(p)  == \A q \in arrived : q.src = p.src => q.seq <= p.seq
Overtaken(p) == first[p.src] # Null /\ Seq16(first[p.src]) <= p.seq

Comes(p) ==
    /\ open
    /\ \/ p \notin arrived
       \/ Duplicates = "last" /\ last[p.src] # Null /\ pkt[last[p.src]] = p
       \/ Duplicates = "any"
    /\ \/ InOrder(p)
       \/ Reordering = "inside" /\ Overtaken(p)
       \/ Reordering = "any"

(* A packet that takeInDataPacket accepted is queued ...                   *)
Receive(p) ==
    /\ Comes(p)
    /\ \E l \in Links \ allocated :
          /\ insertRecvPacket(l, p.src, p.seq)
          /\ allocated' = allocated \cup {l}
          /\ pkt' = [pkt EXCEPT ![l] = p]
    /\ arrived' = arrived \cup {p}
    /\ result' = NoPacket
    /\ UNCHANGED <<open, delivered, expired>>

(* ... or deleted: it repeats the last packet of its source.               *)
ReceiveDuplicate(p) ==
    /\ Comes(p)
    /\ last[p.src] # Null /\ Seq16(last[p.src]) = p.seq
    /\ result' = NoPacket
    /\ UNCHANGED <<allocated, pkt, ptrs, ends, open, hist>>

-----------------------------------------------------------------------------
\* Fault: packets at stamp are counted as old.
OldLate(q, stamp) ==
    {m \in 0..Len(q) :
        /\ m < Len(q) => Stamp(q[m + 1]) > stamp
        /\ EndToEndDelay \/ \A k \in 1..m : Stamp(q[k]) <= stamp}

(* How many leading links of q getWaiting counts as old: those before      *)
(* stamp or found delayed by end2EndDelayed.                               *)
Old(q, stamp) ==
    {m \in 0..Len(q) :
        /\ m < Len(q) => Stamp(q[m + 1]) >= stamp
        /\ EndToEndDelay \/ \A k \in 1..m : Stamp(q[k]) < stamp}

\* Fault: the packet is deleted and the link is not.
DeletePacket(ls) ==
    /\ UNCHANGED allocated
    /\ pkt' = [l \in Links |-> IF l \in ls THEN NoPacket ELSE pkt[l]]

(* delete: the links of ls are gone, and nothing in them can be relied on. *)
Free(f, ls) == [l \in Links |-> IF l \in ls THEN Null ELSE f[l]]
Delete(ls) ==
    /\ allocated' = allocated \ ls
    /\ pkt' = [l \in Links |-> IF l \in ls THEN NoPacket ELSE pkt[l]]

(* Unlinking l from the list of all packets in the first for loop; it does *)
(* not look at recvFirst and recvLast.                                     *)
Unlink(st, l) ==
    [next |-> Set(st.next, st.prev[l], st.next[l]),
     prev |-> Set(st.prev, st.next[l], st.prev[l]),
     nonempty |-> st.prev[l] # Null \/ st.next[l] # Null]

(* getWaiting for packets of source s, if it has any ...                   *)
getWaitingFrom(s, stamp) ==
    LET mine == Chain(srcNext, first[s]) IN
    \E nold \in Old(mine, stamp) :
      LET olds == ToSet(SubSeq(mine, 1, nold))
          st   == FoldLeft(Unlink, [next |-> next, prev |-> prev, nonempty |-> FALSE],
                           SubSeq(mine, 1, nold))
          head == IF nold < Len(mine) THEN mine[nold + 1] ELSE Null
      IN /\ open /\ first[s] # Null
         /\ expired' = expired \cup {pkt[l] : l \in olds}
         /\ \/ /\ head = Null
               /\ first' = [first EXCEPT ![s] = Null]
               /\ last' = [last EXCEPT ![s] = Null]
               /\ recvFirst' = IF st.nonempty THEN recvFirst ELSE Null
               /\ recvLast' = IF st.nonempty THEN recvLast ELSE Null
               /\ next' = Free(st.next, olds) /\ prev' = Free(st.prev, olds)
               /\ srcNext' = Free(srcNext, olds) /\ srcPrev' = Free(srcPrev, olds)
               /\ Delete(olds)
               /\ result' = NoPacket /\ UNCHANGED delivered
            \/ /\ head # Null /\ Stamp(head) > stamp
               /\ first' = [first EXCEPT ![s] = head]
               /\ next' = Free(st.next, olds) /\ prev' = Free(st.prev, olds)
               /\ srcNext' = Free(srcNext, olds)
               /\ srcPrev' = Free([srcPrev EXCEPT ![head] = Null], olds)
               /\ Delete(olds)
               /\ result' = NoPacket
               /\ UNCHANGED <<recvFirst, recvLast, last, delivered>>
            \/ /\ head # Null /\ Stamp(head) <= stamp
               /\ LET p == st.prev[head]
                      n == st.next[head]
                      new == srcNext[head]
                      gone == olds \cup {head}
                  IN /\ recvFirst' = IF p = Null THEN n ELSE recvFirst
                     /\ recvLast' = IF n = Null THEN p ELSE recvLast
                     /\ first' = [first EXCEPT ![s] = new]
                     /\ last' = IF new = Null THEN [last EXCEPT ![s] = Null] ELSE last
                     /\ next' = Free(Set(st.next, p, n), gone)
                     /\ prev' = Free(Set(Set(st.prev, n, p), new, Null), gone)
                     /\ srcNext' = Free(srcNext, gone)
                     /\ srcPrev' = Free(srcPrev, gone)
                     /\ Delete(gone)
               /\ result' = pkt[head]
               /\ delivered' = delivered \cup {pkt[head]}
         /\ UNCHANGED <<open, arrived>>

(* ... and if it has none.                                                 *)
getWaitingFromEmpty(s) ==
    /\ open /\ first[s] = Null
    /\ result' = NoPacket
    /\ UNCHANGED <<allocated, pkt, ptrs, ends, open, hist>>

\* Fault: last is not reset when the list of a source becomes empty.
DequeueKeepLast(st, l) ==
    [first |-> [st.first EXCEPT ![pkt[l].src] = srcNext[l]],
     last |-> st.last,
     srcPrev |-> Set(st.srcPrev, srcNext[l], Null)]

(* Taking the links of ls from the lists of their sources, front first.    *)
Dequeue(st, l) ==
    LET s == pkt[l].src IN
    [first |-> [st.first EXCEPT ![s] = srcNext[l]],
     last |-> IF srcNext[l] = Null THEN [st.last EXCEPT ![s] = Null] ELSE st.last,
     srcPrev |-> Set(st.srcPrev, srcNext[l], Null)]

\* Fault: getData hands out what getWaiting returns without a test for null.
HandOutUntested(p) == delivered \cup {p}

(* getData makes an AppDataUnit of the packet, if there is one.            *)
HandOut(p) == IF p = NoPacket THEN delivered ELSE delivered \cup {p}

(* getWaiting for packets of any source.                                   *)
getWaiting(stamp) ==
    LET all == Chain(next, recvFirst) IN
    \E nold \in Old(all, stamp) :
      LET head  == IF nold < Len(all) THEN all[nold + 1] ELSE Null
          found == head # Null /\ Stamp(head) <= stamp
          gone  == SubSeq(all, 1, IF found THEN nold + 1 ELSE nold)
          st    == FoldLeft(Dequeue, [first |-> first, last |-> last,
                                      srcPrev |-> srcPrev], gone)
          rest  == IF found THEN next[head] ELSE head
      IN /\ open
         /\ recvFirst' = rest
         /\ recvLast' = IF rest = Null THEN Null ELSE recvLast
         /\ first' = st.first /\ last' = st.last
         /\ next' = Free(next, ToSet(gone))
         /\ prev' = Free(Set(prev, rest, Null), ToSet(gone))
         /\ srcNext' = Free(srcNext, ToSet(gone))
         /\ srcPrev' = Free(st.srcPrev, ToSet(gone))
         /\ Delete(ToSet(gone))
         /\ result' = IF found THEN pkt[head] ELSE NoPacket
         /\ delivered' = HandOut(result')
         /\ expired' = expired \cup {pkt[l] : l \in ToSet(gone) \ {head}}
         /\ UNCHANGED <<open, arrived>>

(* purgeIncomingQueue leaves recvLast alone; endQueue calls it last.       *)
purgeIncomingQueue ==
    LET all == ToSet(Chain(next, recvFirst)) IN
    /\ open /\ open' = FALSE
    /\ first' = [s \in Sources |-> IF \E l \in all : pkt[l].src = s
                                   THEN Null ELSE first[s]]
    /\ last' = [s \in Sources |-> IF \E l \in all : pkt[l].src = s
                                  THEN Null ELSE last[s]]
    /\ recvFirst' = Null
    /\ next' = Free(next, all) /\ prev' = Free(prev, all)
    /\ srcNext' = Free(srcNext, all) /\ srcPrev' = Free(srcPrev, all)
    /\ Delete(all)
    /\ expired' = expired \cup {pkt[l] : l \in all}
    /\ result' = NoPacket
    /\ UNCHANGED <<recvLast, arrived, delivered>>

(* getFirstTimestamp(src), with which applications ask for what is there.  *)
getFirstTimestamp(s) == IF first[s] = Null THEN 0 ELSE Stamp(first[s])

Next ==
    \/ \E p \in Packets : Receive(p) \/ ReceiveDuplicate(p)
    \/ \E stamp \in Range(Timestamp) :
          \/ "any" \in Queries /\ getWaiting(stamp)
          \/ \E s \in Sources :
                /\ \/ "source" \in Queries
                   \/ "first" \in Queries /\ stamp = getFirstTimestamp(s)
                   \/ "only" \in Queries /\ stamp = getFirstTimestamp(s)
                      /\ \A t \in Sources \ {s} : first[t] = Null
                /\ getWaitingFrom(s, stamp)
    \/ \E s \in Sources : Queries # {"any"} /\ getWaitingFromEmpty(s)
    \/ purgeIncomingQueue

Spec == Init /\ [][Next]_vars

-----------------------------------------------------------------------------
Pointers == [Links -> Links \cup {Null}]

(* The variables have the types the code declares. *)
TypeOK ==
    /\ allocated \subseteq Links
    /\ pkt \in [Links -> Packets \cup {NoPacket}]
    /\ next \in Pointers /\ prev \in Pointers
    /\ srcNext \in Pointers /\ srcPrev \in Pointers
    /\ {recvFirst, recvLast} \subseteq Links \cup {Null}
    /\ first \in [Sources -> Links \cup {Null}]
    /\ last \in [Sources -> Links \cup {Null}]
    /\ result \in Packets \cup {NoPacket} /\ open \in BOOLEAN
    /\ arrived \subseteq Packets /\ delivered \subseteq arrived
    /\ expired \subseteq arrived

(* Forwards and backwards, f and its inverse g give the same list from b   *)
(* to e, of existing links.  What g has before b is not looked at: a       *)
(* source specific getWaiting leaves it at the link it took.               *)
DoublyLinked(f, g, b, e) ==
    /\ IsPrefix(Reverse(Chain(f, b)), Chain(g, e))
    /\ ToSet(Chain(f, b)) \subseteq allocated
    /\ b = Null <=> e = Null

(* The two lists every packet is in agree: the list of all packets and the *)
(* list of each source are well formed in both directions, the list of a   *)
(* source is what the list of all has of it, in the same order, and that   *)
(* is the order of the sequence numbers, without repetition.               *)
ListsAgree ==
    open =>
        /\ DoublyLinked(next, prev, recvFirst, recvLast)
        /\ recvFirst # Null => prev[recvFirst] = Null
        /\ \A s \in Sources :
              /\ DoublyLinked(srcNext, srcPrev, first[s], last[s])
              /\ Chain(srcNext, first[s])
                    = SelectSeq(Chain(next, recvFirst), LAMBDA l : pkt[l].src = s)
              /\ LET c == Chain(srcNext, first[s])
                 IN \A j, k \in 1..Len(c) : j < k => Seq16(c[j]) < Seq16(c[k])

Queued == {pkt[l] : l \in allocated \cap ToSet(Chain(next, recvFirst))}

(* A packet that was received stays in the queue, where isWaiting and      *)
(* getData find it, until it is delivered or discarded as too old.         *)
NothingLost == Queued = arrived \ (delivered \cup expired)

(* No link is in the heap without being in the queue (a leak).             *)
NoLeak == allocated = ToSet(Chain(next, recvFirst))

(* getData hands out the packets of a source in the order of their         *)
(* sequence numbers, and none of them twice.                               *)
DeliveredInOrder ==
    [][delivered' # delivered =>
          \A q \in delivered : q.src = result'.src => q.seq < result'.seq]_vars

Abstract == INSTANCE ReceptionQueue
    WITH queue <- LET c == Chain(next, recvFirst)
                  IN [k \in 1..Len(c) |-> pkt[c[k]]]

(* The linked lists implement the reception queue: insertRecvPacket and    *)
(* getWaiting do to them what the abstract operations do to a sequence.    *)
ImplementsQueue == Abstract!Spec
=============================================================================
