----------------------------- MODULE NodeLists ------------------------------
(***************************************************************************)
(* The list algorithms of get_better_nodes and of sub_search: lists of     *)
(* entries [d |-> distance to the key, node |-> node_record], the code's   *)
(* std::pair<size_t, node_record>, are built by insertion from the front.  *)
(***************************************************************************)
EXTENDS Messages, SequencesExt

Entry(key, n) == [d |-> bit_distance(key, n.nodeId), node |-> n]

\* std::pair's operator==: equal distances and equal ip and port.
SameEntry(a, b) == a.d = b.d /\ SameNode(a.node, b.node)

\* Faulty variant of InsertionPoint: nearer and farther swapped.
InsertionPointSwapped(list, e) == SelectInSeq(list, LAMBDA x : e.d >= x.d)

\* The first position whose entry is at least as far as e, 0 when there is none.
InsertionPoint(list, e) == SelectInSeq(list, LAMBDA x : e.d <= x.d)

\* Faulty variant of OfferBetter: keeps alpha entries.
OfferBetterOneMore(pq, e, alpha) ==
    LET i     == InsertionPoint(pq, e)
        grown == InsertAt(pq, i, e)
    IN  IF pq = <<>> THEN <<e>>
        ELSE IF i = 0 THEN pq
        ELSE IF Len(grown) > alpha THEN Front(grown) ELSE grown

(***************************************************************************)
(* One node of a bucket offered to the list pq that get_better_nodes       *)
(* builds.  The loop never appends: an entry farther than all those in a   *)
(* non-empty pq is skipped.                                                *)
(***************************************************************************)
OfferBetter(pq, e, alpha) ==
    LET i     == InsertionPoint(pq, e)
        grown == InsertAt(pq, i, e)
    IN  IF pq = <<>> THEN <<e>>
        ELSE IF i = 0 THEN pq
        ELSE IF Len(grown) >= alpha THEN Front(grown) ELSE grown

\* Faulty variant of Offer: a node as far from the key as this one will do.
OfferAsFar(pq, n, key, limit, allow_non_euclidian, alpha) ==
    IF allow_non_euclidian \/ bit_distance(n.nodeId, key) <= limit
    THEN OfferBetter(pq, Entry(key, n), alpha)
    ELSE pq

\* One node of a bucket offered to pq, if get_better_nodes allows it.
Offer(pq, n, key, limit, allow_non_euclidian, alpha) ==
    IF allow_non_euclidian \/ bit_distance(n.nodeId, key) < limit
    THEN OfferBetter(pq, Entry(key, n), alpha)
    ELSE pq

\* The nodes of one list offered in turn to pq.
OfferAll(pq, nodes, key, limit, allow_non_euclidian, alpha) ==
    LET offered[j \in 0 .. Len(nodes)] ==
            IF j = 0 THEN pq
            ELSE Offer(offered[j - 1], nodes[j], key, limit, allow_non_euclidian, alpha)
    IN  offered[Len(nodes)]

NodesOf(list) == [i \in DOMAIN list |-> list[i].node]

\* An element that equals the one kept before it is dropped.
Keep(kept, n) == IF kept # <<>> /\ SameNode(Last(kept), n) THEN kept ELSE Append(kept, n)

\* std::list::unique.
Unique(nodes) ==
    LET kept[j \in 0 .. Len(nodes)] ==
            IF j = 0 THEN <<>> ELSE Keep(kept[j - 1], nodes[j])
    IN  kept[Len(nodes)]

(***************************************************************************)
(* std::advance(begin, n) followed by erase(iter, end).  Nothing in the    *)
(* code stops the advance at the end of the list; std::list is a ring of   *)
(* its Len + 1 links (end() is one of them), so that the advance wraps.    *)
(***************************************************************************)
CutAfter(list, n) == SubSeq(list, 1, n % (Len(list) + 1))

(***************************************************************************)
(* The queues sub_search::sub_search may build from a routing table whose  *)
(* buckets, in scan order, hold the sequence table.  list::sort is given   *)
(* node_record::operator<, which is no ordering of addresses, so the order *)
(* it leaves is left open.                                                 *)
(***************************************************************************)
StartQueuesOf(table, self, key, alpha) ==
    LET limit     == bit_distance(self.nodeId, key)
        found(ne) == Unique(NodesOf(OfferAll(<<>>, table, key, limit, ne, alpha)))
        better    == found(FALSE)
        l         == IF Len(better) < alpha THEN found(TRUE) ELSE better
        orders    == {p \in [DOMAIN l -> DOMAIN l] : IsInjective(p)}
    IN  { CutAfter([i \in DOMAIN l |-> Entry(key, l[p[i]])], alpha) : p \in orders }

\* Faulty variants of QueueSuggestion: equal entries stay; the best one spills.
QueueSuggestionTwice(queue, e, max) ==
    LET i     == InsertionPoint(queue, e)
        grown == IF i = 0 THEN queue ELSE InsertAt(queue, i, e)
    IN  IF queue = <<>> THEN <<e>>
        ELSE IF Len(grown) > max THEN Front(grown) ELSE grown

QueueSuggestionSpillsBest(queue, e, max) ==
    LET i     == InsertionPoint(queue, e)
        grown == IF i = 0 THEN queue ELSE InsertAt(queue, i, e)
    IN  IF queue = <<>> THEN <<e>>
        ELSE IF Len(grown) > max THEN Tail(grown) ELSE grown

\* The entries of the list that are not equal to e, in their order.
WithoutSame(list, e) ==
    LET kept == { j \in 1 .. Len(list) : ~SameEntry(list[j], e) }
    IN  [k \in 1 .. Cardinality(kept) |->
            list[CHOOSE j \in kept : Cardinality({ i \in kept : i <= j }) = k]]

(***************************************************************************)
(* One suggestion e inserted in next_nodes_queue by sub_search::run: before *)
(* the first entry that is not nearer, erasing the equal entries behind    *)
(* it, and spilling the last entry of a queue longer than max.             *)
(***************************************************************************)
QueueSuggestion(queue, e, max) ==
    LET i     == InsertionPoint(queue, e)
        grown == IF i = 0 THEN queue
                 ELSE SubSeq(queue, 1, i - 1) \o <<e>>
                      \o WithoutSame(SubSeq(queue, i, Len(queue)), e)
    IN  IF queue = <<>> THEN <<e>>
        ELSE IF Len(grown) > max THEN Front(grown) ELSE grown

\* The loop that erases equal entries goes on from the entry it has erased.
ErasesUnderIterator(queue, e) == \E i \in DOMAIN queue : SameEntry(queue[i], e)

=============================================================================
