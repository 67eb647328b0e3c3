----------------------------- MODULE NodeTable ------------------------------
(***************************************************************************)
(* The routing table of NodeQueue.cpp: mark_seen, get_better_nodes and     *)
(* ping_all, called by several threads.  Each bucket has its lock, and the *)
(* walks over the table lock one bucket at a time.                         *)
(*                                                                         *)
(* A ping is its receiver: the message ids and what becomes of the pings   *)
(* are the business of control_protocol.                                   *)
(***************************************************************************)
EXTENDS NodeLists

CONSTANTS
    Self,           \* DHT::get()->getNode()
    Nodes,          \* the node_records that may be seen
    Keys,           \* the hashes that are looked up
    Threads,        \* pool threads, searches, the console and main
    bucketSize,
    alpha

Buckets == 0 .. HASH_BITS - 1

ASSUME NodeTableAssumption ==
    /\ bucketSize \in Nat \ {0}
    /\ alpha \in Nat \ {0}
    /\ \A n \in Nodes : bit_distance(Self.nodeId, n.nodeId) \in Nat
    /\ \A n \in Nodes, key \in Keys : bit_distance(n.nodeId, key) \in Nat

VARIABLES
    buckets,
    calls,          \* what each thread is doing in this module
    out_of_range,   \* a bucket that does not exist has been used
    pinged,         \* output: the nodes that the last step has pinged
    recency         \* history: the addresses seen, the latest first

vars == <<buckets, calls, out_of_range, pinged, recency>>

(***************************************************************************)
(* What a thread may be doing.  A walk has done the buckets before i; its  *)
(* "lasting" is a history: the nodes in the table since the walk began.    *)
(***************************************************************************)
Free    == [op |-> "none"]
Scan    == [op : {"scan"}, i : 0 .. HASH_BITS, lasting : SUBSET Nodes,
            key : Keys, allow_non_euclidian : BOOLEAN,
            pq : Seq([d : Nat, node : Nodes])]
PingAll == [op : {"ping_all"}, i : 0 .. HASH_BITS, lasting : SUBSET Nodes,
            done : SUBSET Nodes]

Init ==
    /\ buckets = [d \in Buckets |-> <<>>]
    /\ calls = [t \in Threads |-> Free]
    /\ out_of_range = FALSE
    /\ pinged = {}
    /\ recency = [d \in Buckets |-> <<>>]

Table(b) == UNION { ToSet(b[d]) : d \in Buckets }

\* control_protocol::ping pings every node but this one.
Others(nodes) == { n \in nodes : ~SameNode(n, Self) }

-----------------------------------------------------------------------------
\* std::find by node_record::operator==, and erase.
Forget(list, n) ==
    LET i == SelectInSeq(list, LAMBDA m : SameNode(m, n))
    IN  IF i = 0 THEN list ELSE RemoveAt(list, i)

\* Faulty variants of Seen: the node stays where it was as well, or only there.
SeenTwice(list, n) == <<n>> \o list
SeenInPlace(list, n) ==
    IF \E i \in DOMAIN list : SameNode(list[i], n) THEN list ELSE <<n>> \o list

\* The node is moved, or added, to the front.
Seen(list, n) == <<n>> \o Forget(list, n)

Kept(list) == IF Len(list) >= bucketSize THEN Front(list) ELSE list

\* Faulty variant of Evicted: the new node is pinged in place of the old one.
EvictedFront(list) == IF Len(list) >= bucketSize THEN {Head(list)} ELSE {}

Evicted(list) == IF Len(list) >= bucketSize THEN {Last(list)} ELSE {}

(***************************************************************************)
(* mark_seen, all of it under the lock of n's bucket, the ping of the      *)
(* evicted node included.                                                  *)
(***************************************************************************)
mark_seen(t, n) ==
    LET d    == bit_distance(Self.nodeId, n.nodeId)
        list == Seen(buckets[d], n)
    IN  /\ ~out_of_range
        /\ calls[t] = Free
        /\ d \in Buckets
        /\ buckets' = [buckets EXCEPT ![d] = Kept(list)]
        /\ pinged' = Others(Evicted(list))
        /\ calls' = [u \in Threads |->
                        IF calls[u] = Free THEN Free
                        ELSE [calls[u] EXCEPT !.lasting = @ \cap Table(buckets')]]
        /\ recency' = [recency EXCEPT ![d] = <<n.addr>> \o RemoveFirst(@, n.addr)]
        /\ UNCHANGED out_of_range

(***************************************************************************)
(* A node as far from Self as can be has no bucket: bucket_locks[d] and    *)
(* buckets[d] are whatever lies behind the arrays.                         *)
(***************************************************************************)
MarkOutOfRange(t, n) ==
    /\ ~out_of_range
    /\ calls[t] = Free
    /\ bit_distance(Self.nodeId, n.nodeId) \notin Buckets
    /\ out_of_range' = TRUE
    /\ UNCHANGED <<buckets, calls, pinged, recency>>

-----------------------------------------------------------------------------
BeginScan(t, key, allow_non_euclidian) ==
    /\ ~out_of_range
    /\ calls[t] = Free
    /\ calls' = [calls EXCEPT ![t] =
                    [op |-> "scan", i |-> 0, lasting |-> Table(buckets),
                     key |-> key, allow_non_euclidian |-> allow_non_euclidian,
                     pq |-> <<>>]]
    /\ pinged' = {}
    /\ UNCHANGED <<buckets, out_of_range, recency>>

\* The next bucket of get_better_nodes, under its lock.
ScanBucket(t) ==
    /\ ~out_of_range
    /\ calls[t].op = "scan"
    /\ calls[t].i < HASH_BITS
    /\ calls' = [calls EXCEPT
           ![t].i  = @ + 1,
           ![t].pq = OfferAll(@, buckets[calls[t].i], calls[t].key,
                              bit_distance(Self.nodeId, calls[t].key),
                              calls[t].allow_non_euclidian, alpha)]
    /\ pinged' = {}
    /\ UNCHANGED <<buckets, out_of_range, recency>>

BeginPingAll(t) ==
    /\ ~out_of_range
    /\ calls[t] = Free
    /\ calls' = [calls EXCEPT ![t] = [op |-> "ping_all", i |-> 0,
                                      lasting |-> Table(buckets), done |-> {}]]
    /\ pinged' = {}
    /\ UNCHANGED <<buckets, out_of_range, recency>>

\* Faulty variant of PingBucket: the first node of the bucket only.
PingBucketFirst(t) ==
    /\ ~out_of_range
    /\ calls[t].op = "ping_all"
    /\ calls[t].i < HASH_BITS
    /\ LET list == buckets[calls[t].i]
       IN  pinged' = IF list = <<>> THEN {} ELSE Others({Head(list)})
    /\ calls' = [calls EXCEPT ![t].i = @ + 1, ![t].done = @ \cup pinged']
    /\ UNCHANGED <<buckets, out_of_range, recency>>

\* The next bucket of ping_all, under its lock.
PingBucket(t) ==
    /\ ~out_of_range
    /\ calls[t].op = "ping_all"
    /\ calls[t].i < HASH_BITS
    /\ pinged' = Others(ToSet(buckets[calls[t].i]))
    /\ calls' = [calls EXCEPT ![t].i = @ + 1, ![t].done = @ \cup pinged']
    /\ UNCHANGED <<buckets, out_of_range, recency>>

\* Either walk returns, get_better_nodes with the nodes of its pq.
Return(t) ==
    /\ ~out_of_range
    /\ calls[t].op \in {"scan", "ping_all"}
    /\ calls[t].i = HASH_BITS
    /\ calls' = [calls EXCEPT ![t] = Free]
    /\ pinged' = {}
    /\ UNCHANGED <<buckets, out_of_range, recency>>

-----------------------------------------------------------------------------
Next ==
    \E t \in Threads :
        \/ \E n \in Nodes : mark_seen(t, n) \/ MarkOutOfRange(t, n)
        \/ \E key \in Keys, allow_non_euclidian \in BOOLEAN :
              BeginScan(t, key, allow_non_euclidian)
        \/ ScanBucket(t)
        \/ BeginPingAll(t)
        \/ PingBucket(t)
        \/ Return(t)

Spec == Init /\ [][Next]_vars

-----------------------------------------------------------------------------
\* Every variable has its type; no more than alpha - 1 nodes, or one, are found.
TypeOK ==
    /\ buckets \in [Buckets -> Seq(Nodes)]
    /\ calls \in [Threads -> {Free} \cup Scan \cup PingAll]
    /\ out_of_range \in BOOLEAN
    /\ pinged \subseteq Nodes
    /\ recency \in [Buckets -> Seq({n.addr : n \in Nodes})]
    /\ \A t \in Threads : calls[t].op = "scan" =>
          Len(calls[t].pq) < alpha \/ Len(calls[t].pq) = 1

(***************************************************************************)
(* Bucket i holds nodes at distance i, no ip and port twice, and always    *)
(* fewer than bucketSize of them (NodeQueue.cpp:18-20, 37-48).             *)
(***************************************************************************)
BucketsWellFormed ==
    \A d \in Buckets :
        /\ Len(buckets[d]) < bucketSize
        /\ \A i \in DOMAIN buckets[d] :
              /\ bit_distance(Self.nodeId, buckets[d][i].nodeId) = d
              /\ \A j \in DOMAIN buckets[d] :
                    SameNode(buckets[d][i], buckets[d][j]) => i = j

(***************************************************************************)
(* "sorted (and eventually evicted) by last communication time"            *)
(* (NodeQueue.cpp:19), for the order of the mark_seen calls: a bucket is   *)
(* the most recent bucketSize - 1 of all addresses ever seen for it,       *)
(* whatever was evicted and came back meanwhile.                           *)
(***************************************************************************)
MostRecentKept ==
    \A d \in Buckets :
        [i \in DOMAIN buckets[d] |-> buckets[d][i].addr] =
            SubSeq(recency[d], 1, Min({Len(recency[d]), bucketSize - 1}))

\* The nodes a scan may return.
Allowed(c) ==
    { n \in Nodes : \/ c.allow_non_euclidian
                    \/ bit_distance(n.nodeId, c.key)
                       < bit_distance(Self.nodeId, c.key) }

(***************************************************************************)
(* get_better_nodes, although it locks one bucket at a time, never appends *)
(* to pq and drops its last entry when it grows: its first node is at      *)
(* least as near to the key as every node that it may return and that was  *)
(* in the table during all of the call.                                    *)
(***************************************************************************)
ScanFindsNearest ==
    \A t \in Threads : (calls[t].op = "scan" /\ calls[t].i = HASH_BITS) =>
        \A n \in calls[t].lasting \cap Allowed(calls[t]) :
            /\ calls[t].pq # <<>>
            /\ calls[t].pq[1].d <= bit_distance(n.nodeId, calls[t].key)

(***************************************************************************)
(* The nodes found are sorted by distance, allowed ones, and no record     *)
(* among them is repeated, whatever moves in the table during the scan.    *)
(***************************************************************************)
ScanWellFormed ==
    \A t \in Threads : calls[t].op = "scan" =>
        LET pq == calls[t].pq
        IN  \A i \in DOMAIN pq :
                /\ pq[i].node \in Allowed(calls[t])
                /\ \A j \in DOMAIN pq : i < j => /\ pq[i].d <= pq[j].d
                                              /\ pq[i].node # pq[j].node

(***************************************************************************)
(* "ping everyone in node queues" (main.cpp:70): a node that is in the     *)
(* table during all of a ping_all is pinged by it, unless it is this one.  *)
(***************************************************************************)
EveryoneIsPinged ==
    \A t \in Threads : (calls[t].op = "ping_all" /\ calls[t].i = HASH_BITS) =>
        \A n \in calls[t].lasting : SameNode(n, Self) \/ n \in calls[t].done

(***************************************************************************)
(* "ping the node being evicted" (NodeQueue.cpp:49): an address only       *)
(* leaves a bucket in a step that pings it, unless it is this node's.      *)
(***************************************************************************)
EvictedArePinged ==
    [][\A d \in Buckets : \A m \in ToSet(buckets[d]) :
          \/ \E n \in ToSet(buckets'[d]) \cup pinged' : SameNode(m, n)
          \/ SameNode(m, Self)]_vars

=============================================================================
