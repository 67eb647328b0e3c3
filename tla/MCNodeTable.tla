---------------------------- MODULE MCNodeTable -----------------------------
(***************************************************************************)
(* A small routing table for TLC: nodeIds of three bits, this node's       *)
(* without a 1 bit, so that a node's bucket is the number of elements of   *)
(* its id.  The node of all three bits is HASH_BITS away: no bucket.       *)
(***************************************************************************)
EXTENDS NodeTable

CONSTANTS self, a1, a2, a3, t1, t2

MCSelf == [addr |-> self, nodeId |-> {}]

Node(a, id) == [addr |-> a, nodeId |-> id]

\* A bucket that overflows, addresses with two ids, in one bucket and in two,
\* this node's own record, and the node without a bucket.
MCNodes == { Node(a1, {0}), Node(a2, {0, 1}), Node(a1, {0, 2}), Node(a3, {1, 2}),
             Node(a2, {1, 2}), Node(self, {2}), Node(a3, {0, 1, 2}) }
MCKeys  == { {0, 1} }
=============================================================================
