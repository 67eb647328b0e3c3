------------------------- MODULE MCControlProtocol --------------------------
(***************************************************************************)
(* Small instances for TLC: three bits, this node's id without a 1 bit, so *)
(* that a node's bucket is the number of elements of its id.               *)
(***************************************************************************)
EXTENDS ControlProtocol

CONSTANTS self, a1, a2, a3, t1, t2

MCSelf == [addr |-> self, nodeId |-> {}]

Node(a, id) == [addr |-> a, nodeId |-> id]

\* Three nodes for one bucket of two.
MCPeers == { Node(a1, {0}), Node(a2, {1}), Node(a3, {2}) }

\* Friends, with nodeIds made up for them, that fill this bucket and are in
\* another one, and friends that overflow this bucket.
MCFriendLists == { << Node(a3, {1, 2}), Node(a2, {2}), Node(a1, {1}) >>,
                   << Node(a3, {0}), Node(a2, {2}), Node(a1, {1}) >> }
=============================================================================
