---------------------------- MODULE MCSubSearch -----------------------------
(***************************************************************************)
(* Small sub-searches for TLC.  The key is the hash without 1 bits, so     *)
(* that a nodeId's distance to it is its number of elements.               *)
(***************************************************************************)
EXTENDS SubSearch

CONSTANTS self, a1, a2, a3, a4, a5, f1

MCSelf  == [addr |-> self, nodeId |-> {0, 1, 2}]
MCKey   == {}
near    == [addr |-> a1, nodeId |-> {0}]
even    == [addr |-> a2, nodeId |-> {1}]        \* as near as "near"
mid     == [addr |-> a3, nodeId |-> {0, 1}]
far     == [addr |-> a4, nodeId |-> {0, 2, 3}]
exact   == [addr |-> a2, nodeId |-> {}]
asked   == [addr |-> a5, nodeId |-> {1, 2}]     \* as near as "mid"
MCFiles == {f1}
MCFileAnswers == {<<>>, <<f1>>}

StartQueuesFrom(tables) ==
    UNION { StartQueuesOf(table, MCSelf, MCKey, alpha) : table \in tables }

\* Routing tables, in scan order, and answers.
\* "discards": two nodes are asked.
PairPeers       == {near, mid, even, MCSelf}
PairStartQueues == StartQueuesFrom({ <<MCSelf, mid>>, <<mid, near>> })
PairAnswers     == { <<>>, <<near>>, <<mid>>, <<even, mid>> }

\* "rounds": one query, whose two answers suggest up to four other nodes to a
\* queue of three; a table with this node itself, where mark_seen may have put
\* it; and a table of which the constructor keeps nobody.
RoundsPeers       == {MCSelf, exact, near, even, mid, far, asked}
RoundsStartQueues == StartQueuesFrom({ <<asked>>, <<MCSelf>>, <<asked, mid>> })
RoundsAnswers     == { <<>>, <<far>>, <<even, mid>>, <<exact, near, mid>>, <<near, far>> }

\* "starved": the tables from which the constructor may keep nobody.
FullPeers       == {near, even, mid, far}
FullStartQueues ==
    StartQueuesFrom({ <<mid>>, <<mid, near>>, <<far, mid, near>>,
                      <<far, mid, near, even>> })
=============================================================================
