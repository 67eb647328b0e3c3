------------------------------ MODULE Messages ------------------------------
(***************************************************************************)
(* Hashes and node records: the part of dht/protocol/messages.hpp and of   *)
(* util/util.cpp that the routing table and the searches compute with.     *)
(*                                                                         *)
(* A hash of HASH_BYTES bytes is the set of the positions of its 1 bits.   *)
(* A node_record is [addr |-> a, nodeId |-> h], where addr stands for the  *)
(* pair (ip, port).                                                        *)
(***************************************************************************)
EXTENDS Integers, FiniteSets

CONSTANT HASH_BITS      \* HASH_BYTES * CHAR_BIT: 192 in the code

ASSUME HashBitsAssumption == HASH_BITS \in Nat \ {0}

hash == SUBSET (0 .. HASH_BITS - 1)

\* The number of bits in which the two hashes differ.
bit_distance(h1, h2) == Cardinality((h1 \ h2) \cup (h2 \ h1))

\* node_record::operator== compares ip and port and leaves nodeId out.
SameNode(m, n) == m.addr = n.addr

=============================================================================
