------------------------------ MODULE Distance ------------------------------
(***************************************************************************)
(* bit_distance as util/util.cpp computes it: word by word, from a table   *)
(* of the bits in a half word.  The code has 6 words of 2 * 16 bits.       *)
(***************************************************************************)
EXTENDS Messages, Functions

CONSTANTS
    HALF_BITS,        \* 16 in the code
    WORDS             \* HASH_BYTES / 4

ASSUME DistanceAssumption ==
    /\ HALF_BITS \in Nat \ {0}
    /\ WORDS \in Nat \ {0}
    /\ HASH_BITS = WORDS * 2 * HALF_BITS

HALF_WORD == 2 ^ HALF_BITS
Word      == 0 .. HALF_WORD * HALF_WORD - 1
Bytes     == [0 .. WORDS - 1 -> Word]

\* init_util fills the table from left to right.
BitCounts[i \in 0 .. HALF_WORD - 1] ==
    IF i = 0 THEN 0 ELSE (i % 2) + BitCounts[i \div 2]

\* The table before init_util: a static array of zeros.
NoBitCounts == [i \in 0 .. HALF_WORD - 1 |-> 0]

Bit(v, p) == (v \div 2 ^ p) % 2

\* a ^ b
Xor(a, b) == FoldFunction(+, 0, [p \in 0 .. 2 * HALF_BITS - 1 |->
                 IF Bit(a, p) = Bit(b, p) THEN 0 ELSE 2 ^ p])

\* Faulty variant of WordDistance: the upper half is not shifted down.
WordDistanceUnshifted(bits, v) == bits[v % HALF_WORD] + bits[v % HALF_WORD]

WordDistance(bits, v) == bits[v % HALF_WORD] + bits[v \div HALF_WORD]

bit_distance_by_words(bits, h1, h2) ==
    FoldFunction(+, 0, [i \in 0 .. WORDS - 1 |-> WordDistance(bits, Xor(h1[i], h2[i]))])

\* A hash of Messages: the positions of the 1 bits.
Ones(h) == { p \in 0 .. HASH_BITS - 1 :
                Bit(h[p \div (2 * HALF_BITS)], p % (2 * HALF_BITS)) = 1 }

=============================================================================
