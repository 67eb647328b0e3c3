---------------------------- MODULE MCFileTable -----------------------------
EXTENDS FileTable

CONSTANTS k1, k2, f1, f2, f3, t1, t2, t3

Record(k, f) == [key |-> k, file |-> f]

\* Three records of one key and one of another.
MCRecords == { Record(k1, f1), Record(k1, f2), Record(k1, f3), Record(k2, f1) }
=============================================================================
