----------------------------- MODULE FileTable ------------------------------
(***************************************************************************)
(* The table of file_info_records of DHT.cpp, and the pool threads and the *)
(* console that insert into it.  file_hash_mtx is taken once to look the   *)
(* key up and once more to insert.                                         *)
(***************************************************************************)
EXTENDS Naturals, SequencesExt

CONSTANTS
    Keys,
    Records,    \* file_info_records, equal only to themselves
    Threads,
    NoRecord

ASSUME FileTableAssumption ==
    /\ \A r \in Records : r.key \in Keys
    /\ NoRecord \notin Records

VARIABLES
    hashTable,  \* the list of each key; <<>> where the key has no entry
    inserting,  \* the record each thread is inserting, or NoRecord
    found,      \* whether its find met an entry
    rehashed,   \* whether the table may have been rehashed since
    crashed,
    returned    \* history: the records whose insertion has returned

vars == <<hashTable, inserting, found, rehashed, crashed, returned>>

Init ==
    /\ hashTable = [k \in Keys |-> <<>>]
    /\ inserting = [t \in Threads |-> NoRecord]
    /\ found = [t \in Threads |-> FALSE]
    /\ rehashed = [t \in Threads |-> FALSE]
    /\ crashed = FALSE
    /\ returned = {}

\* query, under the shared lock: the list of the key.
query(key) == hashTable[key]

\* insertFileInfoRecord: the find, under the shared lock.
FindKey(t, record) ==
    /\ ~crashed
    /\ inserting[t] = NoRecord
    /\ inserting' = [inserting EXCEPT ![t] = record]
    /\ found' = [found EXCEPT ![t] = hashTable[record.key] # <<>>]
    /\ rehashed' = [rehashed EXCEPT ![t] = FALSE]
    /\ UNCHANGED <<hashTable, crashed, returned>>

\* The insertion that FindKey began ends.
Return(t) ==
    /\ ~crashed
    /\ inserting[t] # NoRecord
    /\ inserting' = [inserting EXCEPT ![t] = NoRecord]
    /\ returned' = returned \cup {inserting[t]}
    /\ UNCHANGED <<found, crashed>>

\* Faulty variants of InsertKey: the list is left empty; it replaces another.
InsertKeyEmptyList(t) ==
    /\ Return(t)
    /\ ~found[t]
    /\ UNCHANGED <<hashTable, rehashed>>

InsertKeyReplaces(t) ==
    LET record == inserting[t]
    IN  /\ Return(t)
        /\ ~found[t]
        /\ hashTable' = [hashTable EXCEPT ![record.key] = <<record>>]
        /\ UNCHANGED rehashed

(***************************************************************************)
(* The key was not there: a list of one record is inserted for it, under   *)
(* the unique lock.  unordered_map::insert leaves an entry that the key    *)
(* has got meanwhile as it is; a new entry may rehash the table.           *)
(***************************************************************************)
InsertKey(t) ==
    LET record == inserting[t]
        new    == hashTable[record.key] = <<>>
    IN  /\ Return(t)
        /\ ~found[t]
        /\ hashTable' = IF new
                        THEN [hashTable EXCEPT ![record.key] = <<record>>]
                        ELSE hashTable
        /\ rehashed' = [u \in Threads |-> rehashed[u] \/ new]

\* Faulty variants of AppendRecord: the record is no more there when it is
\* appended; its equal is not looked for.
AppendRecordGone(t) ==
    /\ Return(t)
    /\ found[t]
    /\ hashTable' = [hashTable EXCEPT ![inserting[t].key] =
                        Append(@, inserting'[t])]
    /\ UNCHANGED rehashed

AppendRecordAgain(t) ==
    LET record == inserting[t]
    IN  /\ Return(t)
        /\ found[t]
        /\ hashTable' = [hashTable EXCEPT ![record.key] = Append(@, record)]
        /\ UNCHANGED rehashed

\* The key was there: the record is appended unless the list holds its equal.
AppendRecord(t) ==
    LET record == inserting[t]
    IN  /\ Return(t)
        /\ found[t]
        /\ hashTable' = [hashTable EXCEPT ![record.key] =
                            IF Contains(@, record) THEN @ ELSE Append(@, record)]
        /\ UNCHANGED rehashed

(***************************************************************************)
(* The iterator that find has left is used outside the lock and after it.  *)
(* If the table has been rehashed since, that may crash.                   *)
(***************************************************************************)
UseStaleIterator(t) ==
    /\ ~crashed
    /\ inserting[t] # NoRecord
    /\ rehashed[t]
    /\ crashed' = TRUE
    /\ UNCHANGED <<hashTable, inserting, found, rehashed, returned>>

Next ==
    \E t \in Threads :
        \/ \E record \in Records : FindKey(t, record)
        \/ InsertKey(t)
        \/ AppendRecord(t)
        \/ UseStaleIterator(t)

Spec == Init /\ [][Next]_vars

-----------------------------------------------------------------------------
stored == UNION { ToSet(query(k)) : k \in Keys }

\* Every variable has its type.
TypeOK ==
    /\ hashTable \in [Keys -> Seq(Records)]
    /\ inserting \in [Threads -> Records \cup {NoRecord}]
    /\ found \in [Threads -> BOOLEAN]
    /\ rehashed \in [Threads -> BOOLEAN]
    /\ crashed \in BOOLEAN
    /\ returned \subseteq Records

(***************************************************************************)
(* Each key's list holds records of that key, and none twice, although the *)
(* same record may be published to several threads at once (DHT.cpp:70,    *)
(* 84).                                                                    *)
(***************************************************************************)
ListsWellFormed ==
    \A k \in Keys : \A i, j \in DOMAIN hashTable[k] :
        /\ hashTable[k][i].key = k
        /\ hashTable[k][i] = hashTable[k][j] => i = j

(***************************************************************************)
(* Once an insertion for a key has returned, a query for the key finds     *)
(* something, whichever of the concurrent insertions got there first.      *)
(***************************************************************************)
KeyIsFound == \A r \in returned : query(r.key) # <<>>

\* A query never returns less than an earlier one did, nor in another order.
OnlyAppends ==
    [][\A k \in Keys : IsPrefix(hashTable[k], hashTable'[k])]_vars

(***************************************************************************)
(* The table is a RecordStore: in particular, the only insertions that     *)
(* come to nothing are those that looked for a key before its first record *)
(* was in (DHT.cpp:65-77).                                                 *)
(***************************************************************************)
Store == INSTANCE RecordStore WITH key_was_known <- found
IsRecordStore == Store!Spec

(***************************************************************************)
(* "add it to local hash table" (control_protocol.cpp:120): the record of  *)
(* a publish message that has been handled is in the table.                *)
(***************************************************************************)
PublishedIsStored == returned \subseteq stored

=============================================================================
