-------------------------- MODULE FileTableProofs ---------------------------
(***************************************************************************)
(* Theorems about the table of file_info_records, for every set of keys,   *)
(* records and threads.                                                    *)
(***************************************************************************)
EXTENDS FileTable, SequenceTheorems, TLAPS

\* An insertion that found its key may rely on it: entries do not go away.
FoundInv ==
    \A t \in Threads : (inserting[t] # NoRecord /\ found[t]) =>
        hashTable[inserting[t].key] # <<>>

TableInv == TypeOK /\ ListsWellFormed /\ KeyIsFound /\ FoundInv

\* What the steps that change the table do to it.
TableStep(t) ==
    \/ UNCHANGED hashTable
    \/ /\ inserting[t] \in Records
       /\ ~Contains(hashTable[inserting[t].key], inserting[t])
       /\ hashTable' = [hashTable EXCEPT ![inserting[t].key] =
                           Append(@, inserting[t])]

LEMMA InsertionsAppend ==
  ASSUME TypeOK, FoundInv, NEW t \in Threads, InsertKey(t) \/ AppendRecord(t)
  PROVE  /\ TableStep(t)
         /\ inserting[t] \in Records
         /\ hashTable'[inserting[t].key] # <<>>
<1> DEFINE record == inserting[t]
           list   == hashTable[record.key]
<1>1. record \in Records /\ record.key \in Keys /\ list \in Seq(Records)
  BY FileTableAssumption DEF TypeOK, InsertKey, AppendRecord, Return
<1>2. Append(list, record) # <<>>
  BY <1>1, AppendProperties
<1>3. CASE UNCHANGED hashTable /\ list # <<>>
  BY <1>1, <1>3 DEF TableStep
<1>4. CASE /\ hashTable' = [hashTable EXCEPT ![record.key] = Append(list, record)]
           /\ ~Contains(list, record)
  BY <1>1, <1>2, <1>4 DEF TableStep, TypeOK
<1>5. CASE InsertKey(t)
  <2>1. list = <<>> => /\ ~Contains(list, record)
                       /\ Append(list, record) = <<record>>
    BY <1>1, EmptySeq DEF Contains
  <2> QED
    BY <1>3, <1>4, <1>5, <2>1 DEF InsertKey
<1>6. CASE AppendRecord(t)
  <2>1. Contains(list, record) => hashTable' = hashTable /\ list # <<>>
    BY <1>1, <1>6, EmptySeq DEF AppendRecord, Contains, TypeOK
  <2> QED
    BY <1>3, <1>4, <1>6, <2>1 DEF AppendRecord
<1> QED
  BY <1>5, <1>6

LEMMA InitTable == Init => TableInv
<1> SUFFICES ASSUME Init
             PROVE  TableInv
  OBVIOUS
<1>1. TypeOK
  BY EmptySeq DEF Init, TypeOK
<1>2. ListsWellFormed /\ KeyIsFound /\ FoundInv
  BY DEF Init, ListsWellFormed, KeyIsFound, FoundInv
<1> QED
  BY <1>1, <1>2 DEF TableInv

LEMMA NextTable == TableInv /\ [Next]_vars => TableInv'
<1> SUFFICES ASSUME TableInv, [Next]_vars
             PROVE  TableInv'
  OBVIOUS
<1> USE DEF TableInv
<1>1. ASSUME NEW t \in Threads, NEW record \in Records, FindKey(t, record)
      PROVE  TableInv'
  <2>1. TypeOK'
    BY <1>1 DEF FindKey, TypeOK
  <2>2. ListsWellFormed' /\ KeyIsFound'
    BY <1>1 DEF FindKey, ListsWellFormed, KeyIsFound, query
  <2>3. FoundInv'
    BY <1>1 DEF FindKey, FoundInv, TypeOK
  <2> QED
    BY <2>1, <2>2, <2>3
<1>2. ASSUME NEW t \in Threads, InsertKey(t) \/ AppendRecord(t)
      PROVE  TableInv'
  <2> DEFINE record == inserting[t]
  <2>1. /\ TableStep(t)
        /\ record \in Records
        /\ hashTable'[record.key] # <<>>
    BY <1>2, InsertionsAppend
  <2>2. /\ Return(t)
        /\ rehashed' \in [Threads -> BOOLEAN]
    BY <1>2 DEF InsertKey, AppendRecord, TypeOK
  <2>3. /\ record.key \in Keys
        /\ hashTable[record.key] \in Seq(Records)
    BY <2>1, FileTableAssumption DEF TypeOK
  <2>4. /\ Append(hashTable[record.key], record) \in Seq(Records)
        /\ Append(hashTable[record.key], record) # <<>>
    BY <2>1, <2>3, AppendProperties
  <2>5. TypeOK'
    BY <2>1, <2>2, <2>3, <2>4 DEF Return, TypeOK, TableStep
  <2>6. ListsWellFormed'
    <3>1. CASE UNCHANGED hashTable
      BY <3>1 DEF ListsWellFormed
    <3>2. CASE /\ ~Contains(hashTable[record.key], record)
               /\ hashTable' = [hashTable EXCEPT ![record.key] = Append(@, record)]
      <4> SUFFICES ASSUME NEW k \in Keys, NEW i \in DOMAIN hashTable'[k],
                          NEW j \in DOMAIN hashTable'[k]
                   PROVE  /\ hashTable'[k][i].key = k
                          /\ hashTable'[k][i] = hashTable'[k][j] => i = j
        BY DEF ListsWellFormed
      <4>1. CASE k # record.key
        BY <3>2, <4>1 DEF ListsWellFormed, TypeOK
      <4>2. CASE k = record.key
        <5> DEFINE list == hashTable[k]
        <5>1. hashTable'[k] = Append(list, record) /\ list \in Seq(Records)
          BY <2>3, <3>2, <4>2 DEF TypeOK
        <5>2. /\ DOMAIN Append(list, record) = 1 .. (Len(list) + 1)
              /\ \A m \in 1 .. Len(list) : Append(list, record)[m] = list[m]
              /\ Append(list, record)[Len(list) + 1] = record
              /\ Len(list) \in Nat /\ DOMAIN list = 1 .. Len(list)
          BY <2>1, <5>1, AppendProperties, LenProperties
        <5>3. \A m \in 1 .. Len(list) : list[m] # record /\ list[m].key = k
          BY <3>2, <4>2, <5>2 DEF Contains, ListsWellFormed
        <5>4. \A m, n \in 1 .. Len(list) : list[m] = list[n] => m = n
          BY <5>2 DEF ListsWellFormed
        <5> HIDE DEF list
        <5> QED
          BY <4>2, <5>1, <5>2, <5>3, <5>4
      <4> QED
        BY <4>1, <4>2
    <3> QED
      BY <2>1, <3>1, <3>2 DEF TableStep
  <2>7. \A k \in Keys : hashTable[k] # <<>> => hashTable'[k] # <<>>
    BY <2>1, <2>3, <2>4 DEF TableStep, TypeOK
  <2>8. KeyIsFound'
    BY <2>1, <2>2, <2>7, FileTableAssumption
    DEF KeyIsFound, query, Return, TypeOK
  <2>9. FoundInv'
    BY <2>2, <2>7, FileTableAssumption DEF FoundInv, Return, TypeOK
  <2> QED
    BY <2>5, <2>6, <2>8, <2>9
<1>3. ASSUME NEW t \in Threads, UseStaleIterator(t)
      PROVE  TableInv'
  BY <1>3
  DEF UseStaleIterator, TypeOK, ListsWellFormed, KeyIsFound, FoundInv, query
<1>4. CASE UNCHANGED vars
  BY <1>4 DEF vars, TypeOK, ListsWellFormed, KeyIsFound, FoundInv, query
<1> HIDE DEF TableInv
<1> QED
  BY <1>1, <1>2, <1>3, <1>4 DEF Next

THEOREM TableInvariant == Spec => []TableInv
  BY InitTable, NextTable, PTL DEF Spec

\* The table keeps its types.
THEOREM TypeCorrect == Spec => []TypeOK
  BY TableInvariant, PTL DEF TableInv

(***************************************************************************)
(* No interleaving of the two critical sections of insertFileInfoRecord    *)
(* stores a record twice (DHT.cpp:60-89).                                  *)
(***************************************************************************)
THEOREM NoRecordTwice == Spec => []ListsWellFormed
  BY TableInvariant, PTL DEF TableInv

(***************************************************************************)
(* A key is found from the return of its first insertion on.               *)
(***************************************************************************)
THEOREM InsertedKeyIsFound == Spec => []KeyIsFound
  BY TableInvariant, PTL DEF TableInv

-----------------------------------------------------------------------------
LEMMA AppendIsPrefix ==
  ASSUME NEW S, NEW list \in Seq(S), NEW e \in S
  PROVE  IsPrefix(list, Append(list, e))
<1>1. Len(list) \in Nat /\ Len(Append(list, e)) = Len(list) + 1
  BY AppendProperties, LenProperties
<1>2. SubSeq(Append(list, e), 1, Len(list)) = SubSeq(list, 1, Len(list))
  <2>1. \A i \in 1 .. Len(list) : Append(list, e)[i] = list[i] /\ list[i] \in S
    BY AppendProperties, ElementOfSeq
  <2> QED
    BY <1>1, <2>1
<1> QED
  BY <1>1, <1>2 DEF IsPrefix

(***************************************************************************)
(* What a query has once returned stays, and in its order.                 *)
(***************************************************************************)
THEOREM QueriesOnlyGrow == Spec => OnlyAppends
<1>1. TableInv /\ [Next]_vars =>
        \/ \A k \in Keys : IsPrefix(hashTable[k], hashTable'[k])
        \/ UNCHANGED vars
  <2> SUFFICES ASSUME TableInv, [Next]_vars, NEW k \in Keys
               PROVE  IsPrefix(hashTable[k], hashTable'[k])
    OBVIOUS
  <2>1. hashTable[k] \in Seq(Records)
    BY DEF TableInv, TypeOK
  <2>2. CASE hashTable'[k] = hashTable[k]
    BY <2>1, <2>2, LenProperties DEF IsPrefix
  <2>3. ASSUME NEW t \in Threads, TableStep(t)
        PROVE  IsPrefix(hashTable[k], hashTable'[k])
    <3>1. CASE /\ inserting[t] \in Records
               /\ hashTable'[k] = Append(hashTable[k], inserting[t])
      BY <2>1, <3>1, AppendIsPrefix
    <3> QED
      BY <2>2, <2>3, <3>1 DEF TableStep, TableInv, TypeOK
  <2> QED
    BY <2>2, <2>3, InsertionsAppend
    DEF Next, FindKey, UseStaleIterator, vars, TableInv
<1> QED
  BY <1>1, TableInvariant, PTL DEF Spec, OnlyAppends

-----------------------------------------------------------------------------
\* The refinement of RecordStore.

LEMMA StoredOfKey ==
  ASSUME TableInv, NEW k \in Keys
  PROVE  Store!Known(k) <=> hashTable[k] # <<>>
<1>1. ASSUME NEW r \in stored, r.key = k
      PROVE  hashTable[k] # <<>>
  <2>1. PICK kk \in Keys : r \in ToSet(hashTable[kk])
    BY <1>1 DEF stored, query
  <2>2. PICK i \in DOMAIN hashTable[kk] : r = hashTable[kk][i]
    BY <2>1 DEF ToSet
  <2> QED
    BY <1>1, <2>2 DEF TableInv, ListsWellFormed
<1>2. ASSUME hashTable[k] # <<>>
      PROVE  \E r \in stored : r.key = k
  <2>1. hashTable[k] \in Seq(Records)
    BY DEF TableInv, TypeOK
  <2>2. 1 \in DOMAIN hashTable[k]
    BY <1>2, <2>1, EmptySeq, LenProperties
  <2>3. hashTable[k][1] \in stored /\ hashTable[k][1].key = k
    BY <2>2 DEF stored, query, ToSet, TableInv, ListsWellFormed
  <2> QED
    BY <2>3
<1> QED
  BY <1>1, <1>2 DEF Store!Known

LEMMA StoredAfterStep ==
  ASSUME TableInv, NEW t \in Threads, inserting[t] \in Records,
         hashTable' = [hashTable EXCEPT ![inserting[t].key] =
                          Append(@, inserting[t])]
  PROVE  stored' = stored \cup {inserting[t]}
<1> DEFINE record == inserting[t]
<1>1. record.key \in Keys /\ \A k \in Keys : hashTable[k] \in Seq(Records)
  BY FileTableAssumption DEF TableInv, TypeOK
<1>2. \A k \in Keys : k # record.key => hashTable'[k] = hashTable[k]
  BY DEF TableInv, TypeOK
<1>3. ToSet(hashTable'[record.key]) = ToSet(hashTable[record.key]) \cup {record}
  <2> DEFINE list == hashTable[record.key]
  <2>1. hashTable'[record.key] = Append(list, record)
    BY <1>1 DEF TableInv, TypeOK
  <2>2. /\ DOMAIN Append(list, record) = DOMAIN list \cup {Len(list) + 1}
        /\ \A i \in DOMAIN list : Append(list, record)[i] = list[i]
        /\ Append(list, record)[Len(list) + 1] = record
    BY <1>1, AppendProperties, LenProperties
  <2> HIDE DEF list
  <2> QED
    BY <2>1, <2>2 DEF ToSet
<1> QED
  BY <1>1, <1>2, <1>3 DEF stored, query

(***************************************************************************)
(* DHT's table of records implements the RecordStore: an insertion comes   *)
(* to nothing only if it found no entry for its key and, when it inserts   *)
(* one, another insertion has been there first.                            *)
(***************************************************************************)
THEOREM ImplementsRecordStore == Spec => IsRecordStore
<1>1. Init => Store!Init
  <2> SUFFICES ASSUME Init
               PROVE  Store!Init
    OBVIOUS
  <2>1. \A k \in Keys : ToSet(hashTable[k]) = {}
    BY DEF Init, ToSet
  <2>2. stored = {}
    BY <2>1 DEF stored, query
  <2> QED
    BY <2>2 DEF Init, Store!Init
<1>2. TableInv /\ [Next]_vars => [Store!Next]_Store!vars
  <2> SUFFICES ASSUME TableInv, [Next]_vars
               PROVE  [Store!Next]_Store!vars
    OBVIOUS
  <2>1. ASSUME NEW t \in Threads, NEW record \in Records, FindKey(t, record)
        PROVE  Store!Begin(t, record)
    <3>1. (hashTable[record.key] # <<>>) = Store!Known(record.key)
      BY StoredOfKey, FileTableAssumption DEF Store!Known
    <3>2. UNCHANGED stored
      BY <2>1 DEF FindKey, stored, query
    <3> QED
      BY <2>1, <3>1, <3>2 DEF FindKey, Store!Begin
  <2>2. ASSUME NEW t \in Threads, InsertKey(t) \/ AppendRecord(t)
        PROVE  Store!Store(t) \/ Store!Lose(t)
    <3> DEFINE record == inserting[t]
    <3>1. TableStep(t) /\ record \in Records /\ record.key \in Keys
      BY <2>2, InsertionsAppend, FileTableAssumption DEF TableInv
    <3>2. Store!End(t)
      BY <2>2 DEF InsertKey, AppendRecord, Return, Store!End
    <3>3. CASE /\ ~Contains(hashTable[record.key], record)
               /\ hashTable' = [hashTable EXCEPT ![record.key] = Append(@, record)]
      BY <3>1, <3>2, <3>3, StoredAfterStep DEF Store!Store
    <3>4. CASE UNCHANGED hashTable /\ record \in stored
      BY <3>2, <3>4 DEF Store!Store, stored, query
    <3>5. CASE UNCHANGED hashTable /\ record \notin stored
      <4>1. ~Contains(hashTable[record.key], record)
        BY <3>1, <3>5, LenProperties
        DEF Contains, stored, query, ToSet, TableInv, TypeOK
      <4>2. hashTable[record.key] \in Seq(Records)
        BY <3>1 DEF TableInv, TypeOK
      <4>3. ~AppendRecord(t)
        BY <3>1, <3>5, <4>1, <4>2, AppendProperties
        DEF AppendRecord, TableInv, TypeOK
      <4>4. InsertKey(t)
        BY <2>2, <4>3
      <4>5. hashTable[record.key] # <<>>
        <5> SUFFICES ASSUME hashTable[record.key] = <<>>
                     PROVE  FALSE
          OBVIOUS
        <5>1. hashTable'[record.key] = <<record>>
          BY <3>1, <4>4 DEF InsertKey, TableInv, TypeOK
        <5> QED
          BY <3>5, <5>1
      <4> QED
        BY <3>1, <3>2, <3>5, <4>4, <4>5, StoredOfKey
        DEF InsertKey, Store!Lose, stored, query
    <3> QED
      BY <3>1, <3>3, <3>4, <3>5 DEF TableStep
  <2>3. ASSUME NEW t \in Threads, UseStaleIterator(t)
        PROVE  UNCHANGED Store!vars
    BY <2>3 DEF UseStaleIterator, Store!vars, stored, query
  <2>4. CASE UNCHANGED vars
    BY <2>4 DEF vars, Store!vars, stored, query
  <2> QED
    BY <2>1, <2>2, <2>3, <2>4 DEF Next, Store!Next
<1> QED
  BY <1>1, <1>2, TableInvariant, PTL DEF Spec, IsRecordStore, Store!Spec

=============================================================================
