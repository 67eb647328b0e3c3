---------------------------- MODULE RecordStore -----------------------------
(***************************************************************************)
(* What DHT::insertFileInfoRecord and DHT::query of DHT.cpp promise: a     *)
(* store of records that only grows, by one record at a time, in which     *)
(* every insertion ends up, with one exception.  An insertion that began   *)
(* when its key was unknown may come to nothing if another record made the *)
(* key known meanwhile.                                                    *)
(***************************************************************************)
CONSTANTS Records, Threads, NoRecord

VARIABLES
    stored,         \* the records that a query for their key returns
    inserting,      \* the record each thread is inserting, or NoRecord
    key_was_known   \* whether its key was known when it began

vars == <<stored, inserting, key_was_known>>

Known(key) == \E r \in stored : r.key = key

Init ==
    /\ stored = {}
    /\ inserting = [t \in Threads |-> NoRecord]
    /\ key_was_known = [t \in Threads |-> FALSE]

Begin(t, r) ==
    /\ inserting[t] = NoRecord
    /\ inserting' = [inserting EXCEPT ![t] = r]
    /\ key_was_known' = [key_was_known EXCEPT ![t] = Known(r.key)]
    /\ UNCHANGED stored

End(t) ==
    /\ inserting[t] # NoRecord
    /\ inserting' = [inserting EXCEPT ![t] = NoRecord]
    /\ UNCHANGED key_was_known

Store(t) ==
    /\ End(t)
    /\ stored' = stored \cup {inserting[t]}

Lose(t) ==
    /\ End(t)
    /\ ~key_was_known[t]
    /\ Known(inserting[t].key)
    /\ UNCHANGED stored

Next == \E t \in Threads : (\E r \in Records : Begin(t, r)) \/ Store(t) \/ Lose(t)

Spec == Init /\ [][Next]_vars
=============================================================================
