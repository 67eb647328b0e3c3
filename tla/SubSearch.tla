----------------------------- MODULE SubSearch ------------------------------
(***************************************************************************)
(* One sub_search of search_manager.cpp: its thread (run), the pool        *)
(* threads that register the answers of other nodes (handle_search_result  *)
(* and add_response), the console's registration and removal of the        *)
(* search, the UDP traffic of its queries, and the clock.                  *)
(*                                                                         *)
(* Time: next_deadline is only ever compared with time(NULL), which does   *)
(* not go back, so the pair is the flag "expired": time(NULL) has reached  *)
(* next_deadline.                                                          *)
(* Round ids: advance gives each round a fresh searchId; here the id of a  *)
(* round is its number, the value of hops.                                 *)
(***************************************************************************)
EXTENDS NodeLists

CONSTANTS
    Self,             \* DHT::get()->getNode()
    Peers,            \* the node_records there may be, Self's old ones included
    Key,              \* the key searched for
    Files,            \* the file_info_records stored under Key
    StartQueues,      \* the queues the constructor may have built
    Answers,          \* the node_lists an answer may carry
    FileAnswers,      \* the file_lists an answer to a KEY_SEARCH may carry
    alpha,            \* also next_nodes_queue_max_size
    max_hops,
    MaxDuplicates     \* bound: datagrams the network delivers twice

QueueEntry == [d : Nat, node : Peers]

ASSUME SubSearchAssumption ==
    /\ alpha \in Nat \ {0}
    /\ max_hops \in Nat
    /\ MaxDuplicates \in Nat
    /\ StartQueues \subseteq Seq(QueueEntry)
    /\ Answers \subseteq Seq(Peers)
    /\ \A answer \in Answers : \A i, j \in DOMAIN answer :
          i < j => bit_distance(Key, answer[i].nodeId)
                   <= bit_distance(Key, answer[j].nodeId)
    /\ FileAnswers \subseteq Seq(Files)
    /\ \A n \in Peers : bit_distance(Key, n.nodeId) \in Nat

VARIABLES
    type,                   \* of the master search
    registered,             \* the master search's entry in "searches"
    pc,                     \* where sub_search::run is
    hops,                   \* also the id of the current round
    expired,                \* time(NULL) >= next_deadline
    next_nodes_queue,
    pq,                     \* the entries of pq; their order is given by sort()
    responses,
    response_queue_empty,
    some_responses,         \* run's copy of responses
    results,                \* results[key]
    adder,                  \* the pool thread that holds searches_lock
    inflight,               \* queries sent whose answer may still come
    duplicates,             \* datagrams delivered twice so far
    heard                   \* history: the entries suggested in this round

masterVars  == <<type, registered>>
queueVars   == <<next_nodes_queue, pq, heard>>
mailVars    == <<responses, response_queue_empty>>
networkVars == <<inflight, duplicates>>
vars == <<masterVars, pc, hops, expired, queueVars, mailVars, some_responses,
          results, adder, networkVars>>

Response == [nodes : Seq(Peers), files : Seq(Files), round : Nat]
Idle     == [at |-> "idle"]
Adding   == [at : {"found", "pushed"}, srm : Response]
Query    == [round : Nat, to : Peers]

-----------------------------------------------------------------------------
(***************************************************************************)
(* start_search(h, NODE_SEARCH) registers the search before it starts the  *)
(* thread; start_search(query), a KEY_SEARCH, starts the thread first.     *)
(***************************************************************************)
Init ==
    /\ type \in {"NODE_SEARCH", "KEY_SEARCH"}
    /\ registered = IF type = "NODE_SEARCH" THEN "yes" ELSE "not_yet"
    /\ pc = "head"
    /\ hops = 0
    /\ expired = FALSE
    /\ next_nodes_queue \in StartQueues
    /\ pq = {}
    /\ responses = <<>>
    /\ response_queue_empty = TRUE
    /\ some_responses = <<>>
    /\ results \in FileAnswers
    /\ adder = Idle
    /\ inflight = {}
    /\ duplicates = 0
    /\ heard = {}

\* Faulty variant of giveUpSearch: one round too many.
giveUpSearchLate == hops > max_hops + 1

giveUpSearch == hops > max_hops

\* In search::advance, which erases the sub-search's entry and inserts it again.
Advancing == pc = "head" /\ ~giveUpSearch

\* Undefined behaviour: nothing comes of it, or the program crashes.
MayCrash(if_so, next_pc) ==
    \/ pc' = next_pc
    \/ if_so /\ pc' = "crashed"

-----------------------------------------------------------------------------
\* The thread of the sub-search.

\* Faulty variants of Advance: the round gets no number; it gets a new deadline.
AdvanceNoHop ==
    /\ pc = "head"
    /\ ~giveUpSearch
    /\ pc' = "send"
    /\ UNCHANGED <<masterVars, hops, expired, queueVars, mailVars,
                   some_responses, results, adder, networkVars>>

AdvanceNewDeadline ==
    /\ pc = "head"
    /\ ~giveUpSearch
    /\ hops' = hops + 1
    /\ expired' = FALSE
    /\ pc' = "send"
    /\ UNCHANGED <<masterVars, queueVars, mailVars, some_responses, results,
                   adder, networkVars>>

\* The head of the outer loop, with search::advance when it goes on.
Advance ==
    /\ pc = "head"
    /\ ~giveUpSearch
    /\ hops' = hops + 1
    /\ pc' = "send"
    /\ UNCHANGED <<masterVars, expired, queueVars, mailVars, some_responses,
                   results, adder, networkVars>>

Terminate ==
    /\ pc = "head"
    /\ giveUpSearch
    /\ pc' = "TERMINATED"
    /\ UNCHANGED <<masterVars, hops, expired, queueVars, mailVars,
                   some_responses, results, adder, networkVars>>

\* The round's queries, one for each queued node; udp_send drops those to Self.
Queries ==
    { [round |-> hops, to |-> next_nodes_queue[i].node] :
         i \in { j \in DOMAIN next_nodes_queue :
                    ~SameNode(next_nodes_queue[j].node, Self) } }

\* Faulty variant of SendQueries: the queue is not cleared.
SendQueriesUncleared ==
    /\ pc = "send"
    /\ pq' = pq \cup ToSet(next_nodes_queue)
    /\ inflight' = inflight \cup Queries
    /\ heard' = {}
    /\ pc' = "listen"
    /\ UNCHANGED <<masterVars, hops, expired, next_nodes_queue, mailVars,
                   some_responses, results, adder, duplicates>>

SendQueries ==
    /\ pc = "send"
    /\ pq' = pq \cup ToSet(next_nodes_queue)
    /\ inflight' = inflight \cup Queries
    /\ next_nodes_queue' = <<>>
    /\ heard' = {}
    /\ pc' = "listen"
    /\ UNCHANGED <<masterVars, hops, expired, mailVars, some_responses,
                   results, adder, duplicates>>

\* Faulty variant of Listen: goes on while there are responses.
ListenDrains ==
    /\ pc = "listen"
    /\ pc' = IF expired /\ response_queue_empty THEN "head" ELSE "wait"
    /\ UNCHANGED <<masterVars, hops, expired, queueVars, mailVars,
                   some_responses, results, adder, networkVars>>

\* The head of the inner loop: while(time(NULL) < next_deadline && ...).
Listen ==
    /\ pc = "listen"
    /\ pc' = IF expired THEN "head" ELSE "wait"
    /\ UNCHANGED <<masterVars, hops, expired, queueVars, mailVars,
                   some_responses, results, adder, networkVars>>

\* timed_wait gives up; it began no earlier than next_deadline was last set.
WaitTimesOut ==
    /\ pc = "wait"
    /\ response_queue_empty
    /\ expired
    /\ pc' = "listen"
    /\ UNCHANGED <<masterVars, hops, expired, queueVars, mailVars,
                   some_responses, results, adder, networkVars>>

\* Under _mut: some_responses = responses.
CopyResponses ==
    /\ pc = "wait"
    /\ ~response_queue_empty
    /\ some_responses' = responses
    /\ pc' = "copied"
    /\ UNCHANGED <<masterVars, hops, expired, queueVars, mailVars, results,
                   adder, networkVars>>

\* Faulty variant of ClearResponses: the flag goes, the responses stay.
ClearFlagOnly ==
    /\ pc = "copied"
    /\ expired' = FALSE
    /\ response_queue_empty' = TRUE
    /\ pc' = "process"
    /\ UNCHANGED <<masterVars, hops, queueVars, responses, some_responses,
                   results, adder, networkVars>>

\* Still under _mut: responses.clear(), the new deadline, the flag.
ClearResponses ==
    /\ pc = "copied"
    /\ responses' = <<>>
    /\ expired' = FALSE
    /\ response_queue_empty' = TRUE
    /\ pc' = "process"
    /\ UNCHANGED <<masterVars, hops, queueVars, some_responses, results,
                   adder, networkVars>>

(***************************************************************************)
(* The next suggestion of the first response.  Where an equal entry is     *)
(* queued the loop goes on from the entry it has just freed: either the    *)
(* freed entry still reads as it did, or the program crashes.              *)
(***************************************************************************)
ProcessSuggestion ==
    /\ pc = "process"
    /\ some_responses # <<>>
    /\ some_responses[1].nodes # <<>>
    /\ LET e == Entry(Key, Head(some_responses[1].nodes))
       IN  /\ next_nodes_queue' = QueueSuggestion(next_nodes_queue, e, alpha)
           /\ heard' = heard \cup {e}
           /\ MayCrash(ErasesUnderIterator(next_nodes_queue, e), "process")
    /\ some_responses' = [some_responses EXCEPT ![1].nodes = Tail(@)]
    /\ UNCHANGED <<masterVars, hops, expired, pq, mailVars, results, adder,
                   networkVars>>

\* The files of the first response, which is then done with.
ProcessFiles ==
    /\ pc = "process"
    /\ some_responses # <<>>
    /\ some_responses[1].nodes = <<>>
    /\ results' = IF type = "KEY_SEARCH"
                  THEN results \o some_responses[1].files ELSE results
    /\ some_responses' = Tail(some_responses)
    /\ UNCHANGED <<masterVars, pc, hops, expired, queueVars, mailVars, adder,
                   networkVars>>

ProcessingDone ==
    /\ pc = "process"
    /\ some_responses = <<>>
    /\ pc' = "listen"
    /\ UNCHANGED <<masterVars, hops, expired, queueVars, mailVars,
                   some_responses, results, adder, networkVars>>

-----------------------------------------------------------------------------
(***************************************************************************)
(* A pool thread in handle_search_result.  It holds searches_lock from the *)
(* look-up to the end, so that one answer at a time is being added, and    *)
(* takes none of the locks of the sub-search before add_response's flag.   *)
(* Its look-up in sub_searches, without sub_searches_lock, may coincide    *)
(* with the erase and insert of advance; a look-up that then misses the id *)
(* is like a lost answer.                                                  *)
(***************************************************************************)
Receive(q, answer, files, again) ==
    /\ pc # "crashed"
    /\ adder = Idle
    /\ q \in inflight
    /\ again => duplicates < MaxDuplicates
    /\ duplicates' = IF again THEN duplicates + 1 ELSE duplicates
    /\ inflight' = IF again THEN inflight ELSE inflight \ {q}
    /\ adder' = IF registered = "yes" /\ q.round = hops
                THEN [at  |-> "found",
                      srm |-> [nodes |-> answer, files |-> files, round |-> q.round]]
                ELSE Idle
    /\ MayCrash(registered = "yes" /\ Advancing, pc)
    /\ UNCHANGED <<masterVars, hops, expired, queueVars, mailVars,
                   some_responses, results>>

(***************************************************************************)
(* add_response: responses.push_back(srm), outside _mut, so that it may    *)
(* coincide with run's copy and clear of the list.                         *)
(***************************************************************************)
PushResponse ==
    /\ pc # "crashed"
    /\ adder.at = "found"
    /\ responses' = Append(responses, adder.srm)
    /\ adder' = [adder EXCEPT !.at = "pushed"]
    /\ MayCrash(pc = "copied", pc)
    /\ UNCHANGED <<masterVars, hops, expired, queueVars,
                   response_queue_empty, some_responses, results, networkVars>>

\* add_response: the flag under _mut, which run holds while pc = "copied".
SignalResponse ==
    /\ pc \notin {"crashed", "copied"}
    /\ adder.at = "pushed"
    /\ response_queue_empty' = FALSE
    /\ adder' = Idle
    /\ UNCHANGED <<masterVars, pc, hops, expired, queueVars, responses,
                   some_responses, results, networkVars>>

-----------------------------------------------------------------------------
\* The console: start_search(query) after its threads run, and search_kill.

RegisterSearch ==
    /\ pc # "crashed"
    /\ registered = "not_yet"
    /\ adder = Idle
    /\ registered' = "yes"
    /\ UNCHANGED <<type, pc, hops, expired, queueVars, mailVars,
                   some_responses, results, adder, networkVars>>

\* Faulty variant of remove_search: it does not wait for searches_lock.
remove_search_unlocked ==
    /\ pc # "crashed"
    /\ registered = "yes"
    /\ registered' = "removed"
    /\ UNCHANGED <<type, pc, hops, expired, queueVars, mailVars,
                   some_responses, results, adder, networkVars>>

(***************************************************************************)
(* remove_search drops the entry only: the search and its sub-searches     *)
(* hold shared_ptrs to each other, so that no destructor runs and          *)
(* kill_search stays false.                                                *)
(***************************************************************************)
remove_search ==
    /\ pc # "crashed"
    /\ registered = "yes"
    /\ adder = Idle
    /\ registered' = "removed"
    /\ UNCHANGED <<type, pc, hops, expired, queueVars, mailVars,
                   some_responses, results, adder, networkVars>>

-----------------------------------------------------------------------------
\* The environment.

\* A query, or the answer to it, is lost.
Lose(q) ==
    /\ pc # "crashed"
    /\ q \in inflight
    /\ inflight' = inflight \ {q}
    /\ UNCHANGED <<masterVars, pc, hops, expired, queueVars, mailVars,
                   some_responses, results, adder, duplicates>>

\* time(NULL) reaches next_deadline.
DeadlinePasses ==
    /\ pc # "crashed"
    /\ ~expired
    /\ expired' = TRUE
    /\ UNCHANGED <<masterVars, pc, hops, queueVars, mailVars, some_responses,
                   results, adder, networkVars>>

-----------------------------------------------------------------------------
Run == \/ Advance \/ Terminate \/ SendQueries \/ Listen \/ WaitTimesOut
       \/ CopyResponses \/ ClearResponses \/ ProcessSuggestion \/ ProcessFiles
       \/ ProcessingDone

PoolThread ==
    \/ \E q \in inflight, answer \in Answers, files \in FileAnswers,
          again \in BOOLEAN :
            \* what handle_search of the asked node leaves out of its answer
            /\ \A i \in DOMAIN answer : /\ ~SameNode(answer[i], q.to)
                                       /\ ~SameNode(answer[i], Self)
            /\ type = "NODE_SEARCH" => files = <<>>
            /\ Receive(q, answer, files, again)
    \/ PushResponse
    \/ SignalResponse

Console == RegisterSearch \/ remove_search

Environment == DeadlinePasses \/ \E q \in inflight : Lose(q)

Next == Run \/ PoolThread \/ Console \/ Environment

Spec == Init /\ [][Next]_vars

\* Threads run on, a pool thread finishes what it began, and time passes.
FairSpec ==
    /\ Spec
    /\ WF_vars(Run)
    /\ WF_vars(PushResponse)
    /\ WF_vars(SignalResponse)
    /\ WF_vars(DeadlinePasses)

-----------------------------------------------------------------------------
\* The part of TypeOK that involves no queue of nodes.
ControlTypeOK ==
    /\ type \in {"NODE_SEARCH", "KEY_SEARCH"}
    /\ registered \in {"not_yet", "yes", "removed"}
    /\ pc \in {"head", "send", "listen", "wait", "copied", "process",
               "TERMINATED", "crashed"}
    /\ hops \in 0 .. (max_hops + 1)
    /\ expired \in BOOLEAN
    /\ responses \in Seq(Response)
    /\ response_queue_empty \in BOOLEAN
    /\ some_responses \in Seq(Response)
    /\ results \in Seq(Files)
    /\ adder \in {Idle} \cup Adding
    /\ duplicates \in 0 .. MaxDuplicates

\* Every variable has its type; hops stops one past max_hops.
TypeOK ==
    /\ ControlTypeOK
    /\ next_nodes_queue \in Seq(QueueEntry)
    /\ pq \subseteq QueueEntry
    /\ heard \subseteq QueueEntry
    /\ inflight \subseteq Query

FirstQueriesSent == hops > 1 \/ (hops = 1 /\ pc \notin {"send", "crashed"})

(***************************************************************************)
(* Once the constructor's queue has been sent (and not left behind by a    *)
(* crash), next_nodes_queue is sorted by distance, holds no node twice and *)
(* no more than alpha entries, in whatever order and however often the     *)
(* nodes are suggested (search_manager.cpp:131-162).                       *)
(***************************************************************************)
QueueWellFormed ==
    FirstQueriesSent =>
        /\ Len(next_nodes_queue) <= alpha
        /\ \A i, j \in DOMAIN next_nodes_queue : i < j =>
              /\ next_nodes_queue[i].d <= next_nodes_queue[j].d
              /\ ~SameEntry(next_nodes_queue[i], next_nodes_queue[j])

(***************************************************************************)
(* The insertion loop drops suggestions (it never appends, and it spills   *)
(* the last entry) but never the best one: the head of the queue is as     *)
(* near to the key as any node suggested in this round.                    *)
(***************************************************************************)
NearestAtHead ==
    heard # {} =>
        /\ next_nodes_queue # <<>>
        /\ \A e \in heard : next_nodes_queue[1].d <= e.d

(***************************************************************************)
(* No lost wake-up between add_response, which pushes outside _mut, and    *)
(* run, which copies and clears inside: whenever no pool thread is between *)
(* its push and its flag, a queued response has the flag that wakes run.   *)
(***************************************************************************)
NoLostWakeup ==
    (adder.at # "pushed" /\ responses # <<>>) => ~response_queue_empty

(***************************************************************************)
(* What the unrenewed deadline amounts to: only the first round of a       *)
(* search ever waits for responses or handles one (against the comment of  *)
(* search_manager.cpp:70, which LaterRoundsWait states).                   *)
(***************************************************************************)
OnlyFirstRoundListens ==
    hops > 1 => pc \notin {"wait", "copied", "process"}

\* From the third round on there is nobody to ask: no query carries its id.
TwoRoundsOfQueries ==
    /\ hops > 2 => next_nodes_queue = <<>>
    /\ \A q \in inflight : q.round \in {1, 2}

(***************************************************************************)
(* The look-up of the round's id and the push are two steps, between which *)
(* the thread may advance; still, a response that is handled answers a     *)
(* query of the round that handles it.                                     *)
(***************************************************************************)
HandledInItsRound ==
    \A i \in DOMAIN some_responses : some_responses[i].round = hops

\* search_kill makes a search deaf: no pool thread is adding a response to it.
RemovedIsDeaf == registered = "removed" => adder = Idle

(***************************************************************************)
(* "send search queries and wait for responses" (search_manager.cpp:70),   *)
(* in the loop over the rounds: a later round, too, that has nodes to ask  *)
(* comes to wait for their responses.                                      *)
(***************************************************************************)
LaterRoundsWait ==
    \A round \in 2 .. max_hops + 1 :
        (hops = round /\ pc = "send" /\ Queries # {})
            ~> (hops = round /\ pc = "wait") \/ pc = "crashed"

(***************************************************************************)
(* Every sub-search ends (or crashes), although each handled response      *)
(* extends its deadline and the network may duplicate some datagrams.      *)
(***************************************************************************)
Termination == <>(pc \in {"TERMINATED", "crashed"})

(***************************************************************************)
(* "find the search process, and register response"                        *)
(* (search_manager.cpp:350): what run clears from responses is what it     *)
(* copied, so that no registered response goes unhandled there.            *)
(***************************************************************************)
NoResponseDiscarded ==
    [][pc = "copied" /\ pc' = "process" => responses = some_responses]_vars

(***************************************************************************)
(* A node that knows other nodes asks at least one of them in its first    *)
(* round (stated for StartQueues built from tables that are not empty).    *)
(***************************************************************************)
AsksSomeone == hops = 0 => next_nodes_queue # <<>>

=============================================================================
