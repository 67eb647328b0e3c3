-------------------------- MODULE SubSearchProofs ---------------------------
(***************************************************************************)
(* Theorems about every sub-search, whatever the nodes, the answers, alpha *)
(* and max_hops are, and about the console's share over one.               *)
(*                                                                         *)
(* RoundsInv is the inductive invariant behind them.  Only a batch of      *)
(* responses renews the deadline, and a round is only left when it has     *)
(* passed: from the second round on it has passed for good, nothing is     *)
(* waited for or handled, and the queue that is sent then is the last one. *)
(***************************************************************************)
EXTENDS Share, NodeListProofs, SequenceTheorems, FiniteSetTheorems, TLAPS

\* Where the thread may be, and whether the deadline has passed, in each round.
DeadlineInv ==
    /\ pc = "head" => hops = 0 \/ expired
    /\ pc \in {"wait", "copied", "process"} => hops = 1
    /\ hops = 0 => pc \in {"head", "TERMINATED", "crashed"}
    /\ hops > 1 => expired

\* Only the constructor and the first round leave nodes in the queue.
QueriesInv ==
    /\ hops = 2 /\ pc \notin {"send", "crashed"} => next_nodes_queue = <<>>
    /\ hops > 2 => next_nodes_queue = <<>>
    /\ \A q \in inflight : q.round \in {1, 2} /\ q.round <= hops

\* No response precedes the first round, and those it may handle are its own.
ResponsesInv ==
    /\ hops = 0 => responses = <<>> /\ adder = Idle
    /\ hops = 1 => \A i \in DOMAIN responses : responses[i].round = 1
    /\ (hops = 1 /\ adder # Idle) => adder.srm.round = 1
    /\ \A i \in DOMAIN some_responses : some_responses[i].round = hops
    /\ some_responses # <<>> => pc \in {"copied", "process", "crashed"}

RoundsInv == ControlTypeOK /\ DeadlineInv /\ QueriesInv /\ ResponsesInv

LEMMA ConstantTypes ==
    /\ max_hops \in Nat
    /\ MaxDuplicates \in Nat
    /\ Answers \subseteq Seq(Peers)
    /\ FileAnswers \subseteq Seq(Files)
  BY SubSearchAssumption

LEMMA InitRounds == Init => RoundsInv
<1> SUFFICES ASSUME Init
             PROVE  RoundsInv
  OBVIOUS
<1>1. ControlTypeOK
  <2>1. results \in Seq(Files)
    BY ConstantTypes DEF Init
  <2>2. responses \in Seq(Response) /\ some_responses \in Seq(Response)
    BY EmptySeq DEF Init
  <2>3. hops \in 0 .. (max_hops + 1) /\ duplicates \in 0 .. MaxDuplicates
    BY ConstantTypes DEF Init
  <2> QED
    BY <2>1, <2>2, <2>3 DEF Init, ControlTypeOK
<1>2. DeadlineInv /\ QueriesInv /\ ResponsesInv
  BY DEF Init, DeadlineInv, QueriesInv, ResponsesInv
<1> QED
  BY <1>1, <1>2 DEF RoundsInv

LEMMA NextRounds == RoundsInv /\ [Next]_vars => RoundsInv'
<1> SUFFICES ASSUME RoundsInv, [Next]_vars
             PROVE  RoundsInv'
  OBVIOUS
<1> USE ConstantTypes
    DEF RoundsInv, ControlTypeOK, DeadlineInv, QueriesInv, ResponsesInv,
        masterVars, queueVars, mailVars, networkVars
<1>1. CASE Advance
  <2>1. some_responses = <<>>
    BY <1>1 DEF Advance
  <2>2. hops + 1 \in 0 .. (max_hops + 1)
    BY <1>1 DEF Advance, giveUpSearch
  <2>3. ControlTypeOK' /\ DeadlineInv' /\ QueriesInv'
    BY <1>1, <2>1, <2>2 DEF Advance
  <2>4. ResponsesInv'
    BY <1>1, <2>1, <2>2 DEF Advance
  <2> QED
    BY <2>3, <2>4
<1>2. CASE Terminate
  BY <1>2 DEF Terminate
<1>3. CASE SendQueries
  BY <1>3 DEF SendQueries, Queries
<1>4. CASE Listen
  BY <1>4 DEF Listen
<1>5. CASE WaitTimesOut
  BY <1>5 DEF WaitTimesOut
<1>6. CASE CopyResponses
  BY <1>6 DEF CopyResponses
<1>7. CASE ClearResponses
  <2>1. <<>> \in Seq(Response) /\ DOMAIN <<>> = {}
    BY EmptySeq
  <2>2. hops = 1
    BY <1>7 DEF ClearResponses
  <2>3. ControlTypeOK'
    BY <1>7, <2>1 DEF ClearResponses
  <2>4. DeadlineInv' /\ QueriesInv'
    BY <1>7, <2>2 DEF ClearResponses
  <2>5. ResponsesInv'
    BY <1>7, <2>1, <2>2 DEF ClearResponses
  <2> QED
    BY <2>3, <2>4, <2>5
<1>8. CASE ProcessSuggestion
  <2> DEFINE rest == [some_responses EXCEPT ![1].nodes = Tail(@)]
  <2>1. some_responses \in Seq(Response) /\ 1 \in 1 .. Len(some_responses)
    BY <1>8, EmptySeq DEF ProcessSuggestion
  <2>2. some_responses[1] \in Response
    BY <2>1, ElementOfSeq
  <2>3. Tail(some_responses[1].nodes) \in Seq(Peers)
    BY <1>8, <2>2, HeadTailProperties DEF ProcessSuggestion, Response
  <2>4. [some_responses[1] EXCEPT !.nodes = Tail(@)] \in Response
    BY <2>2, <2>3 DEF Response
  <2>5. rest \in Seq(Response) /\ DOMAIN rest = DOMAIN some_responses
    BY <2>1, <2>4, ExceptSeq
  <2>6. \A i \in DOMAIN rest : rest[i].round = hops
    BY <2>1, <2>2, <2>4
  <2> QED
    BY <1>8, <2>5, <2>6 DEF ProcessSuggestion, MayCrash
<1>9. CASE ProcessFiles
  <2>1. /\ some_responses[1] \in Response
        /\ Tail(some_responses) \in Seq(Response)
        /\ Len(Tail(some_responses)) = Len(some_responses) - 1
        /\ \A i \in 1 .. Len(Tail(some_responses)) :
              Tail(some_responses)[i] = some_responses[i + 1]
    BY <1>9, HeadTailProperties, ElementOfSeq, EmptySeq DEF ProcessFiles
  <2>2. \A i \in DOMAIN Tail(some_responses) :
           Tail(some_responses)[i].round = hops
    BY <2>1
  <2>3. results' \in Seq(Files)
    BY <1>9, <2>1, ConcatProperties DEF ProcessFiles, Response
  <2> QED
    BY <1>9, <2>1, <2>2, <2>3 DEF ProcessFiles
<1>10. CASE ProcessingDone
  BY <1>10 DEF ProcessingDone
<1>11. ASSUME NEW q \in inflight, NEW answer \in Answers,
              NEW files \in FileAnswers, NEW again \in BOOLEAN,
              Receive(q, answer, files, again)
       PROVE  RoundsInv'
  <2> DEFINE srm == [nodes |-> answer, files |-> files, round |-> q.round]
  <2>1. q.round \in {1, 2} /\ q.round <= hops
    OBVIOUS
  <2>2. answer \in Seq(Peers) /\ files \in Seq(Files)
    BY ConstantTypes
  <2>3. q.round \in {1, 2} /\ q.round <= hops /\ srm \in Response
    <3>1. q.round \in Nat
      BY <2>1
    <3>2. srm \in Response
      BY <2>2, <3>1 DEF Response
    <3> QED
      BY <2>1, <3>2
  <2>4. adder' \in {Idle} \cup Adding
    BY <1>11, <2>3 DEF Receive, Adding
  <2>5. adder' # Idle => adder'.srm.round = hops
    BY <1>11, <2>3 DEF Receive
  <2>6. hops = 0 => adder' = Idle
    BY <1>11, <2>3 DEF Receive
  <2>7. duplicates' \in 0 .. MaxDuplicates
    BY <1>11 DEF Receive
  <2>8. /\ pc' = pc \/ (pc = "head" /\ pc' = "crashed")
        /\ inflight' \subseteq inflight
    BY <1>11 DEF Receive, MayCrash, Advancing
  <2>9. ControlTypeOK'
    BY <1>11, <2>4, <2>7, <2>8 DEF Receive
  <2>10. DeadlineInv' /\ QueriesInv'
    BY <1>11, <2>8 DEF Receive
  <2>11. ResponsesInv'
    BY <1>11, <2>5, <2>6, <2>8 DEF Receive
  <2> QED
    BY <2>9, <2>10, <2>11
<1>12. CASE PushResponse
  <2>1. adder \in Adding /\ adder.srm \in Response
    BY <1>12 DEF PushResponse, Idle, Adding
  <2>2. adder' \in Adding /\ adder'.srm = adder.srm
    BY <1>12, <2>1 DEF PushResponse, Adding
  <2>3. /\ Append(responses, adder.srm) \in Seq(Response)
        /\ DOMAIN Append(responses, adder.srm) = 1 .. (Len(responses) + 1)
        /\ \A i \in 1 .. Len(responses) :
              Append(responses, adder.srm)[i] = responses[i]
        /\ Append(responses, adder.srm)[Len(responses) + 1] = adder.srm
    BY <2>1, AppendProperties
  <2>4. hops # 0 /\ (hops = 1 => adder.srm.round = 1)
    BY <1>12 DEF PushResponse, Idle
  <2>5. hops = 1 => \A i \in DOMAIN responses' : responses'[i].round = 1
    BY <1>12, <2>3, <2>4 DEF PushResponse
  <2> QED
    BY <1>12, <2>2, <2>3, <2>4, <2>5 DEF PushResponse, MayCrash
<1>13. CASE SignalResponse
  <2>1. ControlTypeOK'
    BY <1>13 DEF SignalResponse
  <2>2. DeadlineInv' /\ QueriesInv' /\ ResponsesInv'
    BY <1>13 DEF SignalResponse
  <2> QED
    BY <2>1, <2>2
<1>14. CASE RegisterSearch
  BY <1>14 DEF RegisterSearch
<1>15. CASE remove_search
  BY <1>15 DEF remove_search
<1>16. ASSUME NEW q \in inflight, Lose(q)
       PROVE  RoundsInv'
  BY <1>16 DEF Lose
<1>17. CASE DeadlinePasses
  BY <1>17 DEF DeadlinePasses
<1>18. CASE UNCHANGED vars
  BY <1>18 DEF vars
<1> HIDE DEF RoundsInv, masterVars, queueVars, mailVars, networkVars
<1> QED
  BY <1>1, <1>2, <1>3, <1>4, <1>5, <1>6, <1>7, <1>8, <1>9, <1>10, <1>11,
     <1>12, <1>13, <1>14, <1>15, <1>16, <1>17, <1>18
  DEF Next, Run, PoolThread, Console, Environment

THEOREM RoundsInvariant == Spec => []RoundsInv
<1>1. Init => RoundsInv
  BY InitRounds
<1>2. RoundsInv /\ [Next]_vars => RoundsInv'
  BY NextRounds
<1> QED
  BY <1>1, <1>2, PTL DEF Spec

(***************************************************************************)
(* The control part of the state keeps its types; hops, which the thread   *)
(* compares with max_hops, stops one past it (search_manager.cpp:34).      *)
(***************************************************************************)
THEOREM ControlTypeCorrect == Spec => []ControlTypeOK
  BY RoundsInvariant, PTL DEF RoundsInv

(***************************************************************************)
(* Only the first round waits for responses or handles one: no value of    *)
(* max_hops makes a search go further than the answers to its first        *)
(* queries (search_manager.cpp:91-113).                                    *)
(***************************************************************************)
THEOREM FirstRoundListens == Spec => []OnlyFirstRoundListens
<1>1. RoundsInv => OnlyFirstRoundListens
  BY DEF RoundsInv, DeadlineInv, OnlyFirstRoundListens, ControlTypeOK
<1> QED
  BY <1>1, RoundsInvariant, PTL

(***************************************************************************)
(* Queries are sent in the first two rounds only (search_manager.cpp:80).  *)
(***************************************************************************)
THEOREM TwoRoundsOfQueriesOnly == Spec => []TwoRoundsOfQueries
<1>1. RoundsInv => TwoRoundsOfQueries
  BY DEF RoundsInv, QueriesInv, TwoRoundsOfQueries
<1> QED
  BY <1>1, RoundsInvariant, PTL

(***************************************************************************)
(* A response that run handles answers a query of the round that handles   *)
(* it, although the id is looked up before the response is pushed          *)
(* (search_manager.cpp:361-365).                                           *)
(***************************************************************************)
THEOREM ResponsesHandledInTheirRound == Spec => []HandledInItsRound
<1>1. RoundsInv => HandledInItsRound
  BY DEF RoundsInv, ResponsesInv, HandledInItsRound
<1> QED
  BY <1>1, RoundsInvariant, PTL

-----------------------------------------------------------------------------
\* The flag goes up with every push, and down with every clear.
LEMMA NextWakeup == ControlTypeOK /\ NoLostWakeup /\ [Next]_vars => NoLostWakeup'
<1> SUFFICES ASSUME ControlTypeOK, NoLostWakeup, [Next]_vars
             PROVE  NoLostWakeup'
  OBVIOUS
<1>1. CASE UNCHANGED <<responses, response_queue_empty, adder>>
  BY <1>1 DEF NoLostWakeup
<1>2. CASE ClearResponses
  BY <1>2 DEF ClearResponses, NoLostWakeup
<1>3. ASSUME NEW q \in inflight, NEW answer \in Answers,
             NEW files \in FileAnswers, NEW again \in BOOLEAN,
             Receive(q, answer, files, again)
      PROVE  NoLostWakeup'
  BY <1>3 DEF Receive, NoLostWakeup, Idle, mailVars
<1>4. CASE PushResponse
  BY <1>4 DEF PushResponse, NoLostWakeup, ControlTypeOK, Adding, Idle
<1>5. CASE SignalResponse
  BY <1>5 DEF SignalResponse, NoLostWakeup
<1> QED
  BY <1>1, <1>2, <1>3, <1>4, <1>5
  DEF Next, Run, PoolThread, Console, Environment, vars, mailVars, Advance,
      Terminate, SendQueries, Listen, WaitTimesOut, CopyResponses,
      ProcessSuggestion, ProcessFiles, ProcessingDone, RegisterSearch,
      remove_search, Lose, DeadlinePasses

(***************************************************************************)
(* The hand-over of responses from pool threads to run, which shares the   *)
(* flag under _mut but not the list (search_manager.cpp:37-48, 95-116).    *)
(***************************************************************************)
THEOREM WakeupsAreKept == Spec => []NoLostWakeup
<1>1. Init => NoLostWakeup
  BY DEF Init, NoLostWakeup
<1> QED
  BY <1>1, NextWakeup, ControlTypeCorrect, PTL DEF Spec

\* A removed search is not looked up, and not removed while it is being added to.
LEMMA NextDeaf == RemovedIsDeaf /\ [Next]_vars => RemovedIsDeaf'
<1> SUFFICES ASSUME RemovedIsDeaf, [Next]_vars
             PROVE  RemovedIsDeaf'
  OBVIOUS
<1>1. CASE UNCHANGED <<registered, adder>>
  BY <1>1 DEF RemovedIsDeaf
<1>2. ASSUME NEW q \in inflight, NEW answer \in Answers,
             NEW files \in FileAnswers, NEW again \in BOOLEAN,
             Receive(q, answer, files, again)
      PROVE  RemovedIsDeaf'
  BY <1>2 DEF Receive, RemovedIsDeaf, masterVars
<1>3. CASE PushResponse
  BY <1>3 DEF PushResponse, RemovedIsDeaf, masterVars, Idle
<1>4. CASE SignalResponse
  BY <1>4 DEF SignalResponse, RemovedIsDeaf
<1>5. CASE RegisterSearch \/ remove_search
  BY <1>5 DEF RegisterSearch, remove_search, RemovedIsDeaf
<1> QED
  BY <1>1, <1>2, <1>3, <1>4, <1>5
  DEF Next, Run, PoolThread, Console, Environment, vars, masterVars, Advance,
      Terminate, SendQueries, Listen, WaitTimesOut, CopyResponses,
      ClearResponses, ProcessSuggestion, ProcessFiles, ProcessingDone, Lose,
      DeadlinePasses

(***************************************************************************)
(* searches_lock, held from the look-up to the end of add_response, makes  *)
(* search_kill final: no response is being added to a removed search       *)
(* (search_manager.cpp:352, 468).                                          *)
(***************************************************************************)
THEOREM RemovedSearchIsDeaf == Spec => []RemovedIsDeaf
<1>1. Init => RemovedIsDeaf
  BY DEF Init, RemovedIsDeaf
<1> QED
  BY <1>1, NextDeaf, PTL DEF Spec

-----------------------------------------------------------------------------
\* The queue of suggestions: what is in it, in which order, and what is first.
QueueInv ==
    /\ next_nodes_queue \in Seq(QueueEntry)
    /\ pq \subseteq QueueEntry
    /\ heard \subseteq QueueEntry
    /\ inflight \subseteq Query
    /\ QueueWellFormed
    /\ NearestAtHead

LEMMA QueueIsOrdered ==
    QueueWellFormed <=>
        (FirstQueriesSent => Len(next_nodes_queue) <= alpha /\ Ordered(next_nodes_queue))
BY DEF QueueWellFormed, Ordered

LEMMA InitQueue == Init => QueueInv
  BY SubSearchAssumption DEF Init, QueueInv, QueueWellFormed, NearestAtHead, FirstQueriesSent

LEMMA SendKeepsQueue ==
  ASSUME RoundsInv, QueueInv, SendQueries
  PROVE  QueueInv'
<1>1. next_nodes_queue' = <<>> /\ heard' = {}
  BY DEF SendQueries
<1>2. Ordered(<<>>) /\ Len(<<>>) = 0 /\ <<>> \in Seq(QueueEntry)
  BY EmptySeq DEF Ordered
<1>3. QueueWellFormed'
  BY <1>1, <1>2, SubSearchAssumption DEF QueueWellFormed, Ordered
<1>4. NearestAtHead'
  BY <1>1 DEF NearestAtHead
<1>5. \A i \in DOMAIN next_nodes_queue : next_nodes_queue[i] \in QueueEntry
  BY DEF QueueInv
<1>6. pq' \subseteq QueueEntry
  BY <1>5 DEF SendQueries, QueueInv, ToSet
<1>7. inflight' \subseteq Query
  <2>1. hops \in Nat
    BY ConstantTypes DEF RoundsInv, ControlTypeOK
  <2>2. Queries \subseteq Query
    BY <1>5, <2>1 DEF Queries, Query, QueueEntry
  <2> QED
    BY <2>2 DEF SendQueries, QueueInv
<1> QED
  BY <1>1, <1>2, <1>3, <1>4, <1>6, <1>7 DEF QueueInv

LEMMA SuggestionKeepsQueue ==
  ASSUME RoundsInv, QueueInv, ProcessSuggestion
  PROVE  QueueInv'
<1> DEFINE n == Head(some_responses[1].nodes)
           e == Entry(Key, n)
<1>1. /\ next_nodes_queue' = QueueSuggestion(next_nodes_queue, e, alpha)
      /\ heard' = heard \cup {e}
      /\ UNCHANGED <<pq, inflight>>
  BY DEF ProcessSuggestion, networkVars
<1>2. n \in Peers
  <2>1. some_responses \in Seq(Response) /\ 1 \in 1 .. Len(some_responses)
    BY EmptySeq DEF ProcessSuggestion, RoundsInv, ControlTypeOK
  <2>2. some_responses[1] \in Response
    BY <2>1, ElementOfSeq
  <2> QED
    BY <2>2, HeadTailProperties DEF ProcessSuggestion, Response
<1>3. e \in QueueEntry
  BY <1>2, SubSearchAssumption DEF Entry, QueueEntry
<1>4. \A x \in QueueEntry : x.d \in Nat
  BY DEF QueueEntry
<1>5. FirstQueriesSent
  BY DEF RoundsInv, DeadlineInv, ProcessSuggestion, FirstQueriesSent
<1>6. /\ next_nodes_queue \in Seq(QueueEntry)
      /\ Ordered(next_nodes_queue)
      /\ Len(next_nodes_queue) <= alpha
  BY <1>5, QueueIsOrdered DEF QueueInv
<1> HIDE DEF e
<1>7. /\ next_nodes_queue' \in Seq(QueueEntry)
      /\ Len(next_nodes_queue') \in 1 .. alpha
      /\ Ordered(next_nodes_queue')
      /\ next_nodes_queue'[1].d <= e.d
      /\ next_nodes_queue # <<>> => next_nodes_queue'[1].d <= next_nodes_queue[1].d
  BY <1>1, <1>3, <1>4, <1>6, SubSearchAssumption, SuggestionKeepsOrder
<1>8. QueueWellFormed'
  BY <1>7, SubSearchAssumption DEF QueueWellFormed, Ordered
<1>9. NearestAtHead'
  <2>1. next_nodes_queue' # <<>>
    BY <1>7, EmptySeq
  <2>2. next_nodes_queue'[1].d \in Nat
    BY <1>4, <1>7, ElementOfSeq
  <2>3. ASSUME NEW x \in heard
        PROVE  next_nodes_queue'[1].d <= x.d
    <3>1. next_nodes_queue # <<>> /\ next_nodes_queue[1].d <= x.d
      BY <2>3 DEF QueueInv, NearestAtHead
    <3>2. next_nodes_queue[1] \in QueueEntry
      BY <1>6, <3>1, EmptySeq, ElementOfSeq
    <3>3. next_nodes_queue[1].d \in Nat /\ x.d \in Nat
      BY <1>4, <3>2 DEF QueueInv
    <3> QED
      BY <1>7, <2>2, <3>1, <3>3
  <2> QED
    BY <1>1, <1>7, <2>1, <2>3 DEF NearestAtHead
<1> QED
  BY <1>1, <1>3, <1>7, <1>8, <1>9 DEF QueueInv

LEMMA NextQueue == RoundsInv /\ QueueInv /\ [Next]_vars => QueueInv'
<1> SUFFICES ASSUME RoundsInv, QueueInv, [Next]_vars
             PROVE  QueueInv'
  OBVIOUS
<1>1. hops \in Nat /\ (hops = 0 => pc \in {"head", "TERMINATED", "crashed"})
  BY ConstantTypes DEF RoundsInv, ControlTypeOK, DeadlineInv
<1>2. CASE SendQueries
  BY <1>2, SendKeepsQueue
<1>3. CASE ProcessSuggestion
  BY <1>3, SuggestionKeepsQueue
<1>4. CASE Advance
  BY <1>1, <1>4
  DEF Advance, QueueInv, QueueWellFormed, NearestAtHead, FirstQueriesSent, queueVars,
      networkVars
<1>5. CASE /\ UNCHANGED <<hops, queueVars>>
           /\ inflight' \subseteq inflight
           /\ pc \in {"send", "crashed"} => pc' \in {pc, "crashed"}
  BY <1>1, <1>5
  DEF QueueInv, QueueWellFormed, NearestAtHead, FirstQueriesSent, queueVars
<1> QED
  BY <1>2, <1>3, <1>4, <1>5
  DEF Next, Run, PoolThread, Console, Environment, vars, Terminate, Listen, WaitTimesOut,
      CopyResponses, ClearResponses, ProcessFiles, ProcessingDone, Receive, PushResponse,
      SignalResponse, MayCrash, RegisterSearch, remove_search, Lose, DeadlinePasses,
      networkVars

THEOREM QueueInvariant == Spec => []QueueInv
<1>1. Init => QueueInv
  BY InitQueue
<1>2. RoundsInv /\ QueueInv /\ [Next]_vars => QueueInv'
  BY NextQueue
<1> QED
  BY <1>1, <1>2, RoundsInvariant, PTL DEF Spec

(***************************************************************************)
(* Every variable of a sub-search keeps its type: the queue holds nodes    *)
(* with their distances, the queries name rounds (search_manager.hpp).     *)
(***************************************************************************)
THEOREM TypeCorrect == Spec => []TypeOK
<1>1. RoundsInv /\ QueueInv => TypeOK
  BY DEF RoundsInv, QueueInv, TypeOK
<1> QED
  BY <1>1, RoundsInvariant, QueueInvariant, PTL

(***************************************************************************)
(* The queue of suggestions is sorted, without repetition and no longer    *)
(* than alpha, whatever is suggested (search_manager.cpp:131-162).         *)
(***************************************************************************)
THEOREM QueueIsWellFormed == Spec => []QueueWellFormed
<1>1. QueueInv => QueueWellFormed
  BY DEF QueueInv
<1> QED
  BY <1>1, QueueInvariant, PTL

(***************************************************************************)
(* Of all suggestions of a round the nearest is never lost, although the   *)
(* insertion never appends and spills (search_manager.cpp:131-162).        *)
(***************************************************************************)
THEOREM NearestIsAtHead == Spec => []NearestAtHead
<1>1. QueueInv => NearestAtHead
  BY DEF QueueInv
<1> QED
  BY <1>1, QueueInvariant, PTL

-----------------------------------------------------------------------------
\* The console's share leaves the search as it is, or crashes into its thread.
LEMMA ShareStepLeaves ==
  ASSUME ShareStep
  PROVE  /\ UNCHANGED <<masterVars, hops, expired, queueVars, mailVars, some_responses,
                       results, adder, networkVars>>
         /\ pc' \in {pc, "crashed"}
BY DEF ShareStep, SharePoll, SharePublish, MayCrash

\* All other steps are steps of the sub-search.
LEMMA ShareNextIs ==
  ASSUME [ShareNext]_<<vars, shareVars>>
  PROVE  ([Next]_vars /\ UNCHANGED shareVars) \/ ShareStep
BY DEF ShareNext, Next

LEMMA SharedRoundsStep == RoundsInv /\ ShareStep => RoundsInv'
BY ShareStepLeaves
   DEF RoundsInv, ControlTypeOK, DeadlineInv, QueriesInv, ResponsesInv,
       masterVars, queueVars, mailVars, networkVars

LEMMA SharedRounds == ShareSpec => []RoundsInv
<1>1. ShareInit => RoundsInv
  BY InitRounds DEF ShareInit
<1>2. RoundsInv /\ [ShareNext]_<<vars, shareVars>> => RoundsInv'
  BY SharedRoundsStep, ShareNextIs, NextRounds
<1> QED
  BY <1>1, <1>2, PTL DEF ShareSpec

(***************************************************************************)
(* The console's polling does no harm to the rounds: what holds of every   *)
(* sub-search holds of one that share watches (console_ui.cpp:75-136).     *)
(***************************************************************************)
THEOREM SharedRoundsAreRounds ==
    ShareSpec => [](OnlyFirstRoundListens /\ TwoRoundsOfQueries /\ HandledInItsRound)
<1>1. RoundsInv => OnlyFirstRoundListens /\ TwoRoundsOfQueries /\ HandledInItsRound
  BY DEF RoundsInv, DeadlineInv, QueriesInv, ResponsesInv, OnlyFirstRoundListens,
         TwoRoundsOfQueries, HandledInItsRound, ControlTypeOK
<1> QED
  BY <1>1, SharedRounds, PTL

(***************************************************************************)
(* So does what holds of its queue, its mailbox and its removal: however   *)
(* often share looks at the queue without a lock of the sub-search, and    *)
(* wherever that crashes it (search_manager.cpp:37-48, 131-162, 468,       *)
(* console_ui.cpp:75-136).                                                 *)
(***************************************************************************)
THEOREM SharedSearchIsSound ==
    ShareSpec => [](TypeOK /\ QueueWellFormed /\ NearestAtHead /\ NoLostWakeup /\ RemovedIsDeaf)
<1> DEFINE SearchInv == RoundsInv /\ QueueInv /\ NoLostWakeup /\ RemovedIsDeaf
<1>1. ShareInit => SearchInv
  BY InitRounds, InitQueue DEF ShareInit, Init, NoLostWakeup, RemovedIsDeaf
<1>2. SearchInv /\ [ShareNext]_<<vars, shareVars>> => SearchInv'
  <2> SUFFICES ASSUME SearchInv, [ShareNext]_<<vars, shareVars>>
               PROVE  SearchInv'
    OBVIOUS
  <2>1. CASE ShareStep
    <3>1. RoundsInv'
      BY <2>1, SharedRoundsStep
    <3>2. QueueInv'
      BY <2>1, ShareStepLeaves
         DEF QueueInv, QueueWellFormed, NearestAtHead, FirstQueriesSent, queueVars, networkVars
    <3>3. NoLostWakeup' /\ RemovedIsDeaf'
      BY <2>1, ShareStepLeaves DEF NoLostWakeup, RemovedIsDeaf, mailVars, masterVars
    <3> QED
      BY <3>1, <3>2, <3>3
  <2>2. CASE [Next]_vars
    <3>1. ControlTypeOK
      BY DEF RoundsInv
    <3> QED
      BY <2>2, <3>1, NextRounds, NextQueue, NextWakeup, NextDeaf
  <2> QED
    BY <2>1, <2>2, ShareNextIs
<1>3. SearchInv => TypeOK /\ QueueWellFormed /\ NearestAtHead /\ NoLostWakeup /\ RemovedIsDeaf
  BY DEF RoundsInv, QueueInv, TypeOK
<1> HIDE DEF SearchInv
<1> QED
  BY <1>1, <1>2, <1>3, PTL DEF ShareSpec

\* The nodes the search started with are queued until they are asked.
StartInv ==
    /\ hops = 0 \/ (hops = 1 /\ pc = "send") => next_nodes_queue = start_queue
    /\ hops > 1 \/ (hops = 1 /\ pc \notin {"send", "crashed"}) => ToSet(start_queue) \subseteq pq
    /\ share \in {"publish", "done"} => ToSet(start_queue) \subseteq pq

LEMMA SharedStart == ShareSpec => []StartInv
<1>1. ShareInit => StartInv
  BY DEF ShareInit, Init, StartInv
<1>2. RoundsInv /\ StartInv /\ [ShareNext]_<<vars, shareVars>> => StartInv'
  <2> SUFFICES ASSUME RoundsInv, StartInv, [ShareNext]_<<vars, shareVars>>
               PROVE  StartInv'
    OBVIOUS
  <2>1. hops \in Nat /\ (hops = 0 => pc \in {"head", "TERMINATED", "crashed"})
    BY ConstantTypes DEF RoundsInv, ControlTypeOK, DeadlineInv
  <2>2. CASE Advance /\ UNCHANGED shareVars
    BY <2>1, <2>2 DEF Advance, StartInv, queueVars, shareVars
  <2>3. CASE SendQueries /\ UNCHANGED shareVars
    BY <2>1, <2>3 DEF SendQueries, StartInv, shareVars
  <2>4. CASE ProcessSuggestion /\ UNCHANGED shareVars
    BY <2>1, <2>4 DEF ProcessSuggestion, StartInv, shareVars, MayCrash
  <2>5. CASE /\ UNCHANGED <<hops, queueVars, shareVars>>
             /\ pc' = "send" => pc = "send"
             /\ pc = "send" => pc' \in {"send", "crashed"}
             /\ pc = "crashed" => pc' = "crashed"
    BY <2>1, <2>5 DEF StartInv, queueVars, shareVars
  <2>6. CASE SharePoll
    <3>1. share' = "publish" => next_nodes_queue = <<>> /\ pc # "crashed"
      BY <2>6 DEF SharePoll
    <3>2. share' \in {"poll", "publish"}
      BY <2>6 DEF SharePoll
    <3>3. ToSet(<<>>) = {}
      BY EmptySeq DEF ToSet
    <3>4. /\ UNCHANGED <<hops, queueVars, start_queue>>
          /\ pc' \in {pc, "crashed"}
      BY <2>6 DEF SharePoll, MayCrash
    <3> QED
      BY <2>1, <3>1, <3>2, <3>3, <3>4 DEF StartInv, queueVars
  <2>7. CASE SharePublish
    BY <2>1, <2>7 DEF SharePublish, StartInv, queueVars, MayCrash
  <2>8. ASSUME [Next]_vars, UNCHANGED shareVars
        PROVE  StartInv'
    BY <2>2, <2>3, <2>4, <2>5, <2>8
    DEF Next, Run, PoolThread, Console, Environment, vars, Terminate, Listen,
        WaitTimesOut, CopyResponses, ClearResponses, ProcessFiles, ProcessingDone, Receive,
        PushResponse, SignalResponse, MayCrash, RegisterSearch, remove_search, Lose,
        DeadlinePasses
  <2> QED
    BY <2>6, <2>7, <2>8, ShareNextIs DEF ShareStep
<1> QED
  BY <1>1, <1>2, SharedRounds, PTL DEF ShareSpec

(***************************************************************************)
(* However early share sees an empty queue, the list it sorts has all the  *)
(* nodes that the search started with (console_ui.cpp:96-113).             *)
(***************************************************************************)
THEOREM ShareSortsTheStart ==
    ShareSpec => [](share = "done" => ToSet(start_queue) \subseteq pq)
<1>1. StartInv => (share = "done" => ToSet(start_queue) \subseteq pq)
  BY DEF StartInv
<1> QED
  BY <1>1, SharedStart, PTL

\* What has been published stays so; pq only grows.
PublishedInv ==
    /\ start_queue \in StartQueues
    /\ PublishedToNearest

\* The first entries of pq are at least one, unless pq is empty.
LEMMA FirstIsSomebody ==
  ASSUME NEW first, FirstOfSorted(first), first = {}
  PROVE  pq = {}
<1>1. Cardinality({}) = 0
  BY FS_EmptySet
<1>2. publish_redundancy # 0
  BY ShareAssumption
<1> QED
  BY <1>1, <1>2 DEF FirstOfSorted

LEMMA PublishStep ==
  ASSUME StartInv, PublishedInv, SharePublish
  PROVE  PublishedInv'
<1>1. ToSet(start_queue) \subseteq pq
  BY DEF SharePublish, StartInv
<1>2. UNCHANGED <<start_queue, pq>>
  BY DEF SharePublish, queueVars
<1>3. ASSUME NEW i \in DOMAIN start_queue
      PROVE  start_queue[i] \in pq
  BY <1>1 DEF ToSet
<1>4. CASE published' = {} /\ missed'
  BY <1>2, <1>4 DEF PublishedInv, PublishedToNearest
<1>5. ASSUME NEW first \in SUBSET pq, FirstOfSorted(first),
             published' = { e \in first : ~SameNode(e.node, Self) }
      PROVE  PublishedInv'
  <2>1. ASSUME NEW i \in DOMAIN start_queue,
               start_queue[i] \notin published', ~SameNode(start_queue[i].node, Self),
               NEW e \in published'
        PROVE  e.d <= start_queue[i].d
    <3>1. e \in first /\ start_queue[i] \in pq \ first
      BY <1>3, <1>5, <2>1
    <3> QED
      BY <1>5, <3>1 DEF FirstOfSorted
  <2>2. ASSUME published' = {}, start_queue # <<>>
        PROVE  \E e \in pq : SameNode(e.node, Self)
    <3>1. start_queue \in Seq(QueueEntry)
      BY SubSearchAssumption DEF PublishedInv
    <3>2. 1 \in DOMAIN start_queue
      BY <2>2, <3>1
    <3>3. first # {}
      BY <1>3, <1>5, <3>2, FirstIsSomebody
    <3> QED
      BY <1>5, <2>2, <3>3
  <2> QED
    BY <1>2, <2>1, <2>2 DEF PublishedInv, PublishedToNearest
<1> QED
  BY <1>4, <1>5 DEF SharePublish

(***************************************************************************)
(* share publishes to the nearest of what the search started from, or to   *)
(* nearer ones.  It publishes to nobody only when nobody was known, when   *)
(* this node is among those asked, or when its walk without the lock finds *)
(* the map empty in advance (console_ui.cpp:96-122,                        *)
(* search_manager.cpp:280-284).                                            *)
(***************************************************************************)
THEOREM PublishesToNearest == ShareSpec => []PublishedToNearest
<1>1. ShareInit => PublishedInv
  BY DEF ShareInit, Init, PublishedInv, PublishedToNearest
<1>2. StartInv /\ PublishedInv /\ [ShareNext]_<<vars, shareVars>> => PublishedInv'
  <2> SUFFICES ASSUME StartInv, PublishedInv, [ShareNext]_<<vars, shareVars>>
               PROVE  PublishedInv'
    OBVIOUS
  <2>1. CASE SharePublish
    BY <2>1, PublishStep
  <2>2. CASE SharePoll
    BY <2>2 DEF SharePoll, PublishedInv, PublishedToNearest
  <2>3. CASE [Next]_vars /\ UNCHANGED shareVars
    <3>1. pq \subseteq pq'
      BY <2>3
      DEF Next, Run, PoolThread, Console, Environment, vars, Advance, SendQueries, Terminate,
          Listen, WaitTimesOut, CopyResponses, ClearResponses, ProcessSuggestion, ProcessFiles,
          ProcessingDone, Receive, PushResponse, SignalResponse, RegisterSearch,
          remove_search, Lose, DeadlinePasses, queueVars
    <3> QED
      BY <2>3, <3>1 DEF shareVars, PublishedInv, PublishedToNearest
  <2> QED
    BY <2>1, <2>2, <2>3, ShareNextIs DEF ShareStep
<1>3. PublishedInv => PublishedToNearest
  BY DEF PublishedInv
<1> QED
  BY <1>1, <1>2, <1>3, SharedStart, PTL DEF ShareSpec

-----------------------------------------------------------------------------
(***************************************************************************)
(* What the constructor makes of a routing table.  table has the nodes of  *)
(* the buckets in scan order, each record once (NodeTable's                *)
(* BucketsWellFormed).                                                     *)
(***************************************************************************)
Found(table, allow) ==
    Unique(NodesOf(OfferAll(<<>>, table, Key, bit_distance(Self.nodeId, Key), allow, alpha)))

\* The list the constructor goes on with.
ListOf(table) ==
    IF Len(Found(table, FALSE)) < alpha THEN Found(table, TRUE) ELSE Found(table, FALSE)

\* get_better_nodes finds nodes of the table, none twice, and fewer than alpha or one.
LEMMA FoundIs ==
  ASSUME NEW table \in Seq(Peers), NoneTwice(table), NEW allow
  PROVE  LET l == Found(table, allow)
         IN  /\ l \in Seq(Peers) /\ NoneTwice(l)
             /\ \A i \in DOMAIN l : \E j \in DOMAIN table : l[i] = table[j]
             /\ Len(l) < alpha \/ Len(l) <= 1
<1> DEFINE limit == bit_distance(Self.nodeId, Key)
           q == OfferAll(<<>>, table, Key, limit, allow, alpha)
           r == NodesOf(q)
           S == [d : Nat, node : Peers]
<1>1. /\ \A n \in Peers : bit_distance(Key, n.nodeId) \in Nat
      /\ alpha \in Nat \ {0}
  BY SubSearchAssumption
<1>2. Offerable(Peers, Key, alpha, <<>>, table)
  <2>1. InOrder(S, alpha, <<>>)
    BY <1>1, EmptySeq DEF InOrder, ByDistance
  <2> QED
    BY <1>1, <2>1, EmptySeq DEF Offerable, NoneTwice
<1> HIDE DEF limit
<1>3. /\ InOrder(S, alpha, q)
      /\ \A i \in DOMAIN q : \E j \in DOMAIN table : q[i] = Entry(Key, table[j])
  <2>1. /\ InOrder(S, alpha, q)
        /\ \A i \in DOMAIN q :
              \/ \E j \in DOMAIN <<>> : q[i] = <<>>[j]
              \/ \E j \in DOMAIN table : q[i] = Entry(Key, table[j])
    <3> DEFINE none == <<>>
    <3>1. Offerable(Peers, Key, alpha, none, table) /\ alpha \in Nat \ {0}
      BY <1>1, <1>2
    <3> HIDE DEF none
    <3> DEFINE offers(n) == allow \/ bit_distance(n.nodeId, Key) < limit
               u == OfferAll(none, table, Key, limit, allow, alpha)
    <3>2. /\ InOrder(S, alpha, u)
          /\ \A i \in DOMAIN u :
                \/ \E j \in DOMAIN none : u[i] = none[j]
                \/ \E j \in DOMAIN table : offers(table[j]) /\ u[i] = Entry(Key, table[j])
          /\ none # <<>> => u # <<>> /\ u[1].d <= none[1].d
          /\ \A j \in DOMAIN table : offers(table[j]) =>
                u # <<>> /\ u[1].d <= bit_distance(Key, table[j].nodeId)
      BY <3>1, OfferAllFindsNearest
    <3>3. u = q
      BY DEF none
    <3> HIDE DEF u, offers, q
    <3> QED
      BY <3>2, <3>3 DEF none
  <2>2. DOMAIN <<>> = {}
    OBVIOUS
  <2> HIDE DEF q
  <2> QED
    BY <2>1, <2>2
<1> HIDE DEF q
<1>4. q \in Seq(S) /\ DOMAIN q = 1 .. Len(q) /\ Len(q) \in Nat
  BY <1>3, LenProperties DEF InOrder
<1>5. /\ r \in Seq(Peers) /\ DOMAIN r = DOMAIN q /\ Len(r) = Len(q)
      /\ \A i \in DOMAIN r : r[i] = q[i].node
  <2>1. \A i \in 1 .. Len(q) : q[i].node \in Peers
    <3>1. \A i \in 1 .. Len(q) : q[i] \in S
      BY <1>4, ElementOfSeq
    <3> QED
      BY <3>1
  <2>2. r = [i \in 1 .. Len(q) |-> q[i].node]
    BY <1>4 DEF NodesOf
  <2>3. r \in Seq(Peers)
    BY <1>4, <2>1, <2>2, IsASeq
  <2>4. DOMAIN r = 1 .. Len(q)
    BY <2>2
  <2> QED
    BY <1>4, <2>2, <2>3, <2>4, LenProperties
<1>6. NoneTwice(r)
  <2>1. \A i, j \in DOMAIN q : i < j => q[i].node # q[j].node
    BY <1>3 DEF InOrder, ByDistance
  <2>2. \A i, j \in 1 .. Len(q) : i < j \/ j < i \/ i = j
    OBVIOUS
  <2> HIDE DEF r
  <2> QED
    BY <1>4, <1>5, <2>1, <2>2 DEF NoneTwice
<1>7. \A i \in DOMAIN r : \E j \in DOMAIN table : r[i] = table[j]
  BY <1>3, <1>5 DEF Entry
<1> DEFINE l == Unique(r)
<1>8. Found(table, allow) = l
  BY DEF Found, q, limit
<1> HIDE DEF r
<1>9. /\ l \in Seq(Peers) /\ Len(l) <= Len(r) /\ NoneTwice(l)
      /\ \A i \in DOMAIN l : \E j \in DOMAIN r : l[i] = r[j]
  BY <1>5, <1>6, UniqueSelects
<1> HIDE DEF l
<1>10. Len(l) < alpha \/ Len(l) <= 1
  <2>1. Len(l) \in Nat /\ (Len(q) < alpha \/ Len(q) = 1)
    BY <1>3, <1>9, LenProperties DEF InOrder
  <2>2. Len(l) <= Len(q) /\ Len(q) \in Nat
    BY <1>4, <1>5, <1>9
  <2> DEFINE a == Len(l)
             b == Len(q)
  <2>3. a \in Nat /\ b \in Nat /\ a <= b /\ (b < alpha \/ b = 1) /\ alpha \in Nat
    BY <1>1, <2>1, <2>2
  <2> HIDE DEF a, b
  <2>4. a < alpha \/ a <= 1
    BY <2>3
  <2> QED
    BY <2>4 DEF a
<1> QED
  BY <1>7, <1>8, <1>9, <1>10

\* Both lists are of this kind, so the one that is taken is.
LEMMA ListIs ==
  ASSUME NEW table \in Seq(Peers), NoneTwice(table)
  PROVE  /\ ListOf(table) \in Seq(Peers) /\ NoneTwice(ListOf(table))
         /\ \A i \in DOMAIN ListOf(table) : \E j \in DOMAIN table : ListOf(table)[i] = table[j]
<1>1. ListOf(table) \in {Found(table, TRUE), Found(table, FALSE)}
  BY DEF ListOf
<1> DEFINE good(l) == /\ l \in Seq(Peers) /\ NoneTwice(l)
                      /\ \A i \in DOMAIN l : \E j \in DOMAIN table : l[i] = table[j]
<1>2. \A allow \in BOOLEAN : good(Found(table, allow))
  BY FoundIs
<1>3. good(ListOf(table))
  <2> DEFINE f == ListOf(table)
             yes == Found(table, TRUE)
             no == Found(table, FALSE)
  <2>1. good(yes) /\ good(no)
    BY <1>2
  <2>2. f = yes \/ f = no
    BY <1>1
  <2> HIDE DEF f, yes, no, good
  <2>3. good(f)
    BY <2>1, <2>2
  <2> QED
    BY <2>3 DEF f
<1> QED
  BY <1>3

(***************************************************************************)
(* The constructor's queue has nodes of the table with their distances,    *)
(* none of them twice, and as many as an advance by alpha in the ring of   *)
(* the list leaves, which is no more than alpha: it is what SubSearch      *)
(* assumes of StartQueues (search_manager.cpp:236-254).                    *)
(***************************************************************************)
THEOREM ConstructorsQueue ==
  ASSUME NEW table \in Seq(Peers), NoneTwice(table),
         NEW q \in StartQueuesOf(table, Self, Key, alpha)
  PROVE  /\ q \in Seq(QueueEntry)
         /\ \A i \in DOMAIN q : \E j \in DOMAIN table : q[i] = Entry(Key, table[j])
         /\ NoneTwice(q)
         /\ Len(q) = alpha % (Len(ListOf(table)) + 1)
         /\ Len(q) <= alpha
<1> DEFINE l == ListOf(table)
           orders == {p \in [DOMAIN l -> DOMAIN l] : IsInjective(p)}
           sorted(p) == [i \in DOMAIN l |-> Entry(Key, l[p[i]])]
<1>1. StartQueuesOf(table, Self, Key, alpha) = { CutAfter(sorted(p), alpha) : p \in orders }
  BY DEF StartQueuesOf, ListOf, Found
<1>2. PICK p \in orders : q = CutAfter(sorted(p), alpha)
  BY <1>1
<1> DEFINE s == sorted(p)
<1>3. /\ l \in Seq(Peers) /\ NoneTwice(l)
      /\ \A i \in DOMAIN l : \E j \in DOMAIN table : l[i] = table[j]
      /\ Len(l) \in Nat /\ DOMAIN l = 1 .. Len(l)
  BY ListIs, LenProperties
<1> HIDE DEF l
<1>4. /\ \A i \in DOMAIN l : p[i] \in DOMAIN l
      /\ \A i, j \in DOMAIN l : p[i] = p[j] => i = j
  BY DEF IsInjective
<1>5. \A i \in DOMAIN l : l[p[i]] \in Peers /\ Entry(Key, l[p[i]]) \in QueueEntry
  <2>1. \A i \in DOMAIN l : l[p[i]] \in Peers
    BY <1>3, <1>4, ElementOfSeq
  <2> QED
    BY <2>1, SubSearchAssumption DEF Entry, QueueEntry
<1>6. s \in Seq(QueueEntry) /\ Len(s) = Len(l) /\ DOMAIN s = 1 .. Len(l)
  <2>1. s = [i \in 1 .. Len(l) |-> Entry(Key, l[p[i]])]
    BY <1>3
  <2>2. s \in Seq(QueueEntry) /\ DOMAIN s = 1 .. Len(l)
    BY <1>3, <1>5, <2>1, IsASeq
  <2> HIDE DEF s
  <2> QED
    BY <1>3, <2>2, LenProperties
<1>7. \A i \in DOMAIN l : s[i] = Entry(Key, l[p[i]]) /\ s[i].node = l[p[i]]
  BY DEF Entry
<1> HIDE DEF s
<1>8. alpha \in Nat
  BY SubSearchAssumption
<1>9. /\ q \in Seq(QueueEntry) /\ Len(q) = alpha % (Len(l) + 1)
      /\ Len(q) <= alpha /\ Len(q) <= Len(l)
      /\ \A i \in 1 .. Len(q) : q[i] = s[i]
  BY <1>2, <1>6, <1>8, CutAfterIs DEF s
<1>10. Len(q) \in Nat /\ DOMAIN q = 1 .. Len(q)
  BY <1>9, LenProperties
<1>11. \A i \in DOMAIN q : i \in DOMAIN l /\ q[i] = s[i]
  BY <1>3, <1>9, <1>10
<1>12. \A i \in DOMAIN q : \E j \in DOMAIN table : q[i] = Entry(Key, table[j])
  <2> SUFFICES ASSUME NEW i \in DOMAIN q
               PROVE  \E j \in DOMAIN table : q[i] = Entry(Key, table[j])
    OBVIOUS
  <2>1. p[i] \in DOMAIN l /\ q[i] = Entry(Key, l[p[i]])
    BY <1>4, <1>7, <1>11
  <2> QED
    BY <1>3, <2>1
<1>13. NoneTwice(q)
  <2> SUFFICES ASSUME NEW i \in DOMAIN q, NEW j \in DOMAIN q, q[i] = q[j]
               PROVE  i = j
    BY DEF NoneTwice
  <2>1. l[p[i]] = l[p[j]] /\ p[i] \in DOMAIN l /\ p[j] \in DOMAIN l
    BY <1>4, <1>7, <1>11
  <2>2. p[i] = p[j]
    BY <1>3, <2>1 DEF NoneTwice
  <2> QED
    BY <1>4, <1>11, <2>2
<1> QED
  BY <1>9, <1>12, <1>13 DEF l

(***************************************************************************)
(* A search that finds as many nodes as get_better_nodes ever gives, which *)
(* is alpha - 1, asks nobody: the advance goes once around the ring        *)
(* (NodeQueue.cpp:104-109, search_manager.cpp:244-246).                    *)
(***************************************************************************)
THEOREM FullListAsksNobody ==
  ASSUME NEW table \in Seq(Peers), NoneTwice(table), alpha > 1,
         Len(Found(table, TRUE)) = alpha - 1
  PROVE  /\ StartQueuesOf(table, Self, Key, alpha) = {<<>>}
         /\ \A allow \in BOOLEAN : Len(Found(table, allow)) <= alpha - 1
<1> DEFINE l == ListOf(table)
           orders == {p \in [DOMAIN l -> DOMAIN l] : IsInjective(p)}
<1>1. alpha \in Nat
  BY SubSearchAssumption
<1>2. \A allow \in BOOLEAN : Len(Found(table, allow)) \in Nat /\ Len(Found(table, allow)) < alpha
  <2>1. ASSUME NEW allow \in BOOLEAN
        PROVE  Len(Found(table, allow)) \in Nat /\ Len(Found(table, allow)) < alpha
    <3>1. /\ Found(table, allow) \in Seq(Peers)
          /\ Len(Found(table, allow)) < alpha \/ Len(Found(table, allow)) <= 1
      BY FoundIs
    <3> QED
      BY <1>1, <3>1, LenProperties
  <2> QED
    BY <2>1
<1>3. l = Found(table, TRUE) /\ Len(l) + 1 = alpha
  <2>1. Len(Found(table, FALSE)) < alpha
    BY <1>2
  <2>2. l = Found(table, TRUE)
    BY <2>1 DEF ListOf
  <2> DEFINE a == Len(Found(table, TRUE))
  <2>3. a = alpha - 1
    OBVIOUS
  <2> HIDE DEF a
  <2>4. a + 1 = alpha
    BY <1>1, <2>3
  <2> HIDE DEF l
  <2> QED
    BY <2>2, <2>4 DEF a
<1>4. ASSUME NEW q \in StartQueuesOf(table, Self, Key, alpha)
      PROVE  q = <<>>
  <2>1. q \in Seq(QueueEntry) /\ Len(q) = alpha % (Len(l) + 1)
    BY ConstructorsQueue
  <2>2. alpha % alpha = 0
    BY <1>1
  <2> QED
    BY <1>3, <2>1, <2>2, EmptySeq
<1>5. \E q : q \in StartQueuesOf(table, Self, Key, alpha)
  <2>1. [i \in DOMAIN l |-> i] \in orders
    BY DEF IsInjective
  <2>2. StartQueuesOf(table, Self, Key, alpha)
          = { CutAfter([i \in DOMAIN l |-> Entry(Key, l[p[i]])], alpha) : p \in orders }
    BY DEF StartQueuesOf, ListOf, Found
  <2> HIDE DEF orders, l
  <2> QED
    BY <2>1, <2>2
<1>6. \A allow \in BOOLEAN : Len(Found(table, allow)) <= alpha - 1
  BY <1>1, <1>2
<1> QED
  BY <1>4, <1>5, <1>6

=============================================================================
