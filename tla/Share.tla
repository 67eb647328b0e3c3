------------------------------- MODULE Share --------------------------------
(***************************************************************************)
(* The console command "share" of console_ui.cpp, over the node search it  *)
(* starts: the console polls the search once a second, publishes the file  *)
(* to the nearest nodes that have been asked, and adds it to the local     *)
(* table.  One word of the path; the next one starts a search of its own.  *)
(* When the search is a KEY_SEARCH, the console gave the command "search"  *)
(* instead.                                                                *)
(***************************************************************************)
EXTENDS SubSearch

CONSTANT publish_redundancy

ASSUME ShareAssumption == publish_redundancy \in Nat \ {0}

VARIABLES
    share,          \* where the command is
    published,      \* the entries a publish message went to
    start_queue,    \* history: the queue of the constructor
    missed          \* history: the walk over sub_searches found none

shareVars == <<share, published, start_queue, missed>>

ShareInit ==
    /\ Init
    /\ share = IF type = "NODE_SEARCH" THEN "poll" ELSE "none"
    /\ published = {}
    /\ start_queue = next_nodes_queue
    /\ missed = FALSE

(***************************************************************************)
(* One turn of while(!done), but for the publishing.  find_search waits    *)
(* for searches_lock.  done starts as false and done = done && ... leaves  *)
(* it so: only an empty queue ends the loop.  run changes the queue        *)
(* without a lock the console would know of.                               *)
(***************************************************************************)
SharePoll ==
    /\ pc # "crashed"
    /\ share = "poll"
    /\ registered = "yes"
    /\ adder = Idle
    /\ share' = IF next_nodes_queue = <<>> THEN "publish" ELSE "poll"
    /\ MayCrash(pc \in {"send", "process"}, pc)
    /\ UNCHANGED <<masterVars, hops, expired, queueVars, mailVars,
                   some_responses, results, adder, networkVars, published,
                   start_queue, missed>>

\* Faulty variant of FirstOfSorted: pq is not sorted.
FirstOfUnsorted(first) ==
    /\ first \subseteq pq
    /\ \/ Cardinality(first) = publish_redundancy
       \/ first = pq /\ Cardinality(pq) < publish_redundancy

\* The first publish_redundancy entries of pq, once it is sorted by distance.
FirstOfSorted(first) ==
    /\ first \subseteq pq
    /\ \/ Cardinality(first) = publish_redundancy
       \/ first = pq /\ Cardinality(pq) < publish_redundancy
    /\ \A e \in first, other \in pq \ first : e.d <= other.d

(***************************************************************************)
(* The walk over sub_searches, outside its lock: pq.sort(), and a publish  *)
(* message to the first publish_redundancy entries.  The walk may coincide *)
(* with advance, and then also find no entry between erase and insert, so  *)
(* that nothing is sent; the sort may coincide with run's copy to pq.      *)
(* insertFileInfoRecord and done = true follow in each case.               *)
(***************************************************************************)
SharePublish ==
    /\ pc # "crashed"
    /\ share = "publish"
    /\ \/ /\ \E first \in SUBSET pq :
                /\ FirstOfSorted(first)
                /\ published' = { e \in first : ~SameNode(e.node, Self) }
          /\ missed' = FALSE
       \/ /\ Advancing
          /\ published' = {}
          /\ missed' = TRUE
    /\ share' = "done"
    /\ MayCrash(pc = "send" \/ Advancing, pc)
    /\ UNCHANGED <<masterVars, hops, expired, queueVars, mailVars,
                   some_responses, results, adder, networkVars, start_queue>>

ShareStep == SharePoll \/ SharePublish

\* The console is one thread: it gives no command during share.
ShareNext ==
    \/ (Run \/ PoolThread \/ Environment) /\ UNCHANGED shareVars
    \/ share \in {"none", "done"} /\ Console /\ UNCHANGED shareVars
    \/ ShareStep

ShareSpec == ShareInit /\ [][ShareNext]_<<vars, shareVars>>

\* SubSearch's fairness, and a console that goes on.
FairShareSpec ==
    /\ ShareSpec
    /\ WF_vars(Run)
    /\ WF_vars(PushResponse)
    /\ WF_vars(SignalResponse)
    /\ WF_vars(DeadlinePasses)
    /\ WF_<<vars, shareVars>>(ShareStep)

-----------------------------------------------------------------------------
(***************************************************************************)
(* The command ends, although it ends only when it sees an empty queue and *)
(* run refills the queue (console_ui.cpp:75-136).                          *)
(***************************************************************************)
ShareReturns == <>(share \in {"none", "done"} \/ pc = "crashed")

(***************************************************************************)
(* However early the console sees an empty queue, it publishes to none     *)
(* that is farther from the key than a node the search started from and    *)
(* which it leaves out.  The file goes to nobody only if nobody was known, *)
(* or this node itself is among those asked, or the unlocked walk found    *)
(* the map empty in the middle of advance (console_ui.cpp:96-122,          *)
(* search_manager.cpp:280-284).                                            *)
(***************************************************************************)
PublishedToNearest ==
    share = "done" =>
        /\ \A i \in DOMAIN start_queue :
              \/ start_queue[i] \in published
              \/ SameNode(start_queue[i].node, Self)
              \/ \A e \in published : e.d <= start_queue[i].d
        /\ published = {} =>
              \/ start_queue = <<>>
              \/ \E e \in pq : SameNode(e.node, Self)
              \/ missed

=============================================================================
