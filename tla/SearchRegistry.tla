--------------------------- MODULE SearchRegistry ---------------------------
(***************************************************************************)
(* The searches of search_manager.cpp and their sub-searches: which round  *)
(* of which sub-search an answer belongs to.  The console starts and kills *)
(* searches, each sub-search's thread goes from round to round, and pool   *)
(* threads look up whom an answer is for.  What a round does with its      *)
(* answers is in SubSearch.                                                *)
(*                                                                         *)
(* The console is one thread, so that a search is known by its             *)
(* masterSearchId and a sub-search by its search and its word.             *)
(***************************************************************************)
EXTENDS Integers, FiniteSets

CONSTANTS
    MaxSearches,      \* bound: the searches the console starts
    MaxWords,         \* bound: the words of a query
    MaxSubs,          \* bound: the sub-searches of all searches
    max_hops

ASSUME SearchRegistryAssumption ==
    /\ MaxSearches \in Nat
    /\ MaxWords \in Nat \ {0}
    /\ MaxSubs \in Nat
    /\ max_hops \in Nat

Searches == 0 .. (MaxSearches - 1)
Words    == 1 .. MaxWords
Subs     == Searches \X Words

VARIABLES
    next_master_search_id,
    next_sub_search_id,
    searches,         \* the masterSearchIds in the map of that name
    sub_searches,     \* of each search: its map from ids to sub-searches
    console,          \* what the console is doing, and for which sub-search
    pc,               \* where the thread of a sub-search is
    searchId,         \* the id of a sub-search's round; first, the id just read
    hops,
    kill_search,
    asked,            \* the queries sent; their answers may come at any time
    strays,           \* <<s, t>>: t has got a response to a query of s, not of t
    aborted           \* whether, and how, the process has ended

idVars   == <<next_master_search_id, next_sub_search_id>>
mapVars  == <<searches, sub_searches>>
subVars  == <<pc, searchId, hops, kill_search>>
queryVars == <<asked, strays>>
vars == <<idVars, mapVars, console, subVars, queryVars, aborted>>

NoSubs  == [id \in {} |-> <<>>]
Prompt  == [at |-> "prompt"]
Command == [at : {"read", "write", "insert", "join", "start", "register"},
            type : {"NODE_SEARCH", "KEY_SEARCH"}, search : Searches,
            word : Words, words : 0 .. MaxWords]
Query   == [id : Nat, sub : Subs]

Init ==
    /\ next_master_search_id = 0
    /\ next_sub_search_id = 0
    /\ searches = {}
    /\ sub_searches = [m \in Searches |-> NoSubs]
    /\ console = Prompt
    /\ pc = [s \in Subs |-> "none"]
    /\ searchId = [s \in Subs |-> 0]
    /\ hops = [s \in Subs |-> 0]
    /\ kill_search = [s \in Subs |-> FALSE]
    /\ asked = {}
    /\ strays = {}
    /\ aborted = "no"

Running == aborted = "no"

\* Undefined behaviour: nothing comes of it, or the process ends.
MayAbort(if_so) ==
    \/ aborted' = "no"
    \/ if_so /\ aborted' = "undefined"

-----------------------------------------------------------------------------
(***************************************************************************)
(* A map from ids to shared_ptrs is all that keeps a sub-search alive: an  *)
(* entry that another one replaces takes its sub-search with it.           *)
(* ~sub_search sets kill_search and joins the thread.                      *)
(***************************************************************************)
Entered(m, s) ==
    [id \in DOMAIN sub_searches[m] \cup {searchId[s]} |->
        IF id = searchId[s] THEN s ELSE sub_searches[m][id]]

Replaced(m, s) ==
    IF searchId[s] \in DOMAIN sub_searches[m]
    THEN {sub_searches[m][searchId[s]]} \ {s} ELSE {}

Killed(subs) == [s \in Subs |-> kill_search[s] \/ s \in subs]

\* The threads that s has killed by taking their id have ended.
Joined(s) ==
    \A t \in Subs :
        (t[1] = s[1] /\ kill_search[t] /\ searchId[t] = searchId[s]) => pc[t] = "done"

\* sub_searches_lock of search m is held by a thread in advance.
Advancing(m) == \E s \in Subs : s[1] = m /\ pc[s] \in {"number", "join"}

-----------------------------------------------------------------------------
\* The console, in start_search and remove_search.

ConsoleSub == <<console.search, console.word>>

StartSearch(type, words) ==
    /\ Running
    /\ console = Prompt
    /\ next_master_search_id < MaxSearches
    /\ type = "NODE_SEARCH" => words = 1
    /\ Cardinality({s \in Subs : pc[s] # "none"}) + words <= MaxSubs
    /\ next_master_search_id' = next_master_search_id + 1
    /\ console' = [at |-> IF words = 0 THEN "register" ELSE "read",
                   type |-> type, search |-> next_master_search_id,
                   word |-> 1, words |-> words]
    /\ UNCHANGED <<next_sub_search_id, mapVars, subVars, queryVars, aborted>>

\* The two halves of next_sub_search_id++ in the constructor.
ReadId ==
    /\ Running
    /\ console.at = "read"
    /\ searchId' = [searchId EXCEPT ![ConsoleSub] = next_sub_search_id]
    /\ console' = [console EXCEPT !.at = "write"]
    /\ UNCHANGED <<idVars, mapVars, pc, hops, kill_search, queryVars, aborted>>

WriteId ==
    /\ Running
    /\ console.at = "write"
    /\ next_sub_search_id' = searchId[ConsoleSub] + 1
    /\ console' = [console EXCEPT !.at = "insert"]
    /\ UNCHANGED <<next_master_search_id, mapVars, subVars, queryVars, aborted>>

\* start_search(h, type) registers the search first, start_search(query) last.
AfterInsert == IF console.type = "NODE_SEARCH" THEN "register" ELSE "start"

(***************************************************************************)
(* s->sub_searches[ss->searchId] = ..., without sub_searches_lock, while   *)
(* the thread of an earlier word may be in advance.                        *)
(***************************************************************************)
InsertSub ==
    /\ Running
    /\ console.at = "insert"
    /\ LET s == ConsoleSub
           m == console.search
       IN  /\ sub_searches' = [sub_searches EXCEPT ![m] = Entered(m, s)]
           /\ kill_search' = Killed(Replaced(m, s))
           /\ console' = [console EXCEPT !.at = IF Replaced(m, s) = {}
                                                THEN AfterInsert ELSE "join"]
           /\ MayAbort(Advancing(m))
    /\ UNCHANGED <<idVars, searches, pc, searchId, hops, queryVars>>

ConsoleJoins ==
    /\ Running
    /\ console.at = "join"
    /\ Joined(ConsoleSub)
    /\ console' = [console EXCEPT !.at = AfterInsert]
    /\ UNCHANGED <<idVars, mapVars, subVars, queryVars, aborted>>

StartThread ==
    /\ Running
    /\ console.at = "start"
    /\ pc' = [pc EXCEPT ![ConsoleSub] = "head"]
    /\ console' = IF console.type = "NODE_SEARCH" THEN Prompt
                  ELSE IF console.word = console.words
                  THEN [console EXCEPT !.at = "register"]
                  ELSE [console EXCEPT !.at = "read", !.word = @ + 1]
    /\ UNCHANGED <<idVars, mapVars, searchId, hops, kill_search, queryVars, aborted>>

RegisterSearch ==
    /\ Running
    /\ console.at = "register"
    /\ searches' = searches \cup {console.search}
    /\ console' = IF console.type = "NODE_SEARCH"
                  THEN [console EXCEPT !.at = "start"] ELSE Prompt
    /\ UNCHANGED <<idVars, sub_searches, subVars, queryVars, aborted>>

(***************************************************************************)
(* search_kill.  A search with sub-searches lives on, for they hold        *)
(* shared_ptrs to it; a search without is destroyed, and ~search unlocks a *)
(* mutex that nobody has locked.                                           *)
(***************************************************************************)
remove_search(m) ==
    /\ Running
    /\ console = Prompt
    /\ m \in searches
    /\ searches' = searches \ {m}
    /\ MayAbort(sub_searches[m] = NoSubs)
    /\ UNCHANGED <<idVars, sub_searches, console, subVars, queryVars>>

Console ==
    \/ \E words \in 0 .. MaxWords : StartSearch("KEY_SEARCH", words)
    \/ StartSearch("NODE_SEARCH", 1)
    \/ ReadId \/ WriteId \/ InsertSub \/ ConsoleJoins \/ StartThread \/ RegisterSearch
    \/ \E m \in Searches : remove_search(m)

-----------------------------------------------------------------------------
\* The thread of sub-search s.

\* Faulty variant of CheckRound: as in do ... while(!giveUpSearch() && !kill_search).
CheckRoundLate(s) ==
    /\ Running
    /\ pc[s] = "head"
    /\ pc' = [pc EXCEPT ![s] = IF hops[s] > max_hops + 1 \/ kill_search[s]
                               THEN "done" ELSE "advance"]
    /\ UNCHANGED <<idVars, mapVars, console, searchId, hops, kill_search,
                   queryVars, aborted>>

\* while(!giveUpSearch() && !kill_search)
CheckRound(s) ==
    /\ Running
    /\ pc[s] = "head"
    /\ pc' = [pc EXCEPT ![s] = IF hops[s] > max_hops \/ kill_search[s]
                               THEN "done" ELSE "advance"]
    /\ UNCHANGED <<idVars, mapVars, console, searchId, hops, kill_search,
                   queryVars, aborted>>

IsFound(s) ==
    /\ searchId[s] \in DOMAIN sub_searches[s[1]]
    /\ sub_searches[s[1]][searchId[s]] = s

Without(map, id) == [i \in DOMAIN map \ {id} |-> map[i]]

\* Faulty variant of BeginAdvance: the entry of the last round stays.
BeginAdvanceKeeps(s) ==
    /\ Running
    /\ pc[s] = "advance"
    /\ ~Advancing(s[1])
    /\ IsFound(s)
    /\ searchId' = [searchId EXCEPT ![s] = next_sub_search_id]
    /\ pc' = [pc EXCEPT ![s] = "number"]
    /\ UNCHANGED <<idVars, mapVars, console, hops, kill_search, queryVars, aborted>>

\* search::advance as far as it reads next_sub_search_id: find and erase.
BeginAdvance(s) ==
    /\ Running
    /\ pc[s] = "advance"
    /\ ~Advancing(s[1])
    /\ IsFound(s)
    /\ sub_searches' = [sub_searches EXCEPT ![s[1]] = Without(@, searchId[s])]
    /\ searchId' = [searchId EXCEPT ![s] = next_sub_search_id]
    /\ pc' = [pc EXCEPT ![s] = "number"]
    /\ UNCHANGED <<idVars, searches, console, hops, kill_search, queryVars, aborted>>

\* find returns end(), or assert(ss == subsrch.get()) fails.
FailAssert(s) ==
    /\ Running
    /\ pc[s] = "advance"
    /\ ~Advancing(s[1])
    /\ ~IsFound(s)
    /\ aborted' = IF searchId[s] \in DOMAIN sub_searches[s[1]]
                  THEN "assert" ELSE "undefined"
    /\ UNCHANGED <<idVars, mapVars, console, subVars, queryVars>>

\* The queries of the round, which carry its id.
Asked(s) == asked \cup {[id |-> searchId[s], sub |-> s]}

(***************************************************************************)
(* The rest of advance, and the round: the new id is stored and entered,   *)
(* still under sub_searches_lock; so is the join of a sub-search that had  *)
(* it, which has no thread to join before start().                         *)
(***************************************************************************)
EndAdvance(s) ==
    /\ Running
    /\ pc[s] = "number"
    /\ next_sub_search_id' = searchId[s] + 1
    /\ LET m == s[1]
           r == Replaced(m, s)
       IN  /\ sub_searches' = [sub_searches EXCEPT ![m] = Entered(m, s)]
           /\ kill_search' = Killed(r)
           /\ pc' = [pc EXCEPT ![s] = IF r = {} THEN "head" ELSE "join"]
           /\ asked' = IF r = {} THEN Asked(s) ELSE asked
           /\ aborted' = IF \E t \in r : pc[t] = "none" THEN "undefined" ELSE "no"
    /\ hops' = [hops EXCEPT ![s] = @ + 1]
    /\ UNCHANGED <<next_master_search_id, searches, console, searchId, strays>>

ThreadJoins(s) ==
    /\ Running
    /\ pc[s] = "join"
    /\ Joined(s)
    /\ pc' = [pc EXCEPT ![s] = "head"]
    /\ asked' = Asked(s)
    /\ UNCHANGED <<idVars, mapVars, console, searchId, hops, kill_search,
                   strays, aborted>>

Run(s) == CheckRound(s) \/ BeginAdvance(s) \/ FailAssert(s) \/ EndAdvance(s)
          \/ ThreadJoins(s)

-----------------------------------------------------------------------------
\* Faulty variant of handle_search_result: sub-searches are found by their own
\* id alone, in whatever search.
handle_result_anywhere(q) ==
    /\ Running
    /\ q \in asked
    /\ \E m \in searches :
          LET to == { sub_searches[m][id] : id \in {q.id} \cap DOMAIN sub_searches[m] }
          IN  /\ strays' = strays \cup ({q.sub} \X (to \ {q.sub}))
              /\ MayAbort(Advancing(m))
    /\ UNCHANGED <<idVars, mapVars, console, subVars, asked>>

(***************************************************************************)
(* A pool thread with an answer to q, which may come late, again or never. *)
(* It holds searches_lock, but not sub_searches_lock.                      *)
(***************************************************************************)
handle_search_result(q) ==
    /\ Running
    /\ q \in asked
    /\ LET m  == q.sub[1]
           to == { sub_searches[m][id] : id \in {q.id} \cap DOMAIN sub_searches[m] }
       IN  /\ m \in searches
           /\ strays' = strays \cup ({q.sub} \X (to \ {q.sub}))
           /\ MayAbort(Advancing(m))
    /\ UNCHANGED <<idVars, mapVars, console, subVars, asked>>

Next ==
    \/ Console
    \/ \E s \in Subs : Run(s)
    \/ \E q \in asked : handle_search_result(q)

Spec == Init /\ [][Next]_vars

-----------------------------------------------------------------------------
\* No sub-search advances more than max_hops + 1 times, whatever its answers
\* and ids are (search_manager.cpp:32-35, 60, 288); and all has its type.
TypeOK ==
    /\ next_master_search_id \in 0 .. MaxSearches
    /\ next_sub_search_id \in Nat
    /\ searches \subseteq Searches
    /\ \A m \in Searches : \A id \in DOMAIN sub_searches[m] :
          id \in Nat /\ sub_searches[m][id] \in Subs /\ sub_searches[m][id][1] = m
    /\ console \in {Prompt} \cup Command
    /\ pc \in [Subs -> {"none", "head", "advance", "number", "join", "done"}]
    /\ searchId \in [Subs -> Nat]
    /\ hops \in [Subs -> 0 .. max_hops + 1]
    /\ kill_search \in [Subs -> BOOLEAN]
    /\ asked \subseteq Query
    /\ strays \subseteq Subs \X Subs
    /\ aborted \in {"no", "assert", "undefined"}

(***************************************************************************)
(* Whatever ids repeat, because next_sub_search_id is incremented by       *)
(* several threads at once: the map has each sub-search under the id of    *)
(* its round, and nothing else, but for those that a repeated id has       *)
(* killed (search_manager.cpp:273-289, 403, 437).                          *)
(***************************************************************************)
MapMatchesIds ==
    Running =>
        /\ \A s \in Subs : pc[s] \notin {"none", "number"} /\ ~kill_search[s] => IsFound(s)
        /\ \A m \in Searches : \A id \in DOMAIN sub_searches[m] :
              /\ searchId[sub_searches[m][id]] = id
              /\ ~kill_search[sub_searches[m][id]]

\* Search m has no second sub-search (yet).
Sole(m) ==
    /\ \A s \in Subs : s[1] = m /\ s[2] # 1 => pc[s] = "none"
    /\ ~(console # Prompt /\ console.search = m /\ console.word # 1)

(***************************************************************************)
(* A search of one word, and a node search, is safe from the ids that      *)
(* other searches take: its sub-search is never killed, and its responses  *)
(* answer its own queries (search_manager.cpp:283, 354-365).               *)
(***************************************************************************)
SoleSearchesAreSafe ==
    \A m \in Searches :
        Sole(m) => /\ ~kill_search[<<m, 1>>]
                   /\ \A stray \in strays : stray[2] # <<m, 1>>

\* assert(ss == subsrch.get()) (search_manager.cpp:279): advance finds the
\* sub-search it is called for under its id.
AssertsHold == aborted # "assert"

=============================================================================
