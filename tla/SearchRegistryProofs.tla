------------------------ MODULE SearchRegistryProofs ------------------------
(***************************************************************************)
(* Theorems about the search registry, for any number of searches, words   *)
(* and rounds.                                                             *)
(***************************************************************************)
EXTENDS SearchRegistry, TLAPS

\* The console has entered a sub-search that it has not started yet.
Inserted ==
    \/ console.at \in {"join", "start"}
    \/ console.at = "register" /\ console.type = "NODE_SEARCH"

\* s has no thread yet, but will have.
Waits(s) == Inserted /\ s = ConsoleSub

\* s has been entered, and is not between two ids.
Held(s) == pc[s] \notin {"none", "number"} \/ Waits(s)

\* Subs and maps are what they seem.
ShapeInv ==
    /\ sub_searches = [m \in Searches |-> sub_searches[m]]
    /\ \A s \in Subs : pc[s] \in {"advance", "number"} => hops[s] <= max_hops

\* Only started sub-searches have threads, and the console starts each once.
ConsoleInv ==
    /\ \A s \in Subs : s[1] >= next_master_search_id => pc[s] = "none"
    /\ console # Prompt =>
          /\ console.search < next_master_search_id
          /\ \A s \in Subs :
                s[1] = console.search /\ s[2] > console.word => pc[s] = "none"
          /\ \/ console.at = "register" /\ console.type = "KEY_SEARCH"
             \/ console.word <= console.words /\ pc[ConsoleSub] = "none"

\* Whom a sub-search may have been killed by, and have got responses of.
KillInv ==
    \A t \in Subs : kill_search[t] =>
        \E s \in Subs \ {t} : s[1] = t[1] /\ (pc[s] # "none" \/ Waits(s))

StrayInv ==
    /\ \A q \in asked : pc[q.sub] # "none"
    /\ \A stray \in strays :
          /\ stray[1] # stray[2]
          /\ stray[1][1] = stray[2][1]
          /\ pc[stray[1]] # "none"

\* The map has the sub-searches that are held, under their ids.
MapInv ==
    /\ \A s \in Subs : Held(s) /\ ~kill_search[s] => IsFound(s)
    /\ \A s \in Subs : pc[s] \in {"none", "number"} => ~kill_search[s]
    /\ \A m \in Searches : \A id \in DOMAIN sub_searches[m] :
          /\ searchId[sub_searches[m][id]] = id
          /\ ~kill_search[sub_searches[m][id]]
          /\ Held(sub_searches[m][id])

RegistryInv ==
    /\ TypeOK
    /\ ShapeInv
    /\ ConsoleInv
    /\ KillInv
    /\ StrayInv
    /\ Running => MapInv

LEMMA InitRegistry == Init => RegistryInv
<1> USE SearchRegistryAssumption
<1> SUFFICES ASSUME Init
             PROVE  RegistryInv
  OBVIOUS
<1>1. ~Inserted
  BY DEF Init, Inserted, Prompt
<1>2. \A s \in Subs : ~Waits(s)
  BY <1>1 DEF Waits
<1>3. \A m \in Searches : DOMAIN sub_searches[m] = {}
  BY DEF Init, NoSubs
<1>4. TypeOK
  BY <1>3 DEF Init, TypeOK
<1>5. ShapeInv /\ ConsoleInv /\ KillInv /\ StrayInv
  BY DEF Init, ShapeInv, ConsoleInv, KillInv, StrayInv
<1>6. MapInv
  BY <1>2, <1>3 DEF Init, MapInv, Held
<1> QED
  BY <1>4, <1>5, <1>6 DEF RegistryInv

-----------------------------------------------------------------------------
\* Whom an entry kills.
LEMMA ReplacedAre ==
  ASSUME RegistryInv, Running, NEW s \in Subs
  PROVE  /\ \A t \in Replaced(s[1], s) :
               /\ t \in Subs /\ t # s /\ t[1] = s[1]
               /\ searchId[t] = searchId[s] /\ Held(t)
         /\ \A t \in Subs : t # s /\ t[1] = s[1] /\ IsFound(t) /\ searchId[t] = searchId[s]
               => t \in Replaced(s[1], s)
         /\ \A id \in DOMAIN sub_searches[s[1]] :
               id # searchId[s] => sub_searches[s[1]][id] \notin Replaced(s[1], s)
BY DEF RegistryInv, MapInv, TypeOK, Replaced, IsFound, Subs

-----------------------------------------------------------------------------
(***************************************************************************)
(* A step in which no id and no map changes, no thread comes or goes but   *)
(* one that the console starts, and the console moves on or stays.         *)
(***************************************************************************)
LEMMA QuietStep ==
  ASSUME RegistryInv, Running, TypeOK', ConsoleInv', StrayInv',
         UNCHANGED <<sub_searches, searchId, kill_search, hops>>,
         \A s \in Subs : pc[s] # "none" => pc'[s] # "none",
         \A s \in Subs : pc'[s] = "number" <=> pc[s] = "number",
         \A s \in Subs : pc'[s] = "advance" => pc[s] = "advance" \/ hops[s] <= max_hops,
         \A s \in Subs : Held(s)' <=> Held(s),
         \A s \in Subs : pc'[s] = "none" => pc[s] = "none"
  PROVE  RegistryInv'
<1>1. ShapeInv'
  BY DEF RegistryInv, ShapeInv
<1>2. \A s \in Subs : (pc'[s] # "none" \/ Waits(s)') <=> (pc[s] # "none" \/ Waits(s))
  BY DEF Held
<1>3. KillInv'
  BY <1>2 DEF RegistryInv, KillInv
<1>4. MapInv'
  BY DEF RegistryInv, MapInv, IsFound, TypeOK
<1> QED
  BY <1>1, <1>3, <1>4 DEF RegistryInv

\* What the console works on, when it does.
LEMMA ConsoleWorks ==
  ASSUME RegistryInv, console # Prompt
  PROVE  /\ console \in Command
         /\ ConsoleSub[1] = console.search /\ ConsoleSub[2] = console.word
         /\ console.search \in Searches /\ console.word \in Nat \ {0}
         /\ ~(console.at = "register" /\ console.type = "KEY_SEARCH") =>
               ConsoleSub \in Subs /\ pc[ConsoleSub] = "none"
<1>1. console \in Command
  BY DEF RegistryInv, TypeOK
<1>2. console.words \in 0 .. MaxWords /\ console.word \in 1 .. MaxWords
  BY <1>1 DEF Command, Words
<1> QED
  BY <1>1, <1>2, SearchRegistryAssumption
     DEF RegistryInv, ConsoleInv, ConsoleSub, Subs, Command, Words

LEMMA StartSearchStep ==
  ASSUME RegistryInv, NEW type, NEW words \in 0 .. MaxWords,
         type \in {"NODE_SEARCH", "KEY_SEARCH"}, StartSearch(type, words)
  PROVE  RegistryInv'
<1> USE SearchRegistryAssumption
<1>1. next_master_search_id \in Searches /\ next_master_search_id' \in 0 .. MaxSearches
  BY DEF RegistryInv, TypeOK, StartSearch, Searches
<1>2. console' \in Command /\ console' # Prompt
      /\ console'.search = next_master_search_id /\ console'.word = 1
      /\ console'.words = words /\ console'.type = type
      /\ console'.at = IF words = 0 THEN "register" ELSE "read"
  BY <1>1 DEF StartSearch, Command, Words, Prompt
<1>3. TypeOK'
  BY <1>1, <1>2 DEF RegistryInv, TypeOK, StartSearch, idVars, mapVars, subVars, queryVars
<1>4. \A s \in Subs : s[1] \in Nat /\ s[2] \in Nat
  BY DEF Subs, Searches, Words
<1>5. ConsoleSub' \in Subs \/ words = 0
  BY <1>1, <1>2 DEF ConsoleSub, Subs, Words
<1>6. ConsoleInv'
  BY <1>1, <1>2, <1>4, <1>5 DEF RegistryInv, TypeOK, ConsoleInv, StartSearch, ConsoleSub, subVars
<1>7. StrayInv'
  BY DEF RegistryInv, StrayInv, StartSearch, subVars, queryVars
<1>8. ~Inserted /\ ~Inserted'
  BY <1>2 DEF StartSearch, Prompt, Inserted
<1>9. \A s \in Subs : Held(s)' <=> Held(s)
  BY <1>8 DEF Held, Waits, StartSearch, subVars
<1> QED
  BY <1>3, <1>6, <1>7, <1>9, QuietStep DEF StartSearch, mapVars, subVars, RegistryInv, ShapeInv

\* WriteId, ConsoleJoins, RegisterSearch: threads and ids stay as they are.
LEMMA ConsoleMovesOn ==
  ASSUME RegistryInv,
         WriteId \/ ConsoleJoins \/ RegisterSearch
  PROVE  RegistryInv'
<1>1. console # Prompt
  BY DEF WriteId, ConsoleJoins, RegisterSearch, Prompt
<1>2. UNCHANGED <<next_master_search_id, sub_searches, subVars, queryVars, aborted>> /\ Running
  BY DEF WriteId, ConsoleJoins, RegisterSearch, idVars, mapVars
<1>3. \/ console'.at = "register" /\ console.type = "NODE_SEARCH" /\ console.at = "join"
      \/ console'.at = "start" /\ Inserted
      \/ console'.at = "insert" /\ console.at = "write"
      \/ console.at = "register" /\ console.type = "KEY_SEARCH"
  BY <1>1, ConsoleWorks
     DEF WriteId, ConsoleJoins, RegisterSearch, AfterInsert, Command, Inserted
<1>4. CASE console.at = "register" /\ console.type = "KEY_SEARCH"
  <2>1. console' = Prompt
    BY <1>4 DEF WriteId, ConsoleJoins, RegisterSearch
  <2>2. ~Inserted /\ ~Inserted'
    BY <1>4, <2>1 DEF Inserted, Prompt
  <2>3. TypeOK'
    BY <1>1, <1>4, <2>1, ConsoleWorks
       DEF RegistryInv, TypeOK, RegisterSearch, WriteId, ConsoleJoins, idVars, mapVars,
           subVars, queryVars, Command
  <2>4. ConsoleInv' /\ StrayInv'
    BY <1>2, <2>1 DEF RegistryInv, ConsoleInv, StrayInv, subVars, queryVars
  <2>5. \A s \in Subs : Held(s)' <=> Held(s)
    BY <1>2, <2>2 DEF Held, Waits, subVars
  <2> QED
    BY <1>2, <2>3, <2>4, <2>5, QuietStep DEF subVars, RegistryInv, ShapeInv
<1>5. CASE ~(console.at = "register" /\ console.type = "KEY_SEARCH")
  <2>1. /\ console' \in Command /\ console' # Prompt
        /\ console'.search = console.search /\ console'.word = console.word
        /\ console'.words = console.words /\ console'.type = console.type
    <3>1. console' = [console EXCEPT !.at = console'.at]
      BY <1>1, <1>5, ConsoleWorks
         DEF WriteId, ConsoleJoins, RegisterSearch, Command
    <3> QED
      BY <1>1, <1>3, <1>5, <3>1, ConsoleWorks DEF Command, Prompt
  <2>2. TypeOK'
    BY <1>1, <1>2, <1>5, <2>1, ConsoleWorks
       DEF RegistryInv, TypeOK, RegisterSearch, WriteId, ConsoleJoins, idVars, mapVars,
           subVars, queryVars, Searches
  <2>3. ConsoleSub' = ConsoleSub
    BY <2>1 DEF ConsoleSub
  <2>4. ConsoleInv' /\ StrayInv'
    BY <1>1, <1>2, <1>5, <2>1, <2>3
       DEF RegistryInv, ConsoleInv, StrayInv, subVars, queryVars
  <2>5. Inserted' <=> Inserted
    BY <1>3, <1>5, <2>1 DEF Inserted
  <2>6. \A s \in Subs : Held(s)' <=> Held(s)
    BY <1>2, <2>3, <2>5 DEF Held, Waits, subVars
  <2> QED
    BY <1>2, <2>2, <2>4, <2>6, QuietStep DEF subVars, RegistryInv, ShapeInv
<1> QED
  BY <1>4, <1>5

LEMMA StartThreadStep ==
  ASSUME RegistryInv, StartThread
  PROVE  RegistryInv'
<1>1. console # Prompt /\ console.at = "start" /\ Running
  BY DEF StartThread, Prompt
<1>2. /\ console \in Command /\ ConsoleSub \in Subs /\ pc[ConsoleSub] = "none"
      /\ ConsoleSub[1] = console.search /\ ConsoleSub[2] = console.word
      /\ console.search \in Searches /\ console.word \in Nat \ {0}
  BY <1>1, ConsoleWorks
<1>3. console.word <= console.words /\ console.words \in 0 .. MaxWords
      /\ console.search < next_master_search_id
  BY <1>1, <1>2 DEF RegistryInv, ConsoleInv, Command
<1>4. pc' = [pc EXCEPT ![ConsoleSub] = "head"] /\ DOMAIN pc = Subs
  BY DEF StartThread, RegistryInv, TypeOK
<1>5. \A s \in Subs : s[1] \in Nat /\ s[2] \in Nat
  BY DEF Subs, Searches, Words
<1>6. \A s \in Subs : s = <<s[1], s[2]>>
  BY DEF Subs
<1>7. \/ console' = Prompt
      \/ console' = [console EXCEPT !.at = "register"] /\ console.type # "NODE_SEARCH"
      \/ console' = [console EXCEPT !.at = "read", !.word = @ + 1]
         /\ console.word # console.words
  BY DEF StartThread
<1>8. \/ console' = Prompt
      \/ /\ console' \in Command /\ console' # Prompt
         /\ console'.search = console.search /\ console'.words = console.words
         /\ \/ console'.word = console.word /\ console'.at = "register"
               /\ console'.type = "KEY_SEARCH"
            \/ console'.word = console.word + 1 /\ console'.at = "read"
               /\ console.word < console.words
  <2>1. CASE console' = [console EXCEPT !.at = "register"] /\ console.type # "NODE_SEARCH"
    BY <1>2, <2>1 DEF Command, Prompt
  <2>2. CASE console' = [console EXCEPT !.at = "read", !.word = @ + 1]
             /\ console.word # console.words
    <3>1. console.word + 1 \in Words /\ console.word < console.words
      BY <1>2, <1>3, <2>2, SearchRegistryAssumption DEF Words
    <3> QED
      BY <1>2, <2>2, <3>1 DEF Command, Prompt
  <2> QED
    BY <1>7, <2>1, <2>2
<1>9. TypeOK'
  <2>1. console' \in {Prompt} \cup Command
    BY <1>8
  <2>2. pc' \in [Subs -> {"none", "head", "advance", "number", "join", "done"}]
    BY <1>4 DEF RegistryInv, TypeOK
  <2>3. TypeOK /\ UNCHANGED <<idVars, mapVars, searchId, hops, kill_search, queryVars, aborted>>
    BY DEF RegistryInv, StartThread
  <2> QED
    BY <2>1, <2>2, <2>3 DEF TypeOK, idVars, mapVars, queryVars
<1>10. StrayInv'
  BY <1>2, <1>4 DEF RegistryInv, StrayInv, TypeOK, Query, StartThread, queryVars
<1>11. ConsoleInv'
  <2>1. \A s \in Subs : s[1] >= next_master_search_id' => pc'[s] = "none"
    BY <1>2, <1>3, <1>4, <1>5 DEF RegistryInv, TypeOK, ConsoleInv, StartThread, idVars, Searches
  <2>2. ASSUME console' # Prompt
        PROVE  /\ console'.search < next_master_search_id'
               /\ \A s \in Subs :
                     s[1] = console'.search /\ s[2] > console'.word => pc'[s] = "none"
    BY <1>1, <1>2, <1>3, <1>4, <1>5, <1>8, <2>2
       DEF RegistryInv, TypeOK, ConsoleInv, StartThread, idVars
  <2>3. ASSUME console' # Prompt, console'.at = "read"
        PROVE  console'.word <= console'.words /\ pc'[ConsoleSub'] = "none"
    <3>1. ConsoleSub' = <<console.search, console.word + 1>>
      BY <1>8, <2>3 DEF ConsoleSub
    <3>2. console.word + 1 \in Words /\ console.word + 1 <= console.words
      BY <1>2, <1>3, <1>8, <2>3, SearchRegistryAssumption DEF Words
    <3>3. ConsoleSub' \in Subs /\ ConsoleSub' # ConsoleSub
      BY <1>2, <3>1, <3>2 DEF Subs
    <3>4. pc[ConsoleSub'] = "none"
      BY <1>1, <1>2, <3>1, <3>3 DEF RegistryInv, ConsoleInv
    <3> QED
      BY <1>4, <1>8, <2>3, <3>2, <3>3, <3>4
  <2> QED
    BY <1>8, <2>1, <2>2, <2>3 DEF ConsoleInv
<1>12. \A s \in Subs : Held(s)' <=> Held(s)
  <2>1. ~Inserted'
    BY <1>8 DEF Inserted, Prompt
  <2>2. Inserted
    BY <1>1 DEF Inserted
  <2> QED
    BY <1>2, <1>4, <2>1, <2>2 DEF Held, Waits
<1> QED
  BY <1>1, <1>2, <1>4, <1>9, <1>10, <1>11, <1>12, QuietStep
     DEF StartThread, mapVars, RegistryInv, ShapeInv, KillInv

LEMMA RemoveStep ==
  ASSUME RegistryInv, NEW m \in Searches, remove_search(m)
  PROVE  RegistryInv'
<1>1. UNCHANGED <<idVars, sub_searches, console, subVars, queryVars>> /\ Running
      /\ searches' \subseteq searches /\ aborted' \in {"no", "undefined"}
  BY DEF remove_search, MayAbort
<1>2. TypeOK' /\ ConsoleInv' /\ StrayInv'
  BY <1>1 DEF RegistryInv, TypeOK, ConsoleInv, StrayInv, ConsoleSub, idVars, subVars, queryVars
<1>3. \A s \in Subs : Held(s)' <=> Held(s)
  BY <1>1 DEF Held, Waits, Inserted, ConsoleSub, subVars
<1> QED
  BY <1>1, <1>2, <1>3, QuietStep DEF subVars, RegistryInv, ShapeInv

LEMMA AnswerStep ==
  ASSUME RegistryInv, NEW q \in asked, handle_search_result(q)
  PROVE  RegistryInv'
<1>1. UNCHANGED <<idVars, mapVars, console, subVars, asked>> /\ Running
      /\ aborted' \in {"no", "undefined"}
  BY DEF handle_search_result, MayAbort
<1>2. q.sub \in Subs /\ q.sub[1] \in Searches
  BY DEF RegistryInv, TypeOK, Query, Subs
<1>3. \A stray \in strays' \ strays :
         /\ stray \in Subs \X Subs
         /\ stray[1] = q.sub /\ stray[2] # q.sub /\ stray[2][1] = q.sub[1]
  BY <1>2 DEF handle_search_result, RegistryInv, TypeOK
<1>4. TypeOK' /\ ConsoleInv' /\ StrayInv'
  BY <1>1, <1>3
     DEF RegistryInv, TypeOK, ConsoleInv, StrayInv, ConsoleSub, idVars, mapVars, subVars
<1>5. \A s \in Subs : Held(s)' <=> Held(s)
  BY <1>1 DEF Held, Waits, Inserted, ConsoleSub, subVars
<1> QED
  BY <1>1, <1>4, <1>5, QuietStep DEF mapVars, subVars, RegistryInv, ShapeInv

\* CheckRound and ThreadJoins: the thread of s goes on, and may have sent queries.
LEMMA ThreadGoesOn ==
  ASSUME RegistryInv, NEW s \in Subs, CheckRound(s) \/ ThreadJoins(s)
  PROVE  RegistryInv'
<1>1. /\ UNCHANGED <<idVars, mapVars, console, searchId, hops, kill_search, strays, aborted>>
      /\ Running /\ pc[s] \in {"head", "join"}
      /\ asked' \in {asked, Asked(s)}
  BY DEF CheckRound, ThreadJoins, queryVars
<1>2. \E p \in {"done", "advance", "head"} :
         /\ pc' = [pc EXCEPT ![s] = p]
         /\ p = "advance" => hops[s] <= max_hops
  BY SearchRegistryAssumption DEF CheckRound, ThreadJoins, RegistryInv, TypeOK
<1>3. PICK p \in {"done", "advance", "head"} :
         /\ pc' = [pc EXCEPT ![s] = p]
         /\ p = "advance" => hops[s] <= max_hops
  BY <1>2
<1>4. /\ pc' \in [Subs -> {"none", "head", "advance", "number", "join", "done"}]
      /\ pc'[s] = p /\ \A t \in Subs \ {s} : pc'[t] = pc[t]
  BY <1>3 DEF RegistryInv, TypeOK
<1>5. \A q \in asked' : q \in asked \/ (q \in Query /\ q.sub = s)
  <2>1. searchId[s] \in Nat
    BY DEF RegistryInv, TypeOK
  <2>2. [id |-> searchId[s], sub |-> s] \in Query
    BY <2>1 DEF Query
  <2> QED
    BY <1>1, <2>2 DEF Asked
<1>6. TypeOK' /\ StrayInv'
  BY <1>1, <1>4, <1>5 DEF RegistryInv, TypeOK, StrayInv, Query, idVars, mapVars
<1>7. ConsoleInv'
  <2>1. \A t \in Subs : pc[t] = "none" => pc'[t] = "none"
    BY <1>1, <1>4
  <2>2. console # Prompt =>
          \/ ConsoleSub \in Subs
          \/ console.at = "register" /\ console.type = "KEY_SEARCH"
    BY ConsoleWorks
  <2> QED
    BY <1>1, <2>1, <2>2 DEF RegistryInv, ConsoleInv, ConsoleSub, idVars
<1>8. \A t \in Subs : Held(t)' <=> Held(t)
  BY <1>1, <1>4 DEF Held, Waits, Inserted, ConsoleSub
<1> QED
  BY <1>1, <1>3, <1>4, <1>6, <1>7, <1>8, QuietStep DEF mapVars

-----------------------------------------------------------------------------
\* The steps that change ids and maps.

LEMMA ReadIdStep ==
  ASSUME RegistryInv, ReadId
  PROVE  RegistryInv'
<1>1. /\ console # Prompt /\ console.at = "read" /\ Running
      /\ UNCHANGED <<idVars, mapVars, pc, hops, kill_search, queryVars, aborted>>
      /\ console' = [console EXCEPT !.at = "write"]
  BY DEF ReadId, Prompt
<1>2. console \in Command /\ ConsoleSub \in Subs /\ pc[ConsoleSub] = "none"
  BY <1>1, ConsoleWorks
<1>3. /\ searchId' = [searchId EXCEPT ![ConsoleSub] = next_sub_search_id]
      /\ next_sub_search_id \in Nat /\ searchId \in [Subs -> Nat]
  BY DEF ReadId, RegistryInv, TypeOK
<1>4. /\ console' \in Command /\ console' # Prompt /\ console'.at = "write"
      /\ console'.search = console.search /\ console'.word = console.word
      /\ console'.words = console.words
  BY <1>1, <1>2 DEF Command, Prompt
<1>5. ConsoleSub' = ConsoleSub /\ ~Inserted /\ ~Inserted'
  BY <1>1, <1>4 DEF ConsoleSub, Inserted
<1>6. TypeOK' /\ ShapeInv' /\ StrayInv'
  <2>1. searchId' \in [Subs -> Nat]
    BY <1>3
  <2> QED
    BY <1>1, <1>4, <2>1
       DEF RegistryInv, TypeOK, ShapeInv, StrayInv, idVars, mapVars, queryVars
<1>7. ConsoleInv'
  BY <1>1, <1>2, <1>4, <1>5 DEF RegistryInv, ConsoleInv, idVars
<1>8. KillInv'
  BY <1>1, <1>5 DEF RegistryInv, KillInv, Waits
<1>9. \A s \in Subs : Held(s)' <=> Held(s)
  BY <1>1, <1>5 DEF Held, Waits
<1>10. ~Held(ConsoleSub) /\ \A s \in Subs : s # ConsoleSub => searchId'[s] = searchId[s]
  BY <1>2, <1>3, <1>5 DEF Held, Waits
<1>11. MapInv'
  BY <1>1, <1>9, <1>10 DEF RegistryInv, TypeOK, MapInv, IsFound, mapVars
<1> QED
  BY <1>6, <1>7, <1>8, <1>11 DEF RegistryInv

\* A thread takes itself out of the map of its search.
LEMMA BeginAdvanceStep ==
  ASSUME RegistryInv, NEW s \in Subs, BeginAdvance(s)
  PROVE  RegistryInv'
<1>1. /\ Running /\ pc[s] = "advance" /\ IsFound(s)
      /\ UNCHANGED <<idVars, searches, console, hops, kill_search, queryVars, aborted>>
  BY DEF BeginAdvance
<1>2. /\ s[1] \in Searches
      /\ next_sub_search_id \in Nat /\ searchId \in [Subs -> Nat] /\ hops[s] <= max_hops
  BY <1>1 DEF RegistryInv, TypeOK, ShapeInv, Subs
<1>3. /\ searchId' = [searchId EXCEPT ![s] = next_sub_search_id]
      /\ searchId'[s] = next_sub_search_id
      /\ \A t \in Subs \ {s} : searchId'[t] = searchId[t]
  BY <1>2 DEF BeginAdvance
<1>4. /\ pc' = [pc EXCEPT ![s] = "number"]
      /\ pc' \in [Subs -> {"none", "head", "advance", "number", "join", "done"}]
      /\ pc'[s] = "number" /\ \A t \in Subs \ {s} : pc'[t] = pc[t]
  BY DEF BeginAdvance, RegistryInv, TypeOK
<1>5. /\ sub_searches' = [sub_searches EXCEPT ![s[1]] = Without(@, searchId[s])]
      /\ sub_searches' = [m \in Searches |-> sub_searches'[m]]
      /\ \A m \in Searches \ {s[1]} : sub_searches'[m] = sub_searches[m]
      /\ DOMAIN sub_searches'[s[1]] = DOMAIN sub_searches[s[1]] \ {searchId[s]}
      /\ \A id \in DOMAIN sub_searches'[s[1]] :
            sub_searches'[s[1]][id] = sub_searches[s[1]][id]
  BY <1>2 DEF BeginAdvance, Without, RegistryInv, ShapeInv
<1>6. \A m \in Searches : \A id \in DOMAIN sub_searches'[m] :
         /\ id \in DOMAIN sub_searches[m]
         /\ sub_searches'[m][id] = sub_searches[m][id]
         /\ m = s[1] => id # searchId[s]
  BY <1>5
<1>7. TypeOK'
  BY <1>1, <1>2, <1>3, <1>4, <1>6 DEF RegistryInv, TypeOK, idVars, queryVars
<1>8. ShapeInv'
  BY <1>1, <1>2, <1>4, <1>5 DEF RegistryInv, ShapeInv
<1>9. \A t \in Subs : pc[t] = "none" <=> pc'[t] = "none"
  BY <1>1, <1>4
<1>10. \A t \in Subs : Waits(t)' <=> Waits(t)
  BY <1>1 DEF Waits, Inserted, ConsoleSub
<1>11. ConsoleInv'
  <2>1. console # Prompt =>
          \/ ConsoleSub \in Subs
          \/ console.at = "register" /\ console.type = "KEY_SEARCH"
    BY ConsoleWorks
  <2> QED
    BY <1>1, <1>9, <2>1 DEF RegistryInv, ConsoleInv, ConsoleSub, idVars
<1>12. KillInv' /\ StrayInv'
  BY <1>1, <1>9, <1>10 DEF RegistryInv, TypeOK, Query, KillInv, StrayInv, queryVars
<1>13. \A t \in Subs \ {s} : Held(t)' <=> Held(t)
  BY <1>4, <1>10 DEF Held
<1>14. ~Held(s)' /\ ~kill_search[s]
  <2>1. ~Waits(s)
    <3>1. Inserted => console # Prompt /\ pc[ConsoleSub] = "none"
      BY ConsoleWorks DEF Inserted, Prompt
    <3> QED
      BY <1>1, <3>1 DEF Waits
  <2> QED
    BY <1>1, <1>4, <1>10, <2>1 DEF Held, RegistryInv, MapInv, IsFound, Subs, TypeOK
<1>15. MapInv'
  <2>1. ASSUME NEW t \in Subs, Held(t)', ~kill_search'[t]
        PROVE  IsFound(t)'
    <3>1. t # s /\ IsFound(t)
      BY <1>1, <1>13, <1>14, <2>1 DEF RegistryInv, MapInv
    <3>2. t[1] = s[1] => searchId[t] # searchId[s]
      BY <1>1, <3>1 DEF IsFound
    <3> QED
      BY <1>3, <1>5, <3>1, <3>2 DEF IsFound, Subs
  <2>2. ASSUME NEW m \in Searches, NEW id \in DOMAIN sub_searches'[m],
               NEW t, t = sub_searches'[m][id]
        PROVE  searchId'[t] = id /\ ~kill_search'[t] /\ Held(t)'
    <3>1. /\ id \in DOMAIN sub_searches[m] /\ t = sub_searches[m][id]
          /\ t \in Subs /\ t[1] = m /\ searchId[t] = id
          /\ ~kill_search[t] /\ Held(t)
      BY <1>1, <1>6, <2>2 DEF RegistryInv, TypeOK, MapInv
    <3>2. t # s
      BY <1>6, <2>2, <3>1
    <3> QED
      BY <1>1, <1>3, <1>13, <3>1, <3>2
  <2>3. \A t \in Subs : pc'[t] \in {"none", "number"} => ~kill_search'[t]
    BY <1>1, <1>4, <1>14 DEF RegistryInv, MapInv
  <2> QED
    BY <2>1, <2>2, <2>3 DEF MapInv, Held, Waits
<1> QED
  BY <1>7, <1>8, <1>11, <1>12, <1>15 DEF RegistryInv

\* s enters the map of its search, and kills whom it finds under its id.
LEMMA EnterStep ==
  ASSUME RegistryInv, Running, NEW s \in Subs, ~Held(s), ~kill_search[s],
         sub_searches' = [sub_searches EXCEPT ![s[1]] = Entered(s[1], s)],
         kill_search' = Killed(Replaced(s[1], s)),
         searchId' = searchId,
         Held(s)',
         \A t \in Subs \ {s} : Held(t)' <=> Held(t)
  PROVE  /\ sub_searches' = [m \in Searches |-> sub_searches'[m]]
         /\ \A m \in Searches : \A id \in DOMAIN sub_searches'[m] :
               id \in Nat /\ sub_searches'[m][id] \in Subs /\ sub_searches'[m][id][1] = m
         /\ kill_search' \in [Subs -> BOOLEAN]
         /\ \A t \in Subs : kill_search'[t] =>
               kill_search[t] \/ (t # s /\ t[1] = s[1] /\ t \in Replaced(s[1], s))
         /\ (\A t \in Subs : pc'[t] \in {"none", "number"} => ~kill_search'[t]) => MapInv'
<1>1. s[1] \in Searches /\ searchId[s] \in Nat /\ kill_search \in [Subs -> BOOLEAN]
  BY DEF RegistryInv, TypeOK, Subs
<1>2. /\ sub_searches' = [m \in Searches |-> sub_searches'[m]]
      /\ sub_searches'[s[1]] = Entered(s[1], s)
      /\ \A m \in Searches \ {s[1]} : sub_searches'[m] = sub_searches[m]
  BY <1>1 DEF RegistryInv, ShapeInv
<1>3. /\ DOMAIN sub_searches'[s[1]] = DOMAIN sub_searches[s[1]] \cup {searchId[s]}
      /\ sub_searches'[s[1]][searchId[s]] = s
      /\ \A id \in DOMAIN sub_searches[s[1]] :
            id # searchId[s] => sub_searches'[s[1]][id] = sub_searches[s[1]][id]
  BY <1>2 DEF Entered
<1>4. \A t \in Subs : kill_search'[t] <=> kill_search[t] \/ t \in Replaced(s[1], s)
  BY <1>1 DEF Killed
<1>5. kill_search' \in [Subs -> BOOLEAN]
  <2>1. \A t \in Subs : (kill_search[t] \/ t \in Replaced(s[1], s)) \in BOOLEAN
    BY <1>1
  <2> QED
    BY <2>1 DEF Killed
<1>6. \A t \in Replaced(s[1], s) : t \in Subs /\ t # s /\ t[1] = s[1]
  BY ReplacedAre
<1>7. ASSUME NEW m \in Searches, NEW id \in DOMAIN sub_searches'[m],
             NEW t, t = sub_searches'[m][id]
      PROVE  /\ id \in Nat /\ t \in Subs /\ t[1] = m /\ searchId'[t] = id
             /\ Held(t)' /\ ~kill_search'[t]
  <2>1. CASE m = s[1] /\ id = searchId[s]
    BY <1>1, <1>3, <1>4, <1>6, <1>7, <2>1
  <2>2. CASE ~(m = s[1] /\ id = searchId[s])
    <3>1. id \in DOMAIN sub_searches[m] /\ t = sub_searches[m][id]
      BY <1>2, <1>3, <1>7, <2>2
    <3>2. /\ id \in Nat /\ t \in Subs /\ t[1] = m /\ searchId[t] = id
          /\ ~kill_search[t] /\ Held(t)
      BY <3>1 DEF RegistryInv, TypeOK, MapInv
    <3>3. t \notin Replaced(s[1], s)
      BY <2>2, <3>2, ReplacedAre
    <3> QED
      BY <1>4, <3>2, <3>3
  <2> QED
    BY <2>1, <2>2
<1>8. ASSUME NEW t \in Subs, Held(t)', ~kill_search'[t]
      PROVE  IsFound(t)'
  <2>1. CASE t = s
    BY <1>1, <1>3, <2>1 DEF IsFound
  <2>2. CASE t # s
    <3>1. IsFound(t) /\ t \notin Replaced(s[1], s)
      BY <1>4, <1>8, <2>2 DEF RegistryInv, MapInv
    <3>2. t[1] = s[1] => searchId[t] # searchId[s]
      BY <2>2, <3>1, ReplacedAre
    <3>3. t[1] \in Searches
      BY DEF Subs
    <3> QED
      BY <1>2, <1>3, <3>1, <3>2, <3>3 DEF IsFound
  <2> QED
    BY <2>1, <2>2
<1>9. (\A t \in Subs : pc'[t] \in {"none", "number"} => ~kill_search'[t]) => MapInv'
  BY <1>7, <1>8 DEF MapInv, Held, Waits
<1> QED
  BY <1>2, <1>4, <1>5, <1>6, <1>7, <1>9

LEMMA InsertSubStep ==
  ASSUME RegistryInv, InsertSub
  PROVE  RegistryInv'
<1>0. PICK s : s = ConsoleSub
  OBVIOUS
<1>1. /\ console # Prompt /\ console.at = "insert" /\ Running
      /\ UNCHANGED <<idVars, searches, pc, searchId, hops, queryVars>>
      /\ aborted' \in {"no", "undefined"}
  BY DEF InsertSub, Prompt, MayAbort
<1>2. /\ console \in Command /\ s \in Subs /\ pc[s] = "none"
      /\ s[1] = console.search
  BY <1>0, <1>1, ConsoleWorks
<1>3. /\ sub_searches' = [sub_searches EXCEPT ![s[1]] = Entered(s[1], s)]
      /\ kill_search' = Killed(Replaced(s[1], s))
      /\ console' = [console EXCEPT !.at = IF Replaced(s[1], s) = {}
                                           THEN AfterInsert ELSE "join"]
  BY <1>0, <1>2 DEF InsertSub
<1>4. /\ console' \in Command /\ console' # Prompt
      /\ console'.search = console.search /\ console'.word = console.word
      /\ console'.words = console.words /\ console'.type = console.type
      /\ \/ console'.at \in {"join", "start"}
         \/ console'.at = "register" /\ console'.type = "NODE_SEARCH"
  BY <1>2, <1>3 DEF Command, Prompt, AfterInsert
<1>5. ConsoleSub' = s /\ ~Inserted /\ Inserted'
  BY <1>0, <1>1, <1>4 DEF ConsoleSub, Inserted
<1>6. ~Held(s) /\ Held(s)' /\ Waits(s)'
  BY <1>0, <1>2, <1>5 DEF Held, Waits
<1>7. \A t \in Subs \ {s} : Held(t)' <=> Held(t)
  BY <1>0, <1>1, <1>5 DEF Held, Waits
<1>8. ~kill_search[s]
  BY <1>1, <1>2 DEF RegistryInv, MapInv
<1>9. /\ sub_searches' = [m \in Searches |-> sub_searches'[m]]
      /\ \A m \in Searches : \A id \in DOMAIN sub_searches'[m] :
            id \in Nat /\ sub_searches'[m][id] \in Subs /\ sub_searches'[m][id][1] = m
      /\ kill_search' \in [Subs -> BOOLEAN]
      /\ \A t \in Subs : kill_search'[t] =>
            kill_search[t] \/ (t # s /\ t[1] = s[1] /\ t \in Replaced(s[1], s))
      /\ (\A t \in Subs : pc'[t] \in {"none", "number"} => ~kill_search'[t]) => MapInv'
  BY <1>1, <1>2, <1>3, <1>6, <1>7, <1>8, EnterStep
<1>10. TypeOK'
  BY <1>1, <1>4, <1>9 DEF RegistryInv, TypeOK, idVars, queryVars
<1>11. ShapeInv' /\ StrayInv'
  BY <1>1, <1>9 DEF RegistryInv, ShapeInv, StrayInv, queryVars
<1>12. ConsoleInv'
  BY <1>0, <1>1, <1>2, <1>4, <1>5 DEF RegistryInv, ConsoleInv, idVars
<1>13. KillInv'
  BY <1>0, <1>1, <1>2, <1>5, <1>6, <1>9 DEF RegistryInv, KillInv, Waits
<1>14. \A t \in Subs : pc'[t] \in {"none", "number"} => ~kill_search'[t]
  <2>1. \A t \in Replaced(s[1], s) : pc[t] \notin {"none", "number"}
    BY <1>0, <1>1, <1>2, <1>5, ReplacedAre DEF Held, Waits
  <2> QED
    BY <1>1, <1>9, <2>1 DEF RegistryInv, MapInv
<1> QED
  BY <1>9, <1>10, <1>11, <1>12, <1>13, <1>14 DEF RegistryInv

LEMMA EndAdvanceStep ==
  ASSUME RegistryInv, NEW s \in Subs, EndAdvance(s)
  PROVE  RegistryInv'
<1>1. /\ Running /\ pc[s] = "number"
      /\ UNCHANGED <<next_master_search_id, searches, console, searchId, strays>>
      /\ next_sub_search_id' = searchId[s] + 1
      /\ sub_searches' = [sub_searches EXCEPT ![s[1]] = Entered(s[1], s)]
      /\ kill_search' = Killed(Replaced(s[1], s))
      /\ asked' \in {asked, Asked(s)}
      /\ hops' = [hops EXCEPT ![s] = @ + 1]
      /\ aborted' = IF \E t \in Replaced(s[1], s) : pc[t] = "none" THEN "undefined" ELSE "no"
  BY DEF EndAdvance
<1>2. /\ searchId[s] \in Nat /\ hops[s] \in Nat /\ hops[s] <= max_hops
      /\ s[1] \in Searches
  BY <1>1, SearchRegistryAssumption DEF RegistryInv, TypeOK, ShapeInv, Subs
<1>3. PICK p \in {"head", "join"} : pc' = [pc EXCEPT ![s] = p]
  BY DEF EndAdvance
<1>4. /\ pc' \in [Subs -> {"none", "head", "advance", "number", "join", "done"}]
      /\ pc'[s] = p /\ \A t \in Subs \ {s} : pc'[t] = pc[t]
  BY <1>3 DEF RegistryInv, TypeOK
<1>5. \A t \in Subs : Waits(t)' <=> Waits(t)
  BY <1>1 DEF Waits, Inserted, ConsoleSub
<1>6. ~Held(s)
  <2>1. Inserted => console # Prompt /\ pc[ConsoleSub] = "none"
    BY ConsoleWorks DEF Inserted, Prompt
  <2> QED
    BY <1>1, <2>1 DEF Held, Waits
<1>7. Held(s)' /\ ~kill_search[s] /\ \A t \in Subs \ {s} : Held(t)' <=> Held(t)
  BY <1>1, <1>4, <1>5 DEF Held, RegistryInv, MapInv
<1>8. /\ sub_searches' = [m \in Searches |-> sub_searches'[m]]
      /\ \A m \in Searches : \A id \in DOMAIN sub_searches'[m] :
            id \in Nat /\ sub_searches'[m][id] \in Subs /\ sub_searches'[m][id][1] = m
      /\ kill_search' \in [Subs -> BOOLEAN]
      /\ \A t \in Subs : kill_search'[t] =>
            kill_search[t] \/ (t # s /\ t[1] = s[1] /\ t \in Replaced(s[1], s))
      /\ (\A t \in Subs : pc'[t] \in {"none", "number"} => ~kill_search'[t]) => MapInv'
  BY <1>1, <1>6, <1>7, EnterStep
<1>9. \A q \in asked' : q \in asked \/ (q \in Query /\ q.sub = s)
  <2>1. [id |-> searchId[s], sub |-> s] \in Query
    BY <1>2 DEF Query
  <2> QED
    BY <1>1, <2>1 DEF Asked
<1>10. hops' \in [Subs -> 0 .. max_hops + 1] /\ \A t \in Subs \ {s} : hops'[t] = hops[t]
  BY <1>1, <1>2, SearchRegistryAssumption DEF RegistryInv, TypeOK
<1>11. TypeOK'
  BY <1>1, <1>2, <1>4, <1>8, <1>9, <1>10 DEF RegistryInv, TypeOK
<1>12. ShapeInv'
  BY <1>4, <1>8, <1>10 DEF RegistryInv, ShapeInv
<1>13. StrayInv'
  BY <1>1, <1>4, <1>9 DEF RegistryInv, TypeOK, Query, StrayInv
<1>14. ConsoleInv'
  <2>1. \A t \in Subs : pc[t] = "none" => pc'[t] = "none"
    BY <1>1, <1>4
  <2>2. console # Prompt =>
          \/ ConsoleSub \in Subs
          \/ console.at = "register" /\ console.type = "KEY_SEARCH"
    BY ConsoleWorks
  <2> QED
    BY <1>1, <2>1, <2>2 DEF RegistryInv, ConsoleInv, ConsoleSub
<1>15. KillInv'
  BY <1>1, <1>4, <1>5, <1>8 DEF RegistryInv, KillInv
<1>16. ASSUME Running'
       PROVE  \A t \in Subs : pc'[t] \in {"none", "number"} => ~kill_search'[t]
  <2>1. \A t \in Replaced(s[1], s) : pc[t] # "none"
    BY <1>1, <1>16 DEF Running
  <2>2. \A t \in Replaced(s[1], s) : pc[t] # "number"
    <3>1. Inserted => console # Prompt /\ pc[ConsoleSub] = "none"
      BY ConsoleWorks DEF Inserted, Prompt
    <3> QED
      BY <1>1, <3>1, ReplacedAre DEF Held, Waits
  <2> QED
    BY <1>1, <1>4, <1>8, <2>1, <2>2 DEF RegistryInv, MapInv
<1> QED
  BY <1>8, <1>11, <1>12, <1>13, <1>14, <1>15, <1>16 DEF RegistryInv

\* The process has ended.
LEMMA FailAssertStep ==
  ASSUME RegistryInv, NEW s \in Subs, FailAssert(s)
  PROVE  RegistryInv'
<1>1. /\ UNCHANGED <<idVars, mapVars, console, subVars, queryVars>>
      /\ aborted' \in {"assert", "undefined"}
  BY DEF FailAssert
<1>2. ~Running'
  BY <1>1 DEF Running
<1> QED
  BY <1>1, <1>2
     DEF RegistryInv, TypeOK, ShapeInv, ConsoleInv, KillInv, StrayInv, Waits, Inserted,
         ConsoleSub, idVars, mapVars, subVars, queryVars

-----------------------------------------------------------------------------
LEMMA StepRegistry == RegistryInv /\ [Next]_vars => RegistryInv'
<1> SUFFICES ASSUME RegistryInv, [Next]_vars
             PROVE  RegistryInv'
  OBVIOUS
<1>1. ASSUME NEW words \in 0 .. MaxWords, StartSearch("KEY_SEARCH", words)
      PROVE  RegistryInv'
  BY <1>1, StartSearchStep
<1>2. CASE StartSearch("NODE_SEARCH", 1)
  BY <1>2, StartSearchStep, SearchRegistryAssumption
<1>3. CASE ReadId
  BY <1>3, ReadIdStep
<1>4. CASE WriteId \/ ConsoleJoins \/ RegisterSearch
  BY <1>4, ConsoleMovesOn
<1>5. CASE InsertSub
  BY <1>5, InsertSubStep
<1>6. CASE StartThread
  BY <1>6, StartThreadStep
<1>7. ASSUME NEW m \in Searches, remove_search(m)
      PROVE  RegistryInv'
  BY <1>7, RemoveStep
<1>8. ASSUME NEW s \in Subs, Run(s)
      PROVE  RegistryInv'
  BY <1>8, ThreadGoesOn, BeginAdvanceStep, FailAssertStep, EndAdvanceStep DEF Run
<1>9. ASSUME NEW q \in asked, handle_search_result(q)
      PROVE  RegistryInv'
  BY <1>9, AnswerStep
<1>10. CASE UNCHANGED vars
  BY <1>10
     DEF vars, idVars, mapVars, subVars, queryVars, RegistryInv, TypeOK, ShapeInv, ConsoleInv,
         ConsoleSub, KillInv, StrayInv, MapInv, Held, Waits, Inserted, IsFound, Running
<1> QED
  BY <1>1, <1>2, <1>3, <1>4, <1>5, <1>6, <1>7, <1>8, <1>9, <1>10 DEF Next, Console

THEOREM RegistryInvariant == Spec => []RegistryInv
<1>1. Init => RegistryInv
  BY InitRegistry
<1>2. RegistryInv /\ [Next]_vars => RegistryInv'
  BY StepRegistry
<1> QED
  BY <1>1, <1>2, PTL DEF Spec

(***************************************************************************)
(* The state of the registry is type correct; in particular no sub-search  *)
(* advances more than max_hops + 1 times, whatever becomes of its ids      *)
(* (search_manager.cpp:32-35, 60, 288).                                    *)
(***************************************************************************)
THEOREM RegistryTypeCorrect == Spec => []TypeOK
<1>1. RegistryInv => TypeOK
  BY DEF RegistryInv
<1> QED
  BY <1>1, RegistryInvariant, PTL

(***************************************************************************)
(* A sub-search is under its id in the map of its search, unless a         *)
(* repeated id has killed it, and the map has nothing else                 *)
(* (search_manager.cpp:273-289, 403, 437).                                 *)
(***************************************************************************)
THEOREM MapHasTheIds == Spec => []MapMatchesIds
<1>1. RegistryInv => MapMatchesIds
  BY DEF RegistryInv, MapInv, MapMatchesIds, Held
<1> QED
  BY <1>1, RegistryInvariant, PTL

(***************************************************************************)
(* A search with one sub-search is not hurt by ids that repeat             *)
(* (search_manager.cpp:283, 354-365): who kills a sub-search, and who      *)
(* takes its answers, is another sub-search of the same search.            *)
(***************************************************************************)
THEOREM OneWordIsSafe == Spec => []SoleSearchesAreSafe
<1>1. ASSUME RegistryInv, NEW m \in Searches, Sole(m)
      PROVE  /\ ~kill_search[<<m, 1>>]
             /\ \A stray \in strays : stray[2] # <<m, 1>>
  <2>1. <<m, 1>> \in Subs
    BY SearchRegistryAssumption DEF Subs, Words
  <2>2. \A s \in Subs \ {<<m, 1>>} : s[1] = m => pc[s] = "none" /\ ~Waits(s)
    <3>1. ASSUME NEW s \in Subs \ {<<m, 1>>}, s[1] = m
          PROVE  pc[s] = "none" /\ ~Waits(s)
      <4>1. s = <<m, s[2]>> /\ s[2] # 1
        BY <3>1 DEF Subs
      <4>2. Waits(s) => console # Prompt /\ console.search = m /\ console.word # 1
        BY <4>1 DEF Waits, Inserted, Prompt, ConsoleSub
      <4> QED
        BY <1>1, <3>1, <4>1, <4>2 DEF Sole
    <3> QED
      BY <3>1
  <2>3. ~kill_search[<<m, 1>>]
    BY <1>1, <2>1, <2>2 DEF RegistryInv, KillInv
  <2>4. ASSUME NEW stray \in strays, stray[2] = <<m, 1>>
        PROVE  FALSE
    <3>1. stray[1] \in Subs \ {<<m, 1>>} /\ stray[1][1] = m /\ pc[stray[1]] # "none"
      BY <1>1, <2>4 DEF RegistryInv, TypeOK, StrayInv
    <3> QED
      BY <2>2, <3>1
  <2> QED
    BY <2>3, <2>4
<1>2. RegistryInv => SoleSearchesAreSafe
  BY <1>1 DEF SoleSearchesAreSafe
<1> QED
  BY <1>2, RegistryInvariant, PTL

=============================================================================
