# Spatter in TLA+

Spatter is a peer-to-peer file sharing program: a Kademlia-like table of nodes
in buckets by bit distance, searches that ask ever nearer nodes over UDP, and a
local table of the files that other nodes have published. This directory holds
TLA+ modules of one node, from `main` to the lists it keeps, TLC configurations
that check them on small instances, and TLAPS proofs of the properties that
matter most, for every size.

Paths below are relative to `src/src/`.

## 1. The system

| component | code | state | operations |
|---|---|---|---|
| hashes, node records | `dht/protocol/messages.hpp`, `util/util.cpp` | `bits_in_16bits` | `init_util`, `bit_distance`, the equalities of records |
| routing table | `dht/NodeQueue.cpp` | `buckets`, one lock each; `next_message_id` | `mark_seen`, `get_better_nodes`, `ping_all` |
| sub-search | `dht/protocol/search_manager.*`, class `sub_search` | `hops`, `searchId`, `next_deadline`, `next_nodes_queue`, `pq`, `responses` and its flag, `results` | the thread `run`, `add_response`, the constructor |
| search registry | the same, class `search` and `searches` | `searches`, `sub_searches` of each, two id counters | `start_search`, `advance`, `handle_search_result`, `find_search`, `remove_search` |
| file table | `dht/DHT.cpp` | `hashTable`, a shared lock | `insertFileInfoRecord`, `query` |
| control protocol | `dht/protocol/control_protocol.cpp` | `buffer_`, `unacknowledged_pings`, the socket | `handle_receive_from`, `handle_message`, `udp_send`, `ping` |
| console | `ui/console_ui.cpp` | none of its own | `share`, `search`, `search_result`, `search_kill`, `quit` |
| configuration | `Config.cpp` | `props` in memory, `spatter.conf` on disk | `load_config`, `get_param`, `load_friends_list`, `save_config` |
| start-up, shutdown | `main.cpp` | the thread pool | `main` |
| Tiger hash | `lib/tigertree/` (vendored) | none | `tiger` |

**Who runs what.** A pool of threads runs `handle_receive_from`, and through it
`handle_message`, `handle_search`, `handle_search_result`,
`insertFileInfoRecord` and `mark_seen`. Each sub-search has a thread of its own
(`run`). The console is one thread, `main` another. They share the buckets (a
lock per bucket), `hashTable` (a shared mutex), `searches` (`searches_lock`),
each search's `sub_searches` (`sub_searches_lock`, not taken by everybody), each
sub-search's queues (`_lock`, `_mut`, not taken by everybody), and
`unacknowledged_pings` and the id counters, which no lock protects.

**How a search goes.** `start_search` makes a `sub_search` per word. Its
constructor takes the nodes that `get_better_nodes` finds, and its thread goes
through rounds: `advance` gives the round a fresh `searchId`, a query goes to
each queued node, and the thread waits for responses until `next_deadline`. A
pool thread that gets an answer looks the search and the round up and adds the
response; `run` inserts the nodes it suggests in `next_nodes_queue`, for the next
round. After `max_hops` rounds the search is over. `share` is a node search
followed by a publish message to the nearest node that was asked.

**What is hard.** The shared structures are used partly inside and partly
outside their locks; answers are lost, duplicated, late and out of order;
deadlines race with answers; walks over the table take one lock at a time;
look-up and insertion take a lock each; the list algorithms insert, erase and
advance at the edges of their lists; ids repeat, since nothing protects their
counters; the console starts before and the pool threads end after what they
use; a process that ends while it saves leaves half a file. `PROJECT.json` lists
these hazards at their lines with the properties that cover them, and says of
the others why none does.

**What makes each part correct.**

* *Routing table*: bucket i holds nodes at distance i, each address once, the
  most recently seen ones, and nobody is evicted without a ping; a look-up
  finds the nearest node and `ping_all` reaches everyone although others change
  the table meanwhile.
* *Sub-search*: it ends; no response is left unnoticed; a response is handled in
  the round that asked; the queue stays sorted, free of repetitions and bounded,
  with the nearest suggestion first; a removed search gets no more responses.
* *Registry*: whatever ids repeat, a sub-search is found under its round's id or
  has been killed by another one of its search, and a search with one sub-search
  has nothing to fear.
* *File table*: what is inserted is found; nothing disappears; nothing twice.
* *Control protocol*: every message is handled as it arrived; pings and their
  replies match; senders are marked as seen.
* *Share*: the command ends, and the file goes to a node no farther than any
  the search started from, unless the console looks at a wrong moment.
* *Configuration, start-up, shutdown*: the parameters survive every end of the
  process but one that comes during a save; quit ends the process.
* *Hashes*: the distance computed from the table is the number of bits that differ.

## 2. The modules

| module | models | lines of code it stands for |
|---|---|---|
| `Messages` | hashes as sets of the positions of 1 bits, `bit_distance`, equality of node records | `messages.hpp:25-98`, `util.cpp:56-99` |
| `Distance` | `init_util` and `bit_distance` as computed, from a table of half words | `util.cpp:18, 56-99` |
| `NodeLists` | the list algorithms as operators: `OfferBetter` (get_better_nodes), `QueueSuggestion` (run), `StartQueuesOf` (the constructor) | `NodeQueue.cpp:69-116`, `search_manager.cpp:129-163, 236-254` |
| `NodeTable` | the routing table and its callers | `NodeQueue.cpp` |
| `ControlProtocol` | the pool threads, the pings and main, over `NodeTable` | `control_protocol.cpp`, `NodeQueue.cpp:29-47, 126-139`, parts of `Config.cpp` and `main.cpp` |
| `SubSearch` | one sub-search with pool threads, console, network and clock | `search_manager.cpp` |
| `Share` | the console command share over `SubSearch` | `console_ui.cpp:51-145` |
| `SearchRegistry` | searches of several sub-searches, their ids and maps | `search_manager.cpp:20-90, 203-220, 264-289, 348-470` |
| `Lifecycle` | a node from start to exit, again and again: main, the parameters on disk, the console thread | `main.cpp`, `Config.cpp`, `console_ui.cpp:26-50, 177-183` |
| `RecordStore` | what the file table promises (abstract) | `DHT.cpp:60-103` |
| `FileTable` | the file table | `DHT.cpp:60-103` |
| `MCNodeTable`, `MCControlProtocol`, `MCSubSearch`, `MCShare`, `MCSearchRegistry`, `MCFileTable`, `MCLifecycle` | the small instances for TLC | |
| `NodeListProofs`, `NodeTableProofs`, `ControlProtocolProofs`, `PingProofs`, `SubSearchProofs`, `SearchRegistryProofs`, `FileTableProofs`, `LifecycleProofs` | the theorems | |

`NodeTable` and `SubSearch` extend `NodeLists`, which extends `Messages`. `Share`
extends `SubSearch`, and `Lifecycle` extends `Distance`, which extends `Messages`.
`ControlProtocol` instantiates `NodeTable` as `Table` with its own variables, and
`FileTable` instantiates `RecordStore`. Operators named `...Swapped`,
`...Twice`, `...Late` and the like, introduced as "Faulty variant of ...", are
never used by a specification: they are plausible bugs of the definition that
follows them, and `PROJECT.json` ("mutants") pairs each property with one that
violates it.

### SubSearch

The thread of the sub-search is the variable `pc`:

    head -> send -> listen -> wait -> copied -> process -> listen
                          \-> head                  (deadline passed)
    head -> TERMINATED                              (hops > max_hops)

`Advance` is the head of the outer loop and `search::advance`, `SendQueries`
:66-89, `Listen` the loop condition :91, `WaitTimesOut` and `CopyResponses` the
timed wait, `ClearResponses` :112-114, `ProcessSuggestion` and `ProcessFiles` one
iteration of the loops over responses. The copy and the clear are two steps
because `add_response` pushes without `_mut`; the flag is set under `_mut`, so
`SignalResponse` is barred while `pc = "copied"`. A pool thread goes through
`Receive` (the look-ups of `handle_search_result`, under `searches_lock`, hence
one pool thread at a time), `PushResponse` and `SignalResponse`.

* *Time.* `next_deadline` is only compared with `time(NULL)`. The pair is one
  flag, `expired`: `DeadlinePasses` sets it, `ClearResponses` (:113) resets it.
  A timed wait begins no earlier than `next_deadline` was set, with the same
  timeout, so it only times out once `expired` holds.
* *Round ids.* The id of a round is its number. That ids of different
  sub-searches may be the same is the business of `SearchRegistry`.
* *`kill_search`* stays false: only the destructor sets it, and a search and its
  sub-searches hold `shared_ptr`s to each other, so that no destructor runs
  unless an id repeats, which `SearchRegistry` models.
* *Undefined behaviour.* Where the build may read freed memory or break a list
  (the erase under the iterator :152-154, the unlocked look-up :361, the
  unlocked push :41) the step either does what it would do undisturbed or ends
  in `pc = "crashed"`. A look-up that misses an id because of the race is
  the loss of an answer.
* *The network.* `inflight` holds the queries whose answer may still come. An
  answer may be received, again (up to `MaxDuplicates`), in any order, or be
  lost, as may the query. An answer's nodes are sorted by distance and hold
  neither the asked node nor this one: that is what `handle_search` sends
  (:317-320).
* *The start queue* is any that `StartQueuesOf` computes from a routing table.
  `list::sort` is given an `operator<` that is no order, so every order is
  allowed; the advance past the end wraps around libstdc++'s ring of links.

The history `heard` records what the properties speak of and guards nothing.

Rounds after a first round that timed out do not wait: `next_deadline` is set by
the constructor and renewed only when a response is handled (:113), so that :91
is false at once. The comment at :70, in the loop over the rounds, says "send
search queries and wait for responses": `LaterRoundsWait` states this, and the
run `waits` finds it violated. `OnlyFirstRoundListens`, which is proved and not a
property of a run, is the extent of the defect: no later round ever listens.
What follows from it contradicts no statement and is checked as it is: only two
rounds ask anybody (`TwoRoundsOfQueries`), no answer is handled in a wrong round
(`HandledInItsRound`), and `share` sees an empty queue.

### Share

`share` is polling, publishing or done, for one word of the path (each starts a
search of its own, one after the other). `SharePoll` is a turn of the loop
:75-136: `done && ...` starts from false and stays so, so that only an empty
queue makes it publish; it waits for `searches_lock`, which a pool thread holds
while it adds a response. `SharePublish` sorts `pq` and sends to its first
`publish_redundancy` entries. `pq.sort()` may put entries of the same distance in
any order. Both may break a list that `run` changes at that moment. The walk over
`sub_searches` (`console_ui.cpp:106-107`) takes no lock: while `advance` is
between its erase and its insert (`Advancing`) it finds the map with the one
sub-search empty, and the file goes to nobody, although it enters the local
table and the command is done (`missed`). The queue is
empty after the first round's queries, and in the later rounds; that it stays
empty often enough to be seen is because later rounds do not listen.
`start_queue` and `missed` are histories.

### SearchRegistry

A sub-search is named by its search and its word; what the code knows it by,
`searchId`, is state. The thread of a sub-search:

    head -> advance -> number -> head              (another round)
       \-> done              \-> join -> head      (its new id was in use)

`BeginAdvance` and `EndAdvance` are `advance` up to and after the read of
`next_sub_search_id`; `ReadId` and `WriteId` are the same two halves in the
constructor, on the console. Nothing orders them but the lock of each search,
so that two sub-searches may take the same id. `sub_searches` holds the only
lasting `shared_ptr`s to sub-searches: one whose entry another one replaces
(`Replaced`) is destroyed, which sets its `kill_search` and waits for its thread
(`ThreadJoins`, `ConsoleJoins`). `FailAssert` is the `assert` of :279, and the
use of `end()` when `find` finds nothing. `start_search(h, type)` registers the
search before the thread starts, `start_search(query)` after all its threads
have; a query may have no word. `handle_search_result` looks an answer up by the
ids that its query carried; `asked` holds the queries, whose answers may come at
any time, again, or never; `strays` is the history of the answers that reached
another sub-search than the one that asked.

A killed sub-search is destroyed by whoever drops the last `shared_ptr`; that
this may be a pool thread which has just looked it up is left out. A thread that
waits for a killed one while it holds `sub_searches_lock`, and the killed one
for that lock, wait for ever: `SearchRegistry` has this state, and no property
denies it.

### Lifecycle and Distance

`main` goes through

    off -> init_util -> load_config -> make_dht -> load_friends_list
        -> start_console -> read_pool_size -> create -> ping_all -> join_console
        -> interrupt -> save_config -> write -> return -> off

and the process may end at any of these, by an exception, by undefined
behaviour, or because somebody kills it. What outlives it is `file`. A parameter
is usable or not for what main does with it. `get_param` inserts the key it does
not find (`WithRead`), so that a later save writes it. The file is truncated in
`OpenConfig`, and is not a long one then, and written line by line, in the order
of a hash table (`WriteLine`); any of the lines may make it a long one again.
`load_config` throws at a line without "=", and writes behind its buffer when
the file has 512 bytes. An exception of `create` is caught, and what then calls
the protocol does so through a null pointer (`PingAll`, `ConsoleCommand`). The
comment at `main.cpp:76` says "Wait for all threads in the pool to exit", but
`interrupt` neither waits nor interrupts `io_service::run`: `Return` may end in
undefined behaviour while `pool` is true.

`Distance` has the table of `init_util` as a recursive function and the distance
as the sum over words of two look-ups. `Lifecycle` runs `init_util` and computes
distances with the table there is; `DistanceCountsBits` compares them with
`bit_distance` of `Messages`, on which all other modules rest.

### NodeTable

`mark_seen` runs under one bucket lock, ping included, and is one step. The two
walks take one bucket lock at a time, so each bucket is a step (`ScanBucket`,
`PingBucket`), and anything may happen between. `calls` holds where each thread
is; `pinged` is the output of the last step; `recency` (the addresses
seen, the latest first) and, in `calls`, `lasting` and `done` are histories. Any
thread may call any operation, which includes the threads of the program.
`MarkOutOfRange` is `mark_seen` for a node at distance `HASH_BITS`, for which the
arrays have no element; nothing is said of the state after it.

### ControlProtocol

Every pool thread is at a place, `pc[t]`, and works on a `job[t]`:

    idle -> copy -> listen -> handle -> mark -> idle             (nobody evicted)
         \-> listen -> idle    (an error)   \-> read -> write -> insert -> send -> idle

`Dispatch` is the call of `handle_receive_from` for the completed receive
operation, `Copy` the `memcpy` to `localBuffer`, `Listen` the next
`async_receive_from`, `HandleMessage`, `HandleRequest` and `HandleReply` the cases
of `handle_message`, and `Mark` is `mark_seen`: the step `Table!mark_seen` of
`NodeTable`, and what follows from whom it evicts. The ping of an evicted node
is then made step by step: `ReadId` and `WriteId` are the two halves of
`next_message_id++`, which no lock protects, `InsertPing` is the insertion in
`unacknowledged_pings`, `SendPing` is `udp_send`. A thread that makes pings still
holds the lock of its bucket (`job[t].holds`), and `Mark` and `PingBucket` wait
for it (`Unlocked`). This node is skipped in `WriteId`, after its id was used up.

main goes through `friends -> create -> ping_all -> join`. `LoadFriend` is one
iteration of `load_friends_list`; a friend that evicts another one is pinged
through a `control_protocol` that does not exist yet, and the process is past
anything that can be said of it (`Ended("undefined")`). `PingBucket` pings all
of a bucket under its lock, with the same four steps.

* *The socket* has one receive operation, `socket`, and one `buffer_`. A datagram
  is its place in the history `received`.
* *Messages* are of the kinds "message" (publish, search, search result, whose
  effects are those of `FileTable` and `SubSearch`), "request" (a ping) and
  "reply". A reply answers a ping that was sent, comes from a node with its
  address, and may come again.
* *Equal pings.* Two pings are equal when id, receiver and time stamp are. The
  time stamp is in seconds: two pings of one id and receiver may have the same
  one or not, so `InsertPing` may insert or not, and a reply may erase either.
* *Undefined behaviour.* Two threads inside `unacknowledged_pings` at once may
  leave anything behind (`Clash`). An address that cannot be resolved ends the
  process by an exception (`CannotResolve`).
* *Histories.* `received`, `handled`, `pings`, `sent`, and in the datagrams
  `answers` and `after`, record what the properties speak of.

### FileTable and RecordStore

`insertFileInfoRecord` is `FindKey` under the shared lock, then `InsertKey` or
`AppendRecord` under the unique lock. The iterator found under the first lock is
used under the second, when another insertion may have rehashed the table:
`UseStaleIterator` is the crash that may follow. An absent key and an empty list
are the same value, since the code never stores an empty list. `RecordStore`
keeps only the set of stored records and the insertions going on.

## 3. The runs

| run | instance | checks | shows |
|---|---|---|---|
| `rounds` | 7 nodes, one of them this node itself, queue of 3, max_hops 2, 1 duplicate, searches and share, fairness | `TypeOK`, `QueueWellFormed`, `NearestAtHead`, `NoLostWakeup`, `TwoRoundsOfQueries`, `HandledInItsRound`, `RemovedIsDeaf`, `PublishedToNearest`, `Termination`, `ShareReturns` | the safety of a sub-search, also when its queue spills; that only two of its rounds ask; that it ends; that share ends, and publishes to nodes as near as those it began with, and to nobody only in the cases the property names |
| `discards` | as `rounds`, max_hops 1 | `NoResponseDiscarded` | **violated**: a response is cleared unread (finding) |
| `waits` | as `discards`, fairness | `LaterRoundsWait` | **violated**: a later round asks and leaves (finding) |
| `starved` | tables of 1 to 4 nodes | `AsksSomeone` | **violated**: a search that asks nobody (finding) |
| `table` | 7 records, 4 addresses, 3-bit ids, bucketSize 3, alpha 3, 2 threads | `TypeOK`, `BucketsWellFormed`, `MostRecentKept`, `EvictedArePinged`, `ScanFindsNearest`, `ScanWellFormed`, `EveryoneIsPinged` | the buckets, and the walks against changes |
| `inserts` | 4 records, 2 keys, 3 threads | `TypeOK`, `ListsWellFormed`, `KeyIsFound`, `OnlyAppends`, `IsRecordStore` | the file table implements `RecordStore` |
| `published` | the same | `PublishedIsStored` | **violated**: a record is dropped (finding) |
| `pool` | 2 pool threads and main, 3 peers, 2 datagrams, 2 friends lists, bucketSize 3, fairness | `TypeOK`, `HandledAsReceived`, `RepliesAcknowledge`, `OnlyRepliesAcknowledge`, `SortedByCommunication`, `EverythingIsHandled` | from the socket to the table and the pings, and back to the socket |
| `pingers` | the same, 1 pool thread | `SendersAreSeen` | **violated**: who pings is not marked as seen (finding) |
| `registry` | 2 searches of up to 2 words, 3 sub-searches in all, max_hops 1 | `TypeOK`, `MapMatchesIds`, `SoleSearchesAreSafe` | what repeated ids can and cannot do |
| `asserts` | the same | `AssertsHold` | **violated**: two sub-searches under one id, and the assert of advance fails (finding) |
| `lifecycle` | 6 files, 5 keys, ids of two words of 4 bits | `TypeOK`, `ParametersSurvive`, `DistanceCountsBits`, `DamageIsPermanent`, `QuitEnds` | the parameters over starts, kills and crashes; quit; the table of bits |

**Why the bounds are enough.**

* *Sub-search.* Everything interesting happens within two rounds; `rounds` has
  three, so that a round with nothing to ask is reached. Two nodes at the same
  distance exercise the ties of the insertion loop and of the equal-entry loop;
  two answers with up to four other nodes make the queue of three spill, also
  past a nearer one. One duplicate is enough for an answer to be handled twice,
  or to come in another round. `MaxDuplicates` is also what lets `Termination` hold:
  each handled response extends the deadline, so that a network that repeats an
  answer for ever could keep the first round going for ever. The start queues are a node, this node itself,
  and none.
* *Routing table.* In `table` a bucket of two overflows (three addresses at one
  distance), an address has two ids in one bucket and in two, this node's own
  record is in the table, and one node is at the distance for which there is no
  bucket. Two threads suffice for one to walk while the other changes what it
  walks over; they mark nodes as seen without limit.
* *File table.* Three inserting threads are needed for one to find, one to create
  and one to append at a time.
* *Control protocol.* Two pool threads suffice for one to hold a bucket's lock,
  copy the buffer or be inside `unacknowledged_pings` while the other arrives
  there; main is a third one in `ping_all`. The three peers share a bucket of
  two, so that one is evicted and pinged; one friends list fills that bucket and
  is also in another one, the other overflows it before there is a protocol. Two
  datagrams suffice for a ping and its reply, a reply and its duplicate, and two
  messages handled at once. Errors of the receive operation are not bounded.
* *Registry.* Three sub-searches are two of one search and one of another: an id
  may be taken twice by the console and a thread, of the same search or not, and
  by the threads of two searches (those of one search share a lock). Two rounds
  suffice for an id to be given again after it was entered. Queries of no word
  are included.
* *Lifecycle.* Starts are not bounded. The files are a complete one, ones with an
  unusable port or pool size, one without some of the keys, one with an odd line
  and a long one. Two words of two half words are the least for a wrong shift or
  a missed word to show.

No symmetry is used: distances tell the nodes apart. Deadlock is not checked,
because each system really stops or goes on to where nothing is said of it: a
search terminates, a crash or an access behind the arrays ends everything, the
bounded network goes quiet, and threads that join each other under a lock wait
for ever (`SearchRegistry`). That nobody else does is said by `Termination`,
`ShareReturns`, `QuitEnds` and `EverythingIsHandled` instead.

**Fairness.** In `rounds` and `waits`: weak fairness of the sub-search's thread (a thread that
can run does), of a pool thread's `PushResponse` and `SignalResponse` (what it
has begun it finishes), of `DeadlinePasses` (time passes), and of `ShareStep`
(in `rounds`: the console goes on with its command). None of the network, of the user or of
the delivery of any answer. `_mut` is only held for the copy and clear, so that
waiting for it is no unfairness. In `lifecycle`: weak fairness of main, none of
the user. In `pool`: weak fairness of each pool thread and of main, none of the
network. Weak fairness is enough for a contended lock because the datagrams, and
with them the contention, are bounded in number.

**Order of communication.** Threads that handle datagrams at the same time may
mark their senders in either order. `SortedByCommunication` therefore compares
only what was over before the other was received.

**Not a run.** Pings never expire: the deadline of `control_protocol.cpp:97`,
from the `ping_timeout` of :11 ("ping timeout"), is compared with nothing. No
action of `ControlProtocol` but the handling of a reply takes a ping out.
Distances run from 0 to `HASH_BITS`, one more than there are buckets ("i'th queue
holds nodes distance=i apart", `NodeQueue.cpp:19`): `MarkOutOfRange` of `NodeTable`
is the access to `bucket_locks` and `buckets` one behind their ends (:35), which
takes a nodeId that differs from this node's in every one of 192 bits.

## 4. The theorems

TLAPS checks all of these from nothing in a few minutes. They hold for every
value of the constants that satisfies the named assumptions
(`SubSearchAssumption`, `ShareAssumption`, `NodeTableAssumption`,
`FileTableAssumption`, `ControlProtocolAssumption`, `SearchRegistryAssumption`,
`LifecycleAssumption`, `DistanceAssumption`, `HashBitsAssumption`), which say that
sizes are positive, distances natural (also those to the keys that are looked
up), answers sequences of known nodes, and records of known keys; and for the
control protocol, that main is no pool thread and that
every node has a bucket (what happens otherwise is in "Not a run" above). TLC evaluates
them in every run.

* **`SubSearchProofs`.** `RoundsInv`, inductive: the control state's types, that
  an expired deadline stays so after the first round (`DeadlineInv`), that
  queries carry the ids of rounds 1 and 2 only (`QueriesInv`), and that every
  response, wherever it is (queued, being added, copied), is of the round in
  which it can still be handled (`ResponsesInv`). The invariants of the runs are
  not inductive: that a later round never listens needs the deadline, which
  needs that nothing resets it, which needs that no later round handles a
  response. From it follow `FirstRoundListens`, `TwoRoundsOfQueriesOnly` and
  `ResponsesHandledInTheirRound`; the first of them says for every
  instance that no later round waits, which `waits` finds of one. `WakeupsAreKept` and `RemovedSearchIsDeaf` have
  short invariants of their own. `SharedRoundsAreRounds` carries the first three
  over to `Share`, whose console steps leave all of it alone
  (`ShareStepLeaves`), and `SharedSearchIsSound` all the others; a poll of
  share may crash a thread that has not sent its queue yet, so that nothing is
  said of the queue of a thread that crashes in its first round.
  `ShareSortsTheStart`: what the search started from is in
  its queue until it is in `pq`, so that share, which publishes only when it has
  seen an empty queue, has all of it to choose from. What it then takes, the
  nearest of the sorted list, gives `PublishesToNearest` (`PublishedInv`:
  what it has left out is no nearer, and a list that is not empty has a
  first entry; what is left is the walk that finds no sub-search). `QueueInv`, inductive beside `RoundsInv`, is about the queue of
  suggestions: `RoundsInv` says that suggestions are handled after the first
  queries were sent, `SuggestionKeepsOrder` of `NodeListProofs` what one of them
  does. From it `QueueIsWellFormed`, `NearestIsAtHead` and `TypeCorrect`.
  `ConstructorsQueue` is about the queue a search starts with, for every routing
  table: it has nodes of the table, none twice, and of the n that
  `get_better_nodes` found as many as `alpha % (n + 1)`. It is what
  `SubSearchAssumption` asks of `StartQueues`. `FullListAsksNobody` makes the
  finding of `starved` general: for every `alpha` beyond 1, a table in which the
  most nodes are found that ever are, `alpha - 1`, gives an empty queue.
* **`NodeListProofs`.** What the list algorithms do to every list. The
  insertion point of `run` is the first entry that is not nearer
  (`InsertionPointIs`); the loop that erases the equal entries leaves a selection
  of the list in its order (`WithoutSameSelects`, over `KthExists`: a set of
  positions has a k-th one); so a sorted queue without repetition stays one, and
  its head gets no farther, though it spills (`InsertionKeepsOrder`,
  `SuggestionKeepsOrder`). `OfferAllFindsNearest`: after any number of nodes were
  offered, the list of `get_better_nodes` is sorted, without repetition, fewer
  than `alpha` or one, made of what it was and of nodes that were allowed, and
  begins with the nearest of all. `UniqueSelects` and `CutAfterIs` are the
  `list::unique` and the advance of the constructor. `LeastNat` (a set of
  naturals has a least element) replaces induction; that a recursive function
  has the values that its equation says follows from a witness that is put
  together from finite prefixes (`UpTo`, `StepsExist`).
* **`SearchRegistryProofs`.** `RegistryInv`, inductive. `MapMatchesIds` alone is
  not: that a thread which enters its new id replaces only what the entry says
  needs that entries are those of sub-searches that exist (`MapInv`, and
  `ConsoleInv`: the one the console is making has no entry yet); that nobody
  enters a killed one needs that only another one of the same search kills
  (`KillInv`). From it `RegistryTypeCorrect`, `MapHasTheIds`, and, with
  `StrayInv`, `OneWordIsSafe`.
* **`LifecycleProofs`.** `FileInv` adds to `ParametersSurvive` what memory holds,
  for that is what is written, and what a half written file has, for it will be
  whole; from it `FileKeepsParameters`. `Doomed`, kept by every step, is the
  process that will fail for want of a port; from it `DamageLasts`. `StateInv`
  has the types, that memory has the lines still to be written, and that the
  table is complete once `init_util` has run; from it `StateIsTyped`.
  `DistanceIsHamming` goes from bits to sums: a number below a power of two is
  its bits (`BitsOf`, `HalfWord`), so an entry of the table counts the bits of
  its index (`TableCounts`), the exclusive or has the bits in which its arguments
  differ (`XorBits`), the two halves of a word together have all of them once
  (`WordDistanceCounts`), and the sum over the words is the size of the set of
  all (`WordsCountBits`, over `SumCountsPairs`: a sum of sizes is the size of
  the set of pairs).
* **`NodeTableProofs`.** `TableInv` relates each bucket to the history of its
  addresses: both are built by moving an element to the front
  (`MovedToFront`), from the same position, so that the bucket stays the first
  `bucketSize - 1` of the history (`LeastNat` finds the position). Results:
  `BucketsAreWellFormed`, `MostRecentAreKept`, `EvictionPings`. `WalkInv` adds that
  a `ping_all` has pinged the lasting nodes of the buckets behind it, which gives
  `PingAllPingsEveryone`, and that a look-up has nodes of the buckets behind it
  only (`Found`: no later bucket has one of them again), in order, and begins
  with one as near as each allowed lasting one of them (`FoundNearest`). With
  `OfferAllFindsNearest` for the step from bucket to bucket it gives
  `ScanReturnsNearest` and `ScansAreWellFormed`; and from both invariants
  `TypeCorrect`.
* **`ControlProtocolProofs`.** `DatagramInv`, inductive: what the threads and the
  receive operation are up to (`SocketInv`: at most one thread is between taking
  a datagram up and starting the next receive operation, which is why a shared
  buffer does no harm) and who serves which datagram (`ServeInv`).
  `HandledAsReceived` alone is not inductive: that the copy is of the right
  datagram needs that no other one can have arrived since. From it
  `ReceivedAreHandled`, and `TableIsImplemented`: every behaviour's table is a
  behaviour of `NodeTable`, whose theorems hold for it therefore
  (`TableIsSound`). `BucketsAreSorted`: `OrderInv` relates the history of a
  bucket's addresses to that of the datagrams, by way of the thread that is
  about to mark a sender (`MarkerInv`); a datagram that was received after all
  of a node's were over marks its sender after that node.
* **`PingProofs`.** `PingInv` says of each ping where it is on its way
  (`PingOrder`), of each reply that its ping was sent (`ReplyInv`), and of each
  ping either that no reply to it has been handled or that it is acknowledged or
  was made twice (`AcknowledgedInv`, `RemainingInv`). `RepliesAcknowledge` is not
  inductive: a reply that is handled, but not to the end, must count already, and
  no ping may be inserted after it was sent. From it `RepliesDoAcknowledge` and
  `NothingElseAcknowledges`. `WorkInv` (what each thread still has to do, and
  that two never hold one bucket's lock) and `DataInv` (what the histories and
  the network have) give, with the types of the table, `ProtocolIsTyped`.
* **`FileTableProofs`.** `TableInv` says that a found key stays found and a
  returned one is in the table; from it `TypeCorrect`, `NoRecordTwice`,
  `InsertedKeyIsFound`, `QueriesOnlyGrow`, and `ImplementsRecordStore`: the
  refinement, each step mapped to a step of `RecordStore` or to a stutter.

**Only model-checked.** Liveness: `Termination`, `ShareReturns`, `QuitEnds` and
`EverythingIsHandled`, which need fairness. The violations are counterexamples of
TLC; those of `starved` and `waits` have theorems that
make them general. Every other property of the runs is
proved.

## 5. Not modelled

* The Tiger hash, serialization, formatting, logging, readline and the parsing
  of commands and of the configuration's text: pure functions and I/O no
  property depends on.
* `valid_till`, `owner_publish_ts`: fields that nothing reads except an
  equality, and that the constructor leaves uninitialised.
* `search_timeout`, `redundancy` and other sizes whose value changes nothing.
* In `ControlProtocol`: malformed datagrams, on which the archive throws in a pool
  thread; the effects of publish and search messages, which are in `FileTable`
  and `SubSearch`; and that a node may call itself by another address than the
  one it was pinged at.
* In `SearchRegistry`: overflow of the ids after 2^32 rounds, and the pool thread
  that holds the last `shared_ptr` to a replaced sub-search.
* In `Lifecycle`: the second `get_param` of the port, whose value is the same as
  the first; a failure to open or to write the file; a disk that loses what was
  flushed.
* `sub_search_finished`, `ip_str_to_num`, `ip_num_to_str` and the streaming
  `calculate_hash`, which nobody calls.
* What the plan below still has.

## 6. Plan

In this order; each gets its MC module, runs, mutants and, where it says so,
proofs. Runs that ask the same of the same system are merged as it grows.

1. `NodeLists`, `SubSearch`, `NodeTable`, `FileTable`, `RecordStore` and their
   proofs (done).
2. `ControlProtocol` over `NodeTable`, with its proofs (done).
3. `SearchRegistry`, with its proofs (done).
4. `Share`: the console over `SubSearch`, with proofs of what it has to choose
   from (done).
5. `Distance`: `init_util` and `bit_distance` against the definition in
   `Messages` (done).
6. `Lifecycle`: start, shutdown, kills and restarts, and `Config`, with its
   proofs (done).
7. `Spatter`: two nodes, each with `NodeTable`, `FileTable` and a sub-search,
   exchanging messages.
8. Proofs of the queue of a sub-search and of what share publishes to (done).
9. Proofs of `SortedByCommunication` and of every `TypeOK`, of what look-ups
   return, and of the distance (done).
10. Proofs about the composition of 7.
