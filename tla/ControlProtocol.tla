-------------------------- MODULE ControlProtocol ---------------------------
(***************************************************************************)
(* control_protocol.cpp over the routing table: the pool threads that take *)
(* datagrams out of the one socket, handle them and mark their senders as  *)
(* seen; the pings that mark_seen and ping_all make; and main, which loads *)
(* the friends, creates the protocol and pings everyone.                   *)
(*                                                                         *)
(* NodeTable says what a step does to the buckets and whom it pings.  Here *)
(* the pings of such a step are made one after the other, under the lock   *)
(* of its bucket.                                                          *)
(***************************************************************************)
EXTENDS Messages, SequencesExt

CONSTANTS
    Self,           \* DHT::get()->getNode()
    Peers,          \* the other nodes, with their own nodeIds
    FriendLists,    \* friends lists, with the nodeIds made up in loading them
    Pool,           \* the threads that run io_service::run
    main,
    bucketSize,
    MaxReceived     \* bound: datagrams received

Threads == Pool \cup {main}
Nodes   == {Self} \cup Peers \cup UNION { ToSet(l) : l \in FriendLists }

ASSUME ControlProtocolAssumption ==
    /\ FriendLists \subseteq Seq(Nodes)
    /\ main \notin Pool
    /\ bucketSize \in Nat \ {0}
    /\ MaxReceived \in Nat
    /\ \A n \in Nodes : bit_distance(Self.nodeId, n.nodeId) \in 0 .. HASH_BITS - 1

VARIABLES
    buckets, calls, out_of_range, pinged, recency,      \* of NodeTable
    socket,         \* the receive operation: "closed", "armed", "done", "error"
    buffer_,        \* which datagram it holds, 0 for none
    pc,             \* where each thread is
    job,            \* what each thread works on
    next_message_id,
    unacknowledged_pings,
    friends,        \* the rest of the friends list that main loads
    received,       \* history: the datagrams, in the order they were received
    handled,        \* history: those whose handling has ended
    pings,          \* history: the pings made
    sent            \* history: those that udp_send has sent

tableVars == <<buckets, calls, out_of_range, pinged, recency>>
pingVars  == <<next_message_id, unacknowledged_pings, pings, sent>>
inVars    == <<socket, buffer_, received>>
vars      == <<tableVars, pingVars, inVars, pc, job, friends, handled>>

Table == INSTANCE NodeTable WITH Keys <- {}, alpha <- 1

(***************************************************************************)
(* A thread handles the completion of the receive of datagram "serves" (0: *)
(* of an error), with datagram "local" in its localBuffer.  It is to mark  *)
(* "node" as seen, to ping the nodes "to", and has ping number "ping" with *)
(* message id "id" under way, while it holds the locks of "holds".         *)
(***************************************************************************)
NoJob == [serves |-> 0, local |-> 0, node |-> Self, to |-> <<>>, id |-> 0,
          ping |-> 0, holds |-> {}]

\* main is about to load the friends list, and no other thread runs yet.
Init ==
    /\ Table!Init
    /\ socket = "closed"
    /\ buffer_ = 0
    /\ pc = [t \in Threads |-> IF t = main THEN "friends" ELSE "idle"]
    /\ job = [t \in Threads |-> NoJob]
    /\ next_message_id = 0
    /\ unacknowledged_pings = {}
    /\ friends \in FriendLists
    /\ received = <<>>
    /\ handled = {}
    /\ pings = <<>>
    /\ sent = {}

Goto(t, place) == pc' = [pc EXCEPT ![t] = place]

\* The process has ended, or is past anything that can be said of it.
Ended(how) ==
    /\ pc' = [t \in Threads |-> how]
    /\ socket' = "closed"

\* It ends so in this step.
End(how) ==
    /\ Ended(how)
    /\ UNCHANGED <<tableVars, pingVars, buffer_, received, job, friends, handled>>

\* Faulty variant of Unlocked: the lock is not taken.
UnlockedAlways(d) == TRUE

\* bucket_locks[d] can be taken.
Unlocked(d) == \A t \in Threads : d \notin job[t].holds

-----------------------------------------------------------------------------
(***************************************************************************)
(* The network.  A reply answers a ping that was sent, once or repeatedly. *)
(* The histories "answers" and "after" are that ping and the datagrams     *)
(* whose handling had ended when this one was received.                    *)
(***************************************************************************)
Arrivals ==
    { [kind |-> k, from |-> p, answers |-> 0, after |-> handled] :
          k \in {"message", "request"}, p \in Peers }
    \cup { [kind |-> "reply", from |-> p, answers |-> k, after |-> handled] :
          k \in sent, p \in Peers }

\* The receive operation completes with a datagram ...
Receive ==
    /\ socket = "armed"
    /\ Len(received) < MaxReceived
    /\ \E m \in Arrivals :
          /\ m.kind = "reply" => SameNode(m.from, pings[m.answers].to)
          /\ received' = Append(received, m)
    /\ buffer_' = Len(received')
    /\ socket' = "done"
    /\ UNCHANGED <<tableVars, pingVars, pc, job, friends, handled>>

\* ... or with an error, or an empty datagram.
ReceiveNothing ==
    /\ socket = "armed"
    /\ socket' = "error"
    /\ UNCHANGED <<tableVars, pingVars, buffer_, received, pc, job, friends,
                   handled>>

-----------------------------------------------------------------------------
\* Faulty variant of Dispatch: the next receive operation is started first.
DispatchArmed(t) ==
    /\ pc[t] = "idle"
    /\ socket \in {"done", "error"}
    /\ job' = [job EXCEPT ![t].serves = IF socket = "done" THEN Len(received) ELSE 0]
    /\ Goto(t, IF socket = "done" THEN "copy" ELSE "listen")
    /\ socket' = "armed"
    /\ UNCHANGED <<tableVars, pingVars, buffer_, received, friends, handled>>

\* handle_receive_from is called by a thread that has nothing else to do.
Dispatch(t) ==
    /\ pc[t] = "idle"
    /\ socket \in {"done", "error"}
    /\ job' = [job EXCEPT ![t].serves = IF socket = "done" THEN Len(received) ELSE 0]
    /\ Goto(t, IF socket = "done" THEN "copy" ELSE "listen")
    /\ socket' = "closed"
    /\ UNCHANGED <<tableVars, pingVars, buffer_, received, friends, handled>>

\* memcpy(localBuffer, buffer_, max_data)
Copy(t) ==
    /\ pc[t] = "copy"
    /\ job' = [job EXCEPT ![t].local = buffer_]
    /\ Goto(t, "listen")
    /\ UNCHANGED <<tableVars, pingVars, inVars, friends, handled>>

\* Faulty variant of Listen: the handler of an error returns at once.
ListenUnlessError(t) ==
    /\ pc[t] = "listen"
    /\ socket' = IF job[t].serves = 0 THEN socket ELSE "armed"
    /\ Goto(t, IF job[t].serves = 0 THEN "idle" ELSE "handle")
    /\ UNCHANGED <<tableVars, pingVars, buffer_, received, job, friends, handled>>

\* The next async_receive_from, then the return if there is nothing to handle.
Listen(t) ==
    /\ pc[t] = "listen"
    /\ socket' = "armed"
    /\ Goto(t, IF job[t].serves = 0 THEN "idle" ELSE "handle")
    /\ UNCHANGED <<tableVars, pingVars, buffer_, received, job, friends, handled>>

-----------------------------------------------------------------------------
\* The message in t's localBuffer.
Got(t) == received[job[t].local]

(***************************************************************************)
(* A publish, search or search result message.  What it does to the file   *)
(* table and to the searches is said in FileTable and SubSearch.           *)
(***************************************************************************)
HandleMessage(t) ==
    /\ pc[t] = "handle"
    /\ Got(t).kind = "message"
    /\ job' = [job EXCEPT ![t].node = Got(t).from]
    /\ Goto(t, "mark")
    /\ UNCHANGED <<tableVars, pingVars, inVars, friends, handled>>

(***************************************************************************)
(* A ping: the reply is sent, and pm.senderNode, which is overwritten for  *)
(* it, is then marked as seen.                                             *)
(***************************************************************************)
HandleRequest(t) ==
    /\ pc[t] = "handle"
    /\ Got(t).kind = "request"
    /\ job' = [job EXCEPT ![t].node = Self]
    /\ Goto(t, "mark")
    /\ UNCHANGED <<tableVars, pingVars, inVars, friends, handled>>

\* Faulty variant of Acknowledged: of any receiver.
AcknowledgedById(k, m) == pings[k].id = pings[m.answers].id

\* ping_message::operator== between ping k and the reply m, the nodes swapped.
Acknowledged(k, m) ==
    /\ pings[k].id = pings[m.answers].id
    /\ SameNode(pings[k].to, m.from)

\* Another thread is inserting into or erasing from unacknowledged_pings.
InUse(t) ==
    \E u \in Threads \ {t} :
        \/ pc[u] = "insert"
        \/ pc[u] = "handle" /\ Got(u).kind = "reply"

\* The reply to a ping erases the first ping found that equals it.
HandleReply(t) ==
    /\ pc[t] = "handle"
    /\ Got(t).kind = "reply"
    /\ LET found == { k \in unacknowledged_pings : Acknowledged(k, Got(t)) }
       IN  IF found = {} THEN UNCHANGED unacknowledged_pings
           ELSE \E k \in found :
                   unacknowledged_pings' = unacknowledged_pings \ {k}
    /\ job' = [job EXCEPT ![t].node = Got(t).from]
    /\ Goto(t, "mark")
    /\ UNCHANGED <<tableVars, next_message_id, pings, sent, inVars, friends,
                   handled>>

(***************************************************************************)
(* No lock protects unacknowledged_pings: two threads that use it at once  *)
(* may leave anything behind.                                              *)
(***************************************************************************)
Clash(t) ==
    /\ \/ pc[t] = "insert"
       \/ pc[t] = "handle" /\ Got(t).kind = "reply"
    /\ InUse(t)
    /\ End("undefined")

\* udp_send throws when the address cannot be resolved, and nobody catches.
CannotResolve(t) ==
    /\ \/ pc[t] = "send"
       \/ pc[t] = "handle" /\ Got(t).kind \in {"message", "request"}
    /\ End("terminated")

-----------------------------------------------------------------------------
\* Faulty variant of Finished: the lock of the bucket is never released.
FinishedLocked(t) ==
    /\ Goto(t, IF t = main THEN "ping_all" ELSE "idle")
    /\ handled' = IF t = main THEN handled ELSE handled \cup {job[t].serves}
    /\ job' = [job EXCEPT ![t] = [NoJob EXCEPT !.holds = job[t].holds]]

\* What t does when it has made all its pings, or has none to make.
Finished(t) ==
    /\ Goto(t, IF t = main THEN "ping_all" ELSE "idle")
    /\ handled' = IF t = main THEN handled ELSE handled \cup {job[t].serves}
    /\ job' = [job EXCEPT ![t] = NoJob]

\* The pings to the nodes, not none, that t makes under the lock of bucket d.
MakePings(t, nodes, d) ==
    /\ job' = [job EXCEPT ![t].to = nodes, ![t].holds = {d}]
    /\ Goto(t, "read")
    /\ UNCHANGED handled

\* mark_seen, up to the ping of the evicted node.
Mark(t) ==
    LET n       == job[t].node
        d       == bit_distance(Self.nodeId, n.nodeId)
        evicted == Table!Evicted(Table!Seen(buckets[d], n))
    IN  /\ pc[t] = "mark"
        /\ Unlocked(d)
        /\ Table!mark_seen(t, n)
        /\ \/ evicted = {} /\ Finished(t)
           \/ \E m \in evicted : MakePings(t, <<m>>, d)
        /\ UNCHANGED <<pingVars, inVars, friends>>

\* next_message_id++ is atomic to nobody: it is read ...
ReadId(t) ==
    /\ pc[t] = "read"
    /\ job' = [job EXCEPT ![t].id = next_message_id]
    /\ Goto(t, "write")
    /\ UNCHANGED <<tableVars, pingVars, inVars, friends, handled>>

\* Faulty variant of AfterId: the ping is sent before it is remembered.
AfterIdSend == [write |-> "send", send |-> "insert", insert |-> "next"]

\* The order of the steps of a ping that has its message id.
AfterId == [write |-> "insert", insert |-> "send", send |-> "next"]

\* The next ping, if it is not the last one.
NextPing(t) ==
    IF Len(job[t].to) = 1 THEN Finished(t)
    ELSE /\ job' = [job EXCEPT ![t].to = Tail(@)]
         /\ Goto(t, "read")
         /\ UNCHANGED handled

\* The next step of this ping, or the next ping.
NextStep(t) ==
    IF AfterId[pc[t]] = "next" THEN NextPing(t)
    ELSE Goto(t, AfterId[pc[t]]) /\ UNCHANGED <<job, handled>>

\* ... and written, and the ping_message is made; this node is not pinged.
WriteId(t) ==
    LET n == Head(job[t].to)
    IN  /\ pc[t] = "write"
        /\ next_message_id' = job[t].id + 1
        /\ IF SameNode(n, Self) THEN NextPing(t) /\ UNCHANGED pings
           ELSE /\ pings' = Append(pings, [to |-> n, id |-> job[t].id])
                /\ job' = [job EXCEPT ![t].ping = Len(pings')]
                /\ Goto(t, AfterId["write"])
                /\ UNCHANGED handled
        /\ UNCHANGED <<tableVars, unacknowledged_pings, sent, inVars, friends>>

SamePing(j, k) == pings[j].id = pings[k].id /\ SameNode(pings[j].to, pings[k].to)

\* control_protocol::ping: an equal ping of the same second is not inserted.
InsertPing(t) ==
    LET k == job[t].ping
    IN  /\ pc[t] = "insert"
        /\ \/ unacknowledged_pings' = unacknowledged_pings \cup {k}
           \/ /\ \E j \in unacknowledged_pings : SamePing(j, k)
              /\ UNCHANGED unacknowledged_pings
        /\ NextStep(t)
        /\ UNCHANGED <<tableVars, next_message_id, pings, sent, inVars, friends>>

\* udp_send
SendPing(t) ==
    /\ pc[t] = "send"
    /\ sent' = sent \cup {job[t].ping}
    /\ NextStep(t)
    /\ UNCHANGED <<tableVars, next_message_id, unacknowledged_pings, pings, inVars,
                   friends>>

-----------------------------------------------------------------------------
\* main: load_friends_list, before there is a control_protocol to ping with.
LoadFriend ==
    LET n       == Head(friends)
        d       == bit_distance(Self.nodeId, n.nodeId)
        evicted == Table!Evicted(Table!Seen(buckets[d], n))
    IN  /\ pc[main] = "friends"
        /\ friends # <<>>
        /\ friends' = Tail(friends)
        /\ Table!mark_seen(main, n)
        /\ next_message_id' = next_message_id + Cardinality(evicted)
        /\ IF pinged' = {} THEN UNCHANGED <<socket, pc>> ELSE Ended("undefined")
        /\ UNCHANGED <<unacknowledged_pings, pings, sent, buffer_, received, job,
                       handled>>

CreateProtocol ==
    /\ pc[main] = "friends"
    /\ friends = <<>>
    /\ socket' = "armed"
    /\ Goto(main, "create")
    /\ UNCHANGED <<tableVars, pingVars, buffer_, received, job, friends, handled>>

BeginPingAll ==
    /\ pc[main] = "create"
    /\ Table!BeginPingAll(main)
    /\ Goto(main, "ping_all")
    /\ UNCHANGED <<pingVars, inVars, job, friends, handled>>

PingBucket ==
    LET d == calls[main].i
    IN  /\ pc[main] = "ping_all"
        /\ Unlocked(d)
        /\ Table!PingBucket(main)
        /\ IF buckets[d] = <<>> THEN Finished(main)
           ELSE MakePings(main, buckets[d], d)
        /\ UNCHANGED <<pingVars, inVars, friends>>

EndPingAll ==
    /\ pc[main] = "ping_all"
    /\ Table!Return(main)
    /\ Goto(main, "join")
    /\ UNCHANGED <<pingVars, inVars, job, friends, handled>>

-----------------------------------------------------------------------------
\* control_protocol::ping by the thread t, in a bucket whose lock t holds.
Ping(t) == ReadId(t) \/ WriteId(t) \/ InsertPing(t) \/ SendPing(t)

Handle(t) == HandleMessage(t) \/ HandleRequest(t) \/ HandleReply(t)

PoolThread(t) == Dispatch(t) \/ Copy(t) \/ Listen(t) \/ Handle(t) \/ Mark(t) \/ Ping(t)

Main == LoadFriend \/ CreateProtocol \/ BeginPingAll \/ PingBucket \/ Ping(main)
        \/ EndPingAll

Next ==
    \/ Receive
    \/ ReceiveNothing
    \/ \E t \in Pool : PoolThread(t)
    \/ Main
    \/ \E t \in Threads : Clash(t) \/ CannotResolve(t)

Spec == Init /\ [][Next]_vars

(***************************************************************************)
(* A thread that can run does, and gets a lock that is not held for ever;  *)
(* nothing is assumed of the network.                                      *)
(***************************************************************************)
Fairness ==
    /\ \A t \in Pool : WF_vars(PoolThread(t))
    /\ WF_vars(Main)

FairSpec == Spec /\ Fairness

-----------------------------------------------------------------------------
Places == {"friends", "create", "ping_all", "join", "idle", "copy", "listen",
           "handle", "mark", "read", "write", "insert", "send",
           "terminated", "undefined"}

\* Every variable has its type, and threads hold different locks.
TypeOK ==
    /\ Table!TypeOK
    /\ socket \in {"closed", "armed", "done", "error"}
    /\ buffer_ \in 0 .. Len(received)
    /\ pc \in [Threads -> Places]
    /\ job \in [Threads -> [serves : 0 .. MaxReceived, local : 0 .. MaxReceived,
                            node : Nodes, to : Seq(Nodes), id : Nat,
                            ping : 0 .. Len(pings), holds : SUBSET Table!Buckets]]
    /\ next_message_id \in Nat
    /\ unacknowledged_pings \subseteq DOMAIN pings
    /\ friends \in Seq(Nodes)
    /\ received \in Seq([kind : {"message", "request", "reply"}, from : Peers,
                         answers : 0 .. Len(pings),
                         after : SUBSET (1 .. MaxReceived)])
    /\ Len(received) <= MaxReceived
    /\ handled \subseteq DOMAIN received
    /\ pings \in Seq([to : Nodes, id : Nat])
    /\ sent \subseteq DOMAIN pings
    /\ \A t, u \in Threads : t # u => job[t].holds \cap job[u].holds = {}

\* The process has ended, or is past what can be said of it.
Over == pc[main] \in {"terminated", "undefined"}

(***************************************************************************)
(* The pool threads share one buffer_, which "should probably" be one per  *)
(* thread (control_protocol.cpp:48-49).  Still, every datagram received is *)
(* handled, once and as it was: it is in the buffer, or is served by one   *)
(* thread that has its own copy of it, or its handling has ended.          *)
(***************************************************************************)
HandledAsReceived ==
    /\ \A i \in DOMAIN received :
          LET serving == { t \in Pool : job[t].serves = i }
          IN  /\ i \in handled => serving = {}
              /\ i \notin handled =>
                    \/ serving = {} /\ socket = "done" /\ i = buffer_
                    \/ \E t \in Pool : serving = {t}
                    \/ Over
    /\ \A t \in Pool : pc[t] \notin {"copy", "terminated", "undefined"} =>
          job[t].local = job[t].serves

\* A reply to ping k has been handled.
Answered(k) == \E i \in handled : received[i].answers = k

(***************************************************************************)
(* A ping is remembered before it is sent (control_protocol.cpp:97-99), so *)
(* that its reply, however fast, finds it: once the reply has been handled *)
(* the ping is acknowledged.  Only where two unlocked increments of        *)
(* next_message_id gave one node the same id twice may the reply have      *)
(* acknowledged the other ping.                                            *)
(***************************************************************************)
RepliesAcknowledge ==
    \A k \in unacknowledged_pings :
        Answered(k) => \E j \in DOMAIN pings \ {k} : SamePing(j, k)

(***************************************************************************)
(* Whatever ids the unlocked increments repeat, a ping is acknowledged by  *)
(* a reply of the node that it went to (messages.hpp, operator== of        *)
(* ping_message), unless an equal ping was made, or is not remembered yet. *)
(***************************************************************************)
OnlyRepliesAcknowledge ==
    \A k \in DOMAIN pings \ unacknowledged_pings :
        \/ \E i \in DOMAIN received : received[i].answers = k
        \/ \E j \in DOMAIN pings \ {k} : SamePing(j, k)
        \/ \E t \in Threads :
              pc[t] \in {"insert", "terminated", "undefined"} /\ job[t].ping = k

\* The datagrams whose handling marks n as seen, in the bucket that n is in.
Marking(n) ==
    { i \in DOMAIN received :
        LET m == IF received[i].kind = "request" THEN Self ELSE received[i].from
        IN  /\ SameNode(m, n)
            /\ bit_distance(Self.nodeId, m.nodeId) = bit_distance(Self.nodeId, n.nodeId) }

(***************************************************************************)
(* Buckets are "sorted (and eventually evicted) by last communication      *)
(* time" (NodeQueue.cpp:19), as far as threads that handle datagrams at    *)
(* the same time allow: no node is before another one if all that marked   *)
(* it was over when a datagram that marked the other one was received.     *)
(***************************************************************************)
SortedByCommunication ==
    \A d \in Table!Buckets :
        \A i, j \in DOMAIN buckets[d] :
            i < j => \A k \in Marking(buckets[d][j]) \cap handled :
                        ~(Marking(buckets[d][i]) \subseteq received[k].after)

(***************************************************************************)
(* For the buckets to be sorted "by last communication time"               *)
(* (NodeQueue.cpp:19), whoever has sent a datagram that was handled must   *)
(* have been marked as seen.                                               *)
(***************************************************************************)
SendersAreSeen ==
    \A i \in handled :
        LET n == received[i].from
        IN  \E k \in DOMAIN recency[bit_distance(Self.nodeId, n.nodeId)] :
                recency[bit_distance(Self.nodeId, n.nodeId)][k] = n.addr

(***************************************************************************)
(* The network having gone quiet (it sends MaxReceived datagrams at most,  *)
(* although errors go on), every datagram is at last handled to the end,   *)
(* mark_seen and its pings under the bucket's lock included, and there is  *)
(* a receive operation again (control_protocol.cpp:53-57).                 *)
(***************************************************************************)
EverythingIsHandled ==
    []<>(Over \/ (socket = "armed" /\ handled = DOMAIN received))

=============================================================================
