----------------------------- MODULE PingProofs ------------------------------
(***************************************************************************)
(* Theorems about the pings of the control protocol and their replies, for *)
(* every pool of threads, every set of nodes and any number of pings.      *)
(***************************************************************************)
EXTENDS ControlProtocolProofs, FiniteSetTheorems

Past    == {"mark", "read", "write", "insert", "send"}
Pinging == {"insert", "send"}

\* What datagram i does to unacknowledged_pings is done.
Replied(i) == i \in handled \/ \E t \in Pool : job[t].serves = i /\ pc[t] \in Past

\* There are two equal pings, of which k is one.
Doubled(k) == \E j \in DOMAIN pings \ {k} : SamePing(j, k)

\* Pings are made before they are inserted, and inserted before they are sent.
PingOrder ==
    /\ unacknowledged_pings \subseteq DOMAIN pings
    /\ sent \subseteq DOMAIN pings
    /\ \A t \in Threads : pc[t] \in Pinging =>
          /\ job[t].ping \in DOMAIN pings
          /\ \A u \in Threads \ {t} : pc[u] \in Pinging => job[u].ping # job[t].ping
          /\ pc[t] = "insert" => job[t].ping \notin sent

\* Replies are to pings that were sent, and from whom they were sent to.
ReplyInv ==
    \A i \in DOMAIN received :
        /\ received[i].kind = "reply" =>
              /\ received[i].answers \in sent
              /\ SameNode(received[i].from, pings[received[i].answers].to)
        /\ received[i].kind # "reply" => received[i].answers = 0

\* A ping that a reply has come for is acknowledged, or was made twice.
AcknowledgedInv ==
    \A k \in unacknowledged_pings : \A i \in DOMAIN received :
        received[i].answers = k /\ Replied(i) => Doubled(k)

\* Only such a ping is, and one that is yet to be inserted.
RemainingInv ==
    \A k \in DOMAIN pings \ unacknowledged_pings :
        \/ \E i \in DOMAIN received : received[i].answers = k
        \/ Doubled(k)
        \/ \E t \in Threads : pc[t] \in {"insert"} \cup Ends /\ job[t].ping = k

PingInv == PingOrder /\ ReplyInv /\ AcknowledgedInv /\ RemainingInv

LEMMA InitPings == Init => PingInv
<1> SUFFICES ASSUME Init
             PROVE  PingInv
  OBVIOUS
<1>1. DOMAIN <<>> = {}
  BY EmptySeq
<1>2. \A t \in Threads : pc[t] \notin Pinging
  BY DEF Init, Pinging
<1> QED
  BY <1>1, <1>2 DEF Init, PingInv, PingOrder, ReplyInv, AcknowledgedInv, RemainingInv

\* A step in which nothing happens to a ping.
LEMMA QuietStep ==
  ASSUME PingInv,
         UNCHANGED <<unacknowledged_pings, pings, sent, received>>,
         \A i \in DOMAIN received :
            Replied(i)' => Replied(i) \/ received[i].answers = 0,
         \A t \in Threads : pc'[t] \in Pinging =>
            pc[t] = pc'[t] /\ job'[t].ping = job[t].ping,
         \A t \in Threads : pc[t] \in {"insert"} \cup Ends =>
            pc'[t] \in {"insert"} \cup Ends /\ job'[t].ping = job[t].ping,
         SomeSeq(pings)
  PROVE  PingInv'
<1> USE DEF PingInv
<1>1. 0 \notin DOMAIN pings
  BY AppendAny
<1>2. PingOrder'
  BY DEF PingOrder
<1>3. ReplyInv'
  BY DEF ReplyInv
<1>4. \A k : Doubled(k)' <=> Doubled(k)
  BY DEF Doubled, SamePing
<1>5. AcknowledgedInv'
  BY <1>1, <1>4 DEF AcknowledgedInv, PingOrder
<1>6. RemainingInv'
  BY <1>4 DEF RemainingInv
<1> QED
  BY <1>2, <1>3, <1>5, <1>6

\* A thread goes on with a datagram that is replied, or leaves it.
LEMMA OnlyRepliedAreLeft ==
  ASSUME DatagramInv, NEW t \in Threads, t \in Pool => pc[t] \in Past,
         \/ Finished(t)
         \/ /\ \E p : Goto(t, p)
            /\ handled' = handled
            /\ \A u \in Threads \ {t} : job'[u] = job[u]
            /\ job'[t].serves = job[t].serves
  PROVE  /\ \A i : Replied(i)' => Replied(i)
         /\ \A u \in Threads \ {t} : pc'[u] = pc[u] /\ job'[u] = job[u]
<1>1. /\ main \notin Pool /\ Threads = Pool \cup {main}
      /\ DOMAIN pc = Threads /\ DOMAIN job = Threads
  BY ControlProtocolAssumption DEF Threads, DatagramInv, Shapes
<1>2. \A u \in Threads \ {t} : pc'[u] = pc[u] /\ job'[u] = job[u]
  BY <1>1 DEF Finished, Goto
<1>3. CASE t = main
  BY <1>1, <1>2, <1>3 DEF Finished, Replied
<1>4. CASE t \in Pool
  <2>1. ASSUME NEW i, Replied(i)'
        PROVE  Replied(i)
    <3>1. CASE i \in handled'
      BY <1>1, <1>4, <3>1 DEF Finished, Replied
    <3>2. CASE i \notin handled'
      <4>1. PICK u \in Pool : job'[u].serves = i /\ pc'[u] \in Past
        BY <2>1, <3>2 DEF Replied
      <4>2. CASE u # t
        BY <1>1, <1>2, <4>1, <4>2 DEF Replied
      <4>3. CASE u = t
        <5>1. ~Finished(t)
          BY <1>1, <4>1, <4>3 DEF Finished, Goto, Past
        <5> QED
          BY <1>4, <4>1, <4>3, <5>1 DEF Replied
      <4> QED
        BY <4>2, <4>3
    <3> QED
      BY <3>1, <3>2
  <2> QED
    BY <1>2, <2>1
<1> QED
  BY <1>1, <1>3, <1>4

-----------------------------------------------------------------------------
\* Where the steps of a ping lead, and the bookkeeping of what is done after them.
LEMMA AfterAPing ==
  ASSUME DatagramInv, NEW t \in Threads,
         pc[t] \in {"mark", "ping_all", "write", "send"},
         t \in Pool => pc[t] # "ping_all",
         \/ Finished(t)
         \/ \E nodes, d : MakePings(t, nodes, d)
         \/ NextPing(t)
  PROVE  /\ \A i : Replied(i)' => Replied(i)
         /\ \A u \in Threads \ {t} : pc'[u] = pc[u] /\ job'[u] = job[u]
         /\ pc'[t] \notin Pinging
<1>1. /\ main \notin Pool /\ Threads = Pool \cup {main}
      /\ DOMAIN pc = Threads /\ DOMAIN job = Threads /\ DOMAIN job[t] = Fields
  BY ControlProtocolAssumption DEF Threads, DatagramInv, Shapes
<1>2. t \in Pool => pc[t] \in Past
  BY DEF Past
<1>3. CASE Finished(t)
  BY <1>1, <1>2, <1>3, OnlyRepliedAreLeft DEF Finished, Goto, Pinging
<1>4. CASE ~Finished(t)
  <2>1. /\ Goto(t, "read") /\ handled' = handled
        /\ \A u \in Threads \ {t} : job'[u] = job[u]
        /\ job'[t].serves = job[t].serves
    <3>1. /\ Goto(t, "read") /\ handled' = handled
          /\ \/ \E x, y : job' = [job EXCEPT ![t].to = x, ![t].holds = y]
             \/ \E x : job' = [job EXCEPT ![t].to = x]
      <4>1. CASE NextPing(t)
        BY <1>4, <4>1 DEF NextPing
      <4>2. CASE \E nodes, d : MakePings(t, nodes, d)
        BY <4>2 DEF MakePings
      <4> QED
        BY <1>4, <4>1, <4>2
    <3>2. CASE \E x, y : job' = [job EXCEPT ![t].to = x, ![t].holds = y]
      BY <1>1, <3>1, <3>2 DEF Fields
    <3>3. CASE \E x : job' = [job EXCEPT ![t].to = x]
      BY <1>1, <3>1, <3>3 DEF Fields
    <3> QED
      BY <3>1, <3>2, <3>3
  <2>2. pc'[t] = "read" /\ \E p : Goto(t, p)
    BY <1>1, <2>1 DEF Goto
  <2> QED
    BY <1>2, <2>1, <2>2, OnlyRepliedAreLeft DEF Pinging
<1> QED
  BY <1>3, <1>4

\* Steps with no effect on the pings, by a thread that works.
LEMMA WorkIsQuiet ==
  ASSUME DatagramInv, PingInv, NEW t \in Threads,
         pc[t] \in {"mark", "ping_all", "write"},
         t \in Pool => pc[t] # "ping_all",
         UNCHANGED <<unacknowledged_pings, pings, sent, received>>,
         \/ Finished(t)
         \/ \E nodes, d : MakePings(t, nodes, d)
         \/ NextPing(t)
  PROVE  PingInv'
<1>1. /\ \A i : Replied(i)' => Replied(i)
      /\ \A u \in Threads \ {t} : pc'[u] = pc[u] /\ job'[u] = job[u]
      /\ pc'[t] \notin Pinging
  BY AfterAPing
<1>2. pc[t] \notin {"insert"} \cup Ends
  BY DEF Ends
<1>3. SomeSeq(pings)
  BY DEF DatagramInv, Shapes
<1> QED
  BY <1>1, <1>2, <1>3, QuietStep

\* The receive operation, and the threads that take up a datagram.
LEMMA TakingIsQuiet ==
  ASSUME DatagramInv, PingInv, NEW t \in Pool, Dispatch(t) \/ Copy(t) \/ Listen(t)
  PROVE  PingInv'
<1>1. /\ t \in Threads /\ DOMAIN pc = Threads /\ DOMAIN job = Threads
      /\ DOMAIN job[t] = Fields /\ SomeSeq(pings)
  BY DEF Threads, DatagramInv, Shapes
<1>2. /\ UNCHANGED <<unacknowledged_pings, pings, sent, received, handled>>
      /\ pc[t] \in {"idle", "copy", "listen"}
      /\ pc'[t] \in {"copy", "listen", "idle", "handle"}
      /\ \A u \in Threads \ {t} : pc'[u] = pc[u] /\ job'[u] = job[u]
  BY <1>1 DEF Dispatch, Copy, Listen, Goto, pingVars, inVars
<1>3. pc'[t] \notin Pinging \cup Past /\ pc[t] \notin {"insert"} \cup Ends
  BY <1>2 DEF Pinging, Past, Ends
<1>4. \A i : Replied(i)' => Replied(i)
  BY <1>2, <1>3 DEF Replied, Threads
<1> QED
  BY <1>1, <1>2, <1>3, <1>4, QuietStep

LEMMA MessageIsQuiet ==
  ASSUME DatagramInv, PingInv, NEW t \in Pool, HandleMessage(t) \/ HandleRequest(t)
  PROVE  PingInv'
<1>1. /\ t \in Threads /\ DOMAIN pc = Threads /\ DOMAIN job = Threads
      /\ DOMAIN job[t] = Fields /\ SomeSeq(pings)
  BY DEF Threads, DatagramInv, Shapes
<1>2. /\ UNCHANGED <<unacknowledged_pings, pings, sent, received, handled>>
      /\ pc[t] = "handle" /\ pc'[t] = "mark" /\ Got(t).kind # "reply"
      /\ \A u \in Threads \ {t} : pc'[u] = pc[u] /\ job'[u] = job[u]
      /\ job'[t].serves = job[t].serves
  BY <1>1 DEF HandleMessage, HandleRequest, Goto, pingVars, inVars, Fields
<1>3. pc'[t] \notin Pinging /\ pc[t] \notin {"insert"} \cup Ends
      /\ pc[t] \notin Ends \cup {"copy"}
  BY <1>2 DEF Pinging, Ends
<1>4. job[t].local = job[t].serves
  BY <1>3 DEF DatagramInv, ServeInv
<1>5. ASSUME NEW i \in DOMAIN received, Replied(i)'
      PROVE  Replied(i) \/ received[i].answers = 0
  <2>1. CASE i = job[t].serves
    BY <1>2, <1>4, <2>1 DEF Got, PingInv, ReplyInv
  <2>2. CASE i # job[t].serves
    BY <1>2, <1>5, <2>2 DEF Replied, Threads
  <2> QED
    BY <2>1, <2>2
<1> QED
  BY <1>1, <1>2, <1>3, <1>5, QuietStep

LEMMA ReadIdIsQuiet ==
  ASSUME DatagramInv, PingInv, NEW t \in Threads, ReadId(t)
  PROVE  PingInv'
<1>1. /\ DOMAIN pc = Threads /\ DOMAIN job = Threads
      /\ DOMAIN job[t] = Fields /\ SomeSeq(pings)
  BY DEF DatagramInv, Shapes
<1>2. /\ UNCHANGED <<unacknowledged_pings, pings, sent, received, handled>>
      /\ pc[t] = "read" /\ pc'[t] = "write" /\ \E p : Goto(t, p)
      /\ job'[t].serves = job[t].serves
      /\ \A u \in Threads \ {t} : pc'[u] = pc[u] /\ job'[u] = job[u]
  BY <1>1 DEF ReadId, Goto, pingVars, inVars, Fields
<1>3. /\ pc'[t] \notin Pinging /\ pc[t] \notin {"insert"} \cup Ends
      /\ pc[t] \in Past
  BY <1>2 DEF Pinging, Ends, Past
<1>4. \A i : Replied(i)' => Replied(i)
  BY <1>2, <1>3, OnlyRepliedAreLeft
<1> QED
  BY <1>1, <1>2, <1>3, <1>4, QuietStep

\* main before and after its pings, the errors, and the ends of the process.
LEMMA OthersAreQuiet ==
  ASSUME DatagramInv, PingInv,
         \/ ReceiveNothing \/ CreateProtocol \/ BeginPingAll \/ EndPingAll
         \/ LoadFriend
         \/ End("undefined") \/ End("terminated")
         \/ UNCHANGED vars
  PROVE  PingInv'
<1>1. /\ main \in Threads /\ Threads = Pool \cup {main} /\ main \notin Pool
      /\ DOMAIN pc = Threads /\ SomeSeq(pings)
  BY ControlProtocolAssumption DEF Threads, DatagramInv, Shapes
<1>2. /\ UNCHANGED <<unacknowledged_pings, pings, sent, received, handled, job>>
      /\ \/ UNCHANGED pc
         \/ \A t \in Threads : pc'[t] \in Ends
         \/ /\ \A t \in Pool : pc'[t] = pc[t]
            /\ pc[main] \in {"friends", "create", "ping_all"}
            /\ pc'[main] \in {"create", "ping_all", "join"}
  BY <1>1 DEF ReceiveNothing, CreateProtocol, BeginPingAll, EndPingAll, LoadFriend,
              End, Ended, vars, pingVars, inVars, Goto, Ends
<1>3. \A t \in Threads : pc'[t] # pc[t] => pc'[t] \notin Pinging \cup Past
  BY <1>1, <1>2 DEF Ends, Pinging, Past
<1>4. \A t \in Threads : pc'[t] # pc[t] /\ pc[t] \in {"insert"} \cup Ends =>
         pc'[t] \in Ends
  BY <1>1, <1>2 DEF Ends
<1>5. \A i : Replied(i)' => Replied(i)
  BY <1>1, <1>2, <1>3 DEF Replied
<1> QED
  BY <1>1, <1>2, <1>3, <1>4, <1>5, QuietStep

-----------------------------------------------------------------------------
LEMMA ReceiveKeepsPings ==
  ASSUME DatagramInv, PingInv, Receive
  PROVE  PingInv'
<1> USE DEF PingInv
<1> DEFINE n == Len(received)
<1>1. PICK m \in Arrivals : /\ m.kind = "reply" => SameNode(m.from, pings[m.answers].to)
                            /\ received' = Append(received, m)
  BY DEF Receive
<1>2. /\ n \in Nat /\ DOMAIN received = 1 .. n /\ DOMAIN received' = 1 .. n + 1
      /\ \A i \in 1 .. n : received'[i] = received[i]
      /\ received'[n + 1] = m
  BY <1>1, AppendAny DEF DatagramInv, Shapes
<1>3. UNCHANGED <<pc, job, handled, pings, sent, unacknowledged_pings>>
  BY DEF Receive, pingVars
<1>4. /\ m.kind = "reply" => m.answers \in sent
      /\ m.kind # "reply" => m.answers = 0
  BY DEF Arrivals
<1>5. ~Replied(n + 1)
  <2>1. /\ handled \subseteq 1 .. n
        /\ \A t \in Pool : job[t].serves <= n
    BY DEF DatagramInv, ServeInv
  <2>2. n + 1 \notin 1 .. n /\ ~(n + 1 <= n)
    BY <1>2
  <2> HIDE DEF n
  <2> QED
    BY <2>1, <2>2 DEF Replied
<1>6. \A k : Doubled(k)' <=> Doubled(k)
  BY <1>3 DEF Doubled, SamePing
<1>7. \A i : Replied(i)' <=> Replied(i)
  BY <1>3 DEF Replied
<1>8. PingOrder'
  BY <1>3 DEF PingOrder
<1>9. ReplyInv'
  <2> SUFFICES ASSUME NEW i \in 1 .. n + 1
               PROVE  /\ received'[i].kind = "reply" =>
                            /\ received'[i].answers \in sent
                            /\ SameNode(received'[i].from, pings[received'[i].answers].to)
                      /\ received'[i].kind # "reply" => received'[i].answers = 0
    BY <1>2, <1>3 DEF ReplyInv
  <2>1. CASE i \in 1 .. n
    BY <1>2, <2>1 DEF ReplyInv
  <2>2. CASE i = n + 1
    BY <1>1, <1>2, <1>4, <2>2
  <2> QED
    BY <1>2, <2>1, <2>2
<1>10. AcknowledgedInv'
  <2> SUFFICES ASSUME NEW k \in unacknowledged_pings, NEW i \in 1 .. n + 1,
                      received'[i].answers = k, Replied(i)
               PROVE  Doubled(k)
    BY <1>2, <1>3, <1>6, <1>7 DEF AcknowledgedInv
  <2>1. i \in 1 .. n
    BY <1>2, <1>5
  <2> QED
    BY <1>2, <2>1 DEF AcknowledgedInv
<1>11. RemainingInv'
  <2>1. \A i \in DOMAIN received : i \in DOMAIN received' /\ received'[i] = received[i]
    BY <1>2
  <2> QED
    BY <1>3, <1>6, <2>1 DEF RemainingInv
<1> QED
  BY <1>8, <1>9, <1>10, <1>11

LEMMA HandleReplyKeepsPings ==
  ASSUME DatagramInv, PingInv, NEW t \in Pool, HandleReply(t)
  PROVE  PingInv'
<1> USE DEF PingInv
<1> DEFINE m == Got(t)
           a == m.answers
           found == { k \in unacknowledged_pings : Acknowledged(k, m) }
<1>1. /\ t \in Threads /\ DOMAIN pc = Threads /\ DOMAIN job = Threads
      /\ DOMAIN job[t] = Fields /\ SomeSeq(received)
  BY DEF Threads, DatagramInv, Shapes
<1>2. /\ UNCHANGED <<pings, sent, received, handled>>
      /\ pc[t] = "handle" /\ pc'[t] = "mark" /\ m.kind = "reply"
      /\ \A u \in Threads \ {t} : pc'[u] = pc[u] /\ job'[u] = job[u]
      /\ job'[t].serves = job[t].serves
      /\ job'[t].ping = job[t].ping
  BY <1>1 DEF HandleReply, Goto, inVars, Fields
<1>3. \/ found = {} /\ unacknowledged_pings' = unacknowledged_pings
      \/ \E k \in found : unacknowledged_pings' = unacknowledged_pings \ {k}
  BY DEF HandleReply
<1>4. pc[t] \in Busy /\ pc[t] \notin Ends \cup {"copy", "insert"}
  BY <1>2 DEF Busy, Ends
<1>5. /\ job[t].local = job[t].serves /\ job[t].serves \in DOMAIN received
      /\ m = received[job[t].serves]
  BY <1>1, <1>4, AppendAny DEF DatagramInv, ServeInv, Shapes, Got
<1>6. a \in sent /\ a \in DOMAIN pings /\ SameNode(m.from, pings[a].to)
  BY <1>2, <1>5 DEF ReplyInv, PingOrder
<1>7. \A k : Doubled(k)' <=> Doubled(k)
  BY <1>2 DEF Doubled, SamePing
<1>8. \A k \in found : k = a \/ Doubled(k)
  BY <1>6 DEF Acknowledged, SamePing, SameNode, Doubled
<1>9. a \in unacknowledged_pings' => Doubled(a)
  <2> SUFFICES ASSUME a \in unacknowledged_pings'
               PROVE  Doubled(a)
    OBVIOUS
  <2>1. a \in unacknowledged_pings
    BY <1>3
  <2>2. a \in found
    BY <1>6, <2>1 DEF Acknowledged, SameNode
  <2>3. PICK k \in found : unacknowledged_pings' = unacknowledged_pings \ {k}
    BY <1>3, <2>2
  <2>4. k # a /\ k \in DOMAIN pings
    BY <2>3 DEF PingOrder
  <2>5. SamePing(k, a)
    BY <1>6, <2>3 DEF Acknowledged, SamePing, SameNode
  <2> QED
    BY <2>4, <2>5 DEF Doubled
<1>10. \A i \in DOMAIN received : Replied(i)' => Replied(i) \/ received[i].answers = a
  <2> SUFFICES ASSUME NEW i \in DOMAIN received, Replied(i)', ~Replied(i)
               PROVE  received[i].answers = a
    OBVIOUS
  <2>1. i = job[t].serves
    BY <1>2 DEF Replied, Threads
  <2> QED
    BY <1>5, <2>1
<1>11. unacknowledged_pings' \subseteq unacknowledged_pings
  BY <1>3
<1>12. PingOrder'
  <2>1. \A u \in Threads : pc'[u] \in Pinging => pc'[u] = pc[u] /\ job'[u] = job[u]
    BY <1>2 DEF Pinging
  <2> QED
    BY <1>2, <1>11, <2>1 DEF PingOrder
<1>13. ReplyInv'
  BY <1>2 DEF ReplyInv
<1>14. AcknowledgedInv'
  BY <1>2, <1>7, <1>9, <1>10, <1>11 DEF AcknowledgedInv
<1>15. RemainingInv'
  <2> SUFFICES ASSUME NEW k \in DOMAIN pings, k \notin unacknowledged_pings'
               PROVE  \/ \E i \in DOMAIN received : received[i].answers = k
                      \/ Doubled(k)
                      \/ \E u \in Threads : pc'[u] \in {"insert"} \cup Ends
                                            /\ job'[u].ping = k
    BY <1>2, <1>7 DEF RemainingInv
  <2>1. CASE k \in unacknowledged_pings
    BY <1>3, <1>5, <1>8, <2>1
  <2>2. CASE k \notin unacknowledged_pings
    BY <1>2, <1>4, <2>2 DEF RemainingInv
  <2> QED
    BY <2>1, <2>2
<1> QED
  BY <1>12, <1>13, <1>14, <1>15

LEMMA WriteIdKeepsPings ==
  ASSUME DatagramInv, PingInv, NEW t \in Threads, WriteId(t)
  PROVE  PingInv'
<1> USE DEF PingInv
<1> DEFINE n == Len(pings)
           e == [to |-> Head(job[t].to), id |-> job[t].id]
<1>1. /\ DOMAIN pc = Threads /\ DOMAIN job = Threads
      /\ DOMAIN job[t] = Fields /\ SomeSeq(pings) /\ pc[t] = "write"
      /\ UNCHANGED <<unacknowledged_pings, sent, received>>
  BY DEF DatagramInv, Shapes, WriteId, inVars
<1>2. CASE UNCHANGED pings
  <2>1. Len(Append(pings, e)) # Len(pings)
    BY <1>1, AppendAny
  <2>2. NextPing(t)
    BY <1>2, <2>1 DEF WriteId
  <2> QED
    BY <1>1, <1>2, <2>2, WorkIsQuiet
<1>3. CASE ~UNCHANGED pings
  <2>1. /\ pings' = Append(pings, e)
        /\ job' = [job EXCEPT ![t].ping = Len(pings')]
        /\ Goto(t, "insert") /\ handled' = handled
    BY <1>3 DEF WriteId, AfterId
  <2>2. /\ n \in Nat /\ DOMAIN pings = 1 .. n /\ DOMAIN pings' = 1 .. n + 1
        /\ Len(pings') = n + 1
        /\ \A k \in 1 .. n : pings'[k] = pings[k]
    BY <1>1, <2>1, AppendAny
  <2>3. /\ pc'[t] = "insert" /\ job'[t].ping = n + 1
        /\ job'[t].serves = job[t].serves
        /\ \A u \in Threads \ {t} : pc'[u] = pc[u] /\ job'[u] = job[u]
        /\ \E p : Goto(t, p)
    BY <1>1, <2>1, <2>2 DEF Goto, Fields
  <2>4. \A i : Replied(i)' => Replied(i)
    BY <1>1, <2>1, <2>3, OnlyRepliedAreLeft DEF Past
  <2>5. \A k \in DOMAIN pings : Doubled(k) => Doubled(k)'
    <3> SUFFICES ASSUME NEW k \in DOMAIN pings, NEW j \in DOMAIN pings \ {k},
                        SamePing(j, k)
                 PROVE  Doubled(k)'
      BY DEF Doubled
    <3>1. j \in DOMAIN pings' \ {k} /\ SamePing(j, k)'
      BY <2>2 DEF SamePing
    <3> QED
      BY <3>1 DEF Doubled
  <2>6. n + 1 \notin DOMAIN pings /\ \A k \in DOMAIN pings : k \in DOMAIN pings'
    BY <2>2
  <2>7. PingOrder'
    <3>1. ASSUME NEW u \in Threads, pc'[u] \in Pinging
          PROVE  /\ job'[u].ping \in DOMAIN pings'
                 /\ u # t => job'[u].ping # n + 1 /\ job'[u] = job[u] /\ pc[u] = pc'[u]
      BY <2>2, <2>3, <2>6, <3>1 DEF PingOrder
    <3>2. n + 1 \notin sent
      BY <2>6 DEF PingOrder
    <3>3. unacknowledged_pings' \subseteq DOMAIN pings' /\ sent' \subseteq DOMAIN pings'
      BY <1>1, <2>6 DEF PingOrder
    <3> QED
      BY <1>1, <2>3, <3>1, <3>2, <3>3 DEF PingOrder
  <2>8. ReplyInv'
    BY <1>1, <2>2 DEF ReplyInv, PingOrder
  <2>9. AcknowledgedInv'
    BY <1>1, <2>4, <2>5 DEF AcknowledgedInv, PingOrder
  <2>10. RemainingInv'
    <3> SUFFICES ASSUME NEW k \in DOMAIN pings', k \notin unacknowledged_pings
                 PROVE  \/ \E i \in DOMAIN received : received[i].answers = k
                        \/ Doubled(k)'
                        \/ \E u \in Threads : pc'[u] \in {"insert"} \cup Ends
                                              /\ job'[u].ping = k
      BY <1>1 DEF RemainingInv
    <3>1. CASE k = n + 1
      BY <2>3, <3>1
    <3>2. CASE k \in DOMAIN pings
      <4>1. pc[t] \notin {"insert"} \cup Ends
        BY <1>1 DEF Ends
      <4> QED
        BY <2>3, <2>5, <3>2, <4>1 DEF RemainingInv
    <3> QED
      BY <2>2, <3>1, <3>2
  <2> QED
    BY <2>7, <2>8, <2>9, <2>10
<1> QED
  BY <1>2, <1>3

LEMMA InsertPingKeepsPings ==
  ASSUME DatagramInv, PingInv, NEW t \in Threads, InsertPing(t)
  PROVE  PingInv'
<1> USE DEF PingInv
<1> DEFINE k == job[t].ping
<1>1. /\ DOMAIN pc = Threads /\ DOMAIN job = Threads
      /\ pc[t] = "insert" /\ pc[t] \in Past
      /\ UNCHANGED <<sent, pings, received>>
  BY DEF DatagramInv, Shapes, InsertPing, inVars, Past
<1>2. /\ Goto(t, "send") /\ UNCHANGED <<job, handled>>
      /\ \E p : Goto(t, p)
  BY <1>1 DEF InsertPing, NextStep, AfterId
<1>3. pc'[t] = "send" /\ \A u \in Threads \ {t} : pc'[u] = pc[u]
  BY <1>1, <1>2 DEF Goto
<1>4. /\ k \in DOMAIN pings /\ k \notin sent
      /\ \A u \in Threads \ {t} : pc[u] \in Pinging => job[u].ping # k
  BY <1>1 DEF PingOrder, Pinging
<1>5. \/ unacknowledged_pings' = unacknowledged_pings \cup {k}
      \/ unacknowledged_pings' = unacknowledged_pings
         /\ \E j \in unacknowledged_pings : SamePing(j, k)
  BY DEF InsertPing
<1>6. \A j : Doubled(j)' <=> Doubled(j)
  BY <1>1 DEF Doubled, SamePing
<1>7. k \in unacknowledged_pings' \/ Doubled(k)
  BY <1>5 DEF Doubled, PingOrder
<1>8. \A i : Replied(i)' => Replied(i)
  BY <1>1, <1>2, OnlyRepliedAreLeft
<1>9. \A i \in DOMAIN received : received[i].answers # k
  <2>1. 0 \notin DOMAIN pings
    BY AppendAny DEF DatagramInv, Shapes
  <2> QED
    BY <1>4, <2>1 DEF ReplyInv
<1>10. PingOrder'
  <2>1. \A u \in Threads : pc'[u] \in Pinging => pc[u] \in Pinging
    BY <1>1, <1>3 DEF Pinging
  <2>2. \A u \in Threads : pc'[u] = "insert" => pc[u] = "insert"
    BY <1>3
  <2>3. unacknowledged_pings' \subseteq DOMAIN pings
    BY <1>4, <1>5 DEF PingOrder
  <2> QED
    BY <1>1, <1>2, <2>1, <2>2, <2>3 DEF PingOrder
<1>11. ReplyInv'
  BY <1>1 DEF ReplyInv
<1>12. AcknowledgedInv'
  BY <1>1, <1>5, <1>6, <1>8, <1>9 DEF AcknowledgedInv
<1>13. RemainingInv'
  <2> SUFFICES ASSUME NEW j \in DOMAIN pings, j \notin unacknowledged_pings'
               PROVE  \/ \E i \in DOMAIN received : received[i].answers = j
                      \/ Doubled(j)
                      \/ \E u \in Threads : pc'[u] \in {"insert"} \cup Ends
                                            /\ job'[u].ping = j
    BY <1>1, <1>6 DEF RemainingInv
  <2>1. CASE j = k
    BY <1>7, <2>1
  <2>2. CASE j # k
    <3>1. j \notin unacknowledged_pings
      BY <1>5
    <3> QED
      BY <1>2, <1>3, <2>2, <3>1 DEF RemainingInv
  <2> QED
    BY <2>1, <2>2
<1> QED
  BY <1>10, <1>11, <1>12, <1>13

LEMMA SendPingKeepsPings ==
  ASSUME DatagramInv, PingInv, NEW t \in Threads, SendPing(t)
  PROVE  PingInv'
<1> USE DEF PingInv
<1>1. /\ pc[t] = "send" /\ sent' = sent \cup {job[t].ping}
      /\ UNCHANGED <<unacknowledged_pings, pings, received>>
  BY DEF SendPing, inVars
<1>2. NextPing(t)
  BY <1>1 DEF SendPing, NextStep, AfterId
<1>3. /\ \A i : Replied(i)' => Replied(i)
      /\ \A u \in Threads \ {t} : pc'[u] = pc[u] /\ job'[u] = job[u]
      /\ pc'[t] \notin Pinging
  BY <1>1, <1>2, AfterAPing
<1>4. pc[t] \in Pinging /\ pc[t] \notin {"insert"} \cup Ends /\ "insert" \in Pinging
  BY <1>1 DEF Pinging, Ends
<1>5. \A j : Doubled(j)' <=> Doubled(j)
  BY <1>1 DEF Doubled, SamePing
<1>6. PingOrder'
  <2>1. job[t].ping \in DOMAIN pings /\ sent' \subseteq DOMAIN pings
    BY <1>1, <1>4 DEF PingOrder
  <2>2. \A u \in Threads : pc'[u] \in Pinging =>
           pc'[u] = pc[u] /\ job'[u] = job[u] /\ job[u].ping # job[t].ping
    BY <1>3, <1>4 DEF PingOrder
  <2> QED
    BY <1>1, <1>4, <2>1, <2>2 DEF PingOrder
<1>7. ReplyInv'
  BY <1>1 DEF ReplyInv
<1>8. AcknowledgedInv'
  BY <1>1, <1>3, <1>5 DEF AcknowledgedInv
<1>9. RemainingInv'
  BY <1>1, <1>3, <1>4, <1>5 DEF RemainingInv
<1> QED
  BY <1>6, <1>7, <1>8, <1>9

LEMMA NextKeepsPings == DatagramInv /\ PingInv /\ [Next]_vars => PingInv'
<1> SUFFICES ASSUME DatagramInv, PingInv, [Next]_vars
             PROVE  PingInv'
  OBVIOUS
<1>1. CASE Receive
  BY <1>1, ReceiveKeepsPings
<1>2. ASSUME NEW t \in Threads, Ping(t)
      PROVE  PingInv'
  BY <1>2, ReadIdIsQuiet, WriteIdKeepsPings, InsertPingKeepsPings, SendPingKeepsPings
     DEF Ping
<1>3. ASSUME NEW t \in Pool, Mark(t)
      PROVE  PingInv'
  <2>1. /\ t \in Threads /\ pc[t] = "mark"
        /\ UNCHANGED <<unacknowledged_pings, pings, sent, received>>
        /\ Finished(t) \/ \E nodes, d : MakePings(t, nodes, d)
    BY <1>3 DEF Mark, Threads, pingVars, inVars
  <2> QED
    BY <2>1, WorkIsQuiet
<1>4. ASSUME NEW t \in Pool, PoolThread(t)
      PROVE  PingInv'
  <2>1. t \in Threads
    BY DEF Threads
  <2> QED
    BY <1>2, <1>3, <1>4, <2>1, TakingIsQuiet, MessageIsQuiet, HandleReplyKeepsPings
       DEF PoolThread, Handle
<1>5. CASE PingBucket
  <2>1. /\ main \in Threads /\ main \notin Pool /\ pc[main] = "ping_all"
        /\ UNCHANGED <<unacknowledged_pings, pings, sent, received>>
        /\ Finished(main) \/ \E nodes, d : MakePings(main, nodes, d)
    BY <1>5, ControlProtocolAssumption DEF PingBucket, Threads, pingVars, inVars
  <2> QED
    BY <2>1, WorkIsQuiet
<1>6. CASE \/ ReceiveNothing \/ CreateProtocol \/ BeginPingAll \/ EndPingAll
           \/ LoadFriend \/ End("undefined") \/ End("terminated")
           \/ UNCHANGED vars
  BY <1>6, OthersAreQuiet
<1>7. ASSUME NEW t \in Threads, Clash(t) \/ CannotResolve(t)
      PROVE  PingInv'
  BY <1>6, <1>7 DEF Clash, CannotResolve
<1> QED
  BY <1>1, <1>2, <1>4, <1>5, <1>6, <1>7 DEF Next, Main, Threads

THEOREM PingInvariant == Spec => [](DatagramInv /\ PingInv)
<1>1. Init => DatagramInv /\ PingInv
  BY InitDatagrams, InitPings
<1>2. DatagramInv /\ PingInv /\ [Next]_vars => (DatagramInv /\ PingInv)'
  BY NextKeepsDatagrams, NextKeepsPings
<1> QED
  BY <1>1, <1>2, PTL DEF Spec

(***************************************************************************)
(* Because a ping is remembered before it is sent, its reply, however fast *)
(* it comes and by whatever threads it is handled, acknowledges it; only   *)
(* two pings of one node with the same id may be taken for each other      *)
(* (control_protocol.cpp:93-101, 169-175).                                 *)
(***************************************************************************)
THEOREM RepliesDoAcknowledge == Spec => []RepliesAcknowledge
<1>1. DatagramInv /\ PingInv => RepliesAcknowledge
  <2> SUFFICES ASSUME DatagramInv, PingInv, NEW k \in unacknowledged_pings, Answered(k)
               PROVE  \E j \in DOMAIN pings \ {k} : SamePing(j, k)
    BY DEF RepliesAcknowledge
  <2>1. PICK i \in handled : received[i].answers = k
    BY DEF Answered
  <2>2. i \in DOMAIN received
    BY AppendAny DEF DatagramInv, Shapes, ServeInv
  <2> QED
    BY <2>1, <2>2 DEF PingInv, AcknowledgedInv, Replied, Doubled
<1> QED
  BY <1>1, PingInvariant, PTL

(***************************************************************************)
(* No ping is acknowledged but by a reply to it or to an equal one, from   *)
(* the node that it went to (messages.hpp, operator== of ping_message).    *)
(***************************************************************************)
THEOREM NothingElseAcknowledges == Spec => []OnlyRepliesAcknowledge
<1>1. PingInv => OnlyRepliesAcknowledge
  BY DEF PingInv, RemainingInv, OnlyRepliesAcknowledge, Doubled, Ends
<1> QED
  BY <1>1, PingInvariant, PTL

-----------------------------------------------------------------------------
(***************************************************************************)
(* The types.  A thread has nodes to ping as long as it pings; it takes    *)
(* the lock of a bucket that no thread holds, and gives it back at last.   *)
(***************************************************************************)
Jobs(n) == [serves : 0 .. MaxReceived, local : 0 .. MaxReceived, node : Nodes,
            to : Seq(Nodes), id : Nat, ping : 0 .. n, holds : SUBSET Table!Buckets]

Datagrams == [kind : {"message", "request", "reply"}, from : Peers, answers : Nat,
              after : SUBSET (1 .. MaxReceived)]

WorkInv ==
    /\ pc \in [Threads -> Places]
    /\ job \in [Threads -> Jobs(Len(pings))]
    /\ \A t \in Threads : pc[t] \in Evicting => job[t].to # <<>>
    /\ \A t, u \in Threads : t # u => job[t].holds \cap job[u].holds = {}

DataInv ==
    /\ socket \in {"closed", "armed", "done", "error"}
    /\ next_message_id \in Nat
    /\ received \in Seq(Datagrams)
    /\ Len(received) <= MaxReceived
    /\ pings \in Seq([to : Nodes, id : Nat])

\* A step of one thread, from whose locks the others' stay apart.
LEMMA OneThreadWorks ==
  ASSUME WorkInv, NEW t \in Threads, NEW j \in Jobs(Len(pings')), NEW p \in Places,
         Len(pings) \in Nat, Len(pings') \in Nat, Len(pings) <= Len(pings'),
         job' = [job EXCEPT ![t] = j], pc' = [pc EXCEPT ![t] = p],
         p \in Evicting => j.to # <<>>,
         \/ j.holds = job[t].holds
         \/ \A u \in Threads \ {t} : j.holds \cap job[u].holds = {}
  PROVE  WorkInv'
<1>1. pc' \in [Threads -> Places]
  BY DEF WorkInv
<1>2. \A u \in Threads : /\ pc'[u] = IF u = t THEN p ELSE pc[u]
                         /\ job'[u] = IF u = t THEN j ELSE job[u]
  BY DEF WorkInv
<1>3. Jobs(Len(pings)) \subseteq Jobs(Len(pings'))
  <2>1. 0 .. Len(pings) \subseteq 0 .. Len(pings')
    OBVIOUS
  <2> QED
    BY <2>1 DEF Jobs
<1>4. job' \in [Threads -> Jobs(Len(pings'))]
  BY <1>3 DEF WorkInv
<1>5. \A u \in Threads : pc'[u] \in Evicting => job'[u].to # <<>>
  BY <1>2 DEF WorkInv
<1>6. \A u, v \in Threads : u # v => job'[u].holds \cap job'[v].holds = {}
  BY <1>2 DEF WorkInv
<1> QED
  BY <1>1, <1>4, <1>5, <1>6 DEF WorkInv

\* The same for a step that makes no ping.
LEMMA OneThreadWorksOn ==
  ASSUME DatagramInv, WorkInv, UNCHANGED pings,
         NEW t \in Threads, NEW j \in Jobs(Len(pings)), NEW p \in Places,
         job' = [job EXCEPT ![t] = j], pc' = [pc EXCEPT ![t] = p],
         p \in Evicting => j.to # <<>>,
         \/ j.holds = job[t].holds
         \/ \A u \in Threads \ {t} : j.holds \cap job[u].holds = {}
  PROVE  WorkInv'
<1>1. Len(pings) \in Nat /\ Len(pings) <= Len(pings)
  BY AppendAny DEF DatagramInv, Shapes
<1>2. Len(pings') = Len(pings)
  OBVIOUS
<1> QED
  BY <1>1, <1>2, OneThreadWorks

LEMMA NoJobIsTyped ==
  ASSUME DatagramInv
  PROVE  NoJob \in Jobs(Len(pings)) /\ NoJob.holds = {}
<1>1. Self \in Nodes /\ 0 \in 0 .. MaxReceived /\ 0 \in 0 .. Len(pings)
  BY ControlProtocolAssumption, AppendAny DEF Nodes, DatagramInv, Shapes
<1>2. NoJob.holds = {}
  BY DEF NoJob
<1>3. <<>> \in Seq(Nodes)
  BY EmptySeq
<1> QED
  BY <1>1, <1>2, <1>3 DEF NoJob, Jobs

\* The thread has made all its pings.
LEMMA FinishedIsTyped ==
  ASSUME DatagramInv, WorkInv, UNCHANGED pings, NEW t \in Threads, Finished(t)
  PROVE  WorkInv'
<1> DEFINE p == IF t = main THEN "ping_all" ELSE "idle"
<1>1. p \in Places /\ p \notin Evicting
  BY DEF Places, Evicting
<1> HIDE DEF p
<1>2. pc' = [pc EXCEPT ![t] = p] /\ job' = [job EXCEPT ![t] = NoJob]
  BY DEF Finished, Goto, p
<1> QED
  BY <1>1, <1>2, NoJobIsTyped, OneThreadWorksOn

\* It takes the lock of bucket d to ping the nodes.
LEMMA LockingIsTyped ==
  ASSUME DatagramInv, WorkInv, UNCHANGED pings, NEW t \in Threads,
         NEW nodes \in Seq(Nodes), nodes # <<>>, NEW d \in Table!Buckets,
         Unlocked(d), MakePings(t, nodes, d)
  PROVE  WorkInv'
<1> DEFINE j == [job[t] EXCEPT !.to = nodes, !.holds = {d}]
<1>1. job[t] \in Jobs(Len(pings)) /\ job' = [job EXCEPT ![t] = j]
  BY DEF WorkInv, MakePings
<1>2. j \in Jobs(Len(pings)) /\ j.to = nodes /\ j.holds = {d}
  BY <1>1 DEF Jobs
<1>3. \A u \in Threads : {d} \cap job[u].holds = {}
  BY DEF Unlocked
<1>4. pc' = [pc EXCEPT ![t] = "read"] /\ "read" \in Places
  BY DEF MakePings, Goto, Places
<1> HIDE DEF j
<1> QED
  BY <1>1, <1>2, <1>3, <1>4, OneThreadWorksOn

\* It goes on to the next ping, which there is, or has finished.
LEMMA NextPingIsTyped ==
  ASSUME DatagramInv, WorkInv, UNCHANGED pings, NEW t \in Threads,
         pc[t] \in Evicting, NextPing(t)
  PROVE  WorkInv'
<1> DEFINE nodes == job[t].to
           j == [job[t] EXCEPT !.to = Tail(nodes)]
<1>1. job[t] \in Jobs(Len(pings)) /\ nodes \in Seq(Nodes) /\ nodes # <<>>
  BY DEF WorkInv, Jobs
<1>2. CASE Len(nodes) = 1
  BY <1>2, FinishedIsTyped DEF NextPing
<1>3. CASE Len(nodes) # 1
  <2>1. Tail(nodes) \in Seq(Nodes) /\ Tail(nodes) # <<>>
    <3> HIDE DEF nodes
    <3>1. /\ Tail(nodes) \in Seq(Nodes)
          /\ Len(Tail(nodes)) = Len(nodes) - 1
          /\ Len(nodes) \in Nat
      BY <1>1, HeadTailProperties, LenProperties
    <3>2. Len(Tail(nodes)) # 0
      BY <1>3, <3>1
    <3> QED
      BY <3>1, <3>2, EmptySeq
  <2>2. job' = [job EXCEPT ![t] = j]
    BY <1>3 DEF NextPing
  <2>3. j \in Jobs(Len(pings)) /\ j.to = Tail(nodes) /\ j.holds = job[t].holds
    BY <1>1, <2>1 DEF Jobs
  <2>4. pc' = [pc EXCEPT ![t] = "read"] /\ "read" \in Places
    BY <1>3 DEF NextPing, Goto, Places
  <2> HIDE DEF j, nodes
  <2> QED
    BY <2>1, <2>2, <2>3, <2>4, OneThreadWorksOn
<1> QED
  BY <1>2, <1>3

\* One field of its job changes, or none.
LEMMA TakingIsTyped ==
  ASSUME DatagramInv, WorkInv, DataInv, NEW t \in Pool, Dispatch(t) \/ Copy(t) \/ Listen(t)
  PROVE  WorkInv'
<1>1. /\ t \in Threads /\ job[t] \in Jobs(Len(pings)) /\ UNCHANGED pings
  BY DEF Threads, WorkInv, Dispatch, Copy, Listen, pingVars
<1>2. Len(received) \in 0 .. MaxReceived /\ buffer_ = Len(received)
      /\ 0 \in 0 .. MaxReceived
  BY LenProperties, ControlProtocolAssumption DEF DataInv, DatagramInv, SocketInv
<1>3. PICK p \in {"copy", "listen", "idle", "handle"} : pc' = [pc EXCEPT ![t] = p]
  BY DEF Dispatch, Copy, Listen, Goto
<1>4. p \in Places /\ p \notin Evicting
  BY DEF Places, Evicting
<1>5. ASSUME NEW j \in Jobs(Len(pings)), job' = [job EXCEPT ![t] = j],
             j.holds = job[t].holds
      PROVE  WorkInv'
  BY <1>1, <1>3, <1>4, <1>5, OneThreadWorksOn
<1>6. CASE Dispatch(t)
  <2> DEFINE k == IF socket = "done" THEN Len(received) ELSE 0
             j == [job[t] EXCEPT !.serves = k]
  <2>1. k \in 0 .. MaxReceived
    BY <1>2
  <2>2. job' = [job EXCEPT ![t] = j]
    BY <1>6 DEF Dispatch
  <2> HIDE DEF k
  <2>3. j \in Jobs(Len(pings)) /\ j.holds = job[t].holds
    BY <1>1, <2>1 DEF Jobs
  <2> QED
    BY <1>5, <2>2, <2>3
<1>7. CASE Copy(t)
  <2> DEFINE j == [job[t] EXCEPT !.local = buffer_]
  <2>1. j \in Jobs(Len(pings)) /\ j.holds = job[t].holds
    BY <1>1, <1>2 DEF Jobs
  <2> QED
    BY <1>5, <1>7, <2>1 DEF Copy
<1>8. CASE Listen(t)
  <2>1. job' = [job EXCEPT ![t] = job[t]]
    BY <1>8 DEF Listen, WorkInv
  <2> QED
    BY <1>1, <1>5, <2>1
<1> QED
  BY <1>6, <1>7, <1>8

LEMMA HandleIsTyped ==
  ASSUME DatagramInv, WorkInv, NEW t \in Pool, Handle(t)
  PROVE  WorkInv'
<1>1. /\ t \in Threads /\ job[t] \in Jobs(Len(pings)) /\ UNCHANGED pings
      /\ pc[t] = "handle"
  BY DEF Threads, WorkInv, Handle, HandleMessage, HandleRequest, HandleReply, pingVars
<1>2. Got(t).from \in Nodes /\ Self \in Nodes
  <2>1. pc[t] \notin Ends \cup {"copy"} /\ pc[t] \in Busy
    BY <1>1 DEF Ends, Busy
  <2>2. Got(t).from \in Peers
    BY <1>1, <2>1, AppendAny DEF Got, DatagramInv, Shapes, ServeInv
  <2> QED
    BY <2>2 DEF Nodes
<1>3. PICK n \in Nodes : job' = [job EXCEPT ![t].node = n]
  BY <1>2 DEF Handle, HandleMessage, HandleRequest, HandleReply
<1> DEFINE j == [job[t] EXCEPT !.node = n]
<1>4. job' = [job EXCEPT ![t] = j]
  BY <1>3
<1>5. j \in Jobs(Len(pings)) /\ j.holds = job[t].holds
  BY <1>1 DEF Jobs
<1>6. pc' = [pc EXCEPT ![t] = "mark"] /\ "mark" \in Places /\ "mark" \notin Evicting
  BY DEF Handle, HandleMessage, HandleRequest, HandleReply, Goto, Places, Evicting
<1> HIDE DEF j
<1> QED
  BY <1>1, <1>4, <1>5, <1>6, OneThreadWorksOn

-----------------------------------------------------------------------------
\* mark_seen pings one node of the bucket, or none.
LEMMA EvictedFromTable ==
  ASSUME NEW list \in Seq(Nodes), NEW n \in Nodes
  PROVE  LET evicted == Table!Evicted(Table!Seen(list, n))
         IN  evicted = {} \/ \E m \in Nodes : evicted = {m}
<1>1. Proved!NodeTableAssumption
  BY TableAssumption
<1>2. LET evicted == Proved!Evicted(Proved!Seen(list, n))
      IN  evicted = {} \/ \E m \in Nodes : evicted = {m}
  BY <1>1, HashBitsAssumption, Proved!EvictedAreNodes
<1> QED
  BY <1>2, SameOperators

LEMMA MarkIsTyped ==
  ASSUME DatagramInv, WorkInv, Table!TypeOK, NEW t \in Pool, Mark(t)
  PROVE  WorkInv'
<1> DEFINE n       == job[t].node
           d       == bit_distance(Self.nodeId, n.nodeId)
           evicted == Table!Evicted(Table!Seen(buckets[d], n))
<1>1. t \in Threads /\ n \in Nodes /\ UNCHANGED pings
  BY DEF Threads, DatagramInv, Shapes, Mark, pingVars
<1>2. Unlocked(d) /\ Table!mark_seen(t, n)
  BY DEF Mark
<1>3. d \in Table!Buckets
  BY <1>2 DEF Table!mark_seen, Table!bit_distance, bit_distance, Table!Cardinality,
              Cardinality
<1>4. buckets[d] \in Seq(Nodes)
  BY <1>3 DEF Table!TypeOK
<1>5. evicted = {} \/ \E m \in Nodes : evicted = {m}
  BY <1>1, <1>4, EvictedFromTable
<1>6. \/ Finished(t)
      \/ \E m \in evicted : MakePings(t, <<m>>, d)
  BY DEF Mark
<1>7. ASSUME NEW m \in evicted, MakePings(t, <<m>>, d)
      PROVE  WorkInv'
  <2>1. <<m>> \in Seq(Nodes) /\ <<m>> # <<>>
    BY <1>5
  <2> HIDE DEF d, evicted
  <2> QED
    BY <1>1, <1>2, <1>3, <1>7, <2>1, LockingIsTyped
<1> QED
  BY <1>1, <1>6, <1>7, FinishedIsTyped

LEMMA PingIsTyped ==
  ASSUME DatagramInv, WorkInv, DataInv, NEW t \in Threads, Ping(t)
  PROVE  WorkInv' /\ DataInv'
<1> DEFINE n == Head(job[t].to)
           e == [to |-> n, id |-> job[t].id]
<1>1. /\ job[t] \in Jobs(Len(pings)) /\ UNCHANGED <<socket, received>>
      /\ pc[t] \in Evicting
  BY DEF WorkInv, Ping, ReadId, WriteId, InsertPing, SendPing, inVars, Evicting
<1>2. {"write", "insert", "send"} \subseteq Places
  BY DEF Places
<1>3. CASE ReadId(t)
  <2> DEFINE j == [job[t] EXCEPT !.id = next_message_id]
  <2>1. j \in Jobs(Len(pings)) /\ j.holds = job[t].holds /\ j.to = job[t].to
    BY <1>1 DEF Jobs, DataInv
  <2>2. job' = [job EXCEPT ![t] = j] /\ pc' = [pc EXCEPT ![t] = "write"]
        /\ UNCHANGED <<pings, next_message_id>>
    BY <1>3 DEF ReadId, Goto, pingVars
  <2>3. j.to # <<>>
    BY <1>1, <2>1 DEF WorkInv
  <2> HIDE DEF j
  <2>4. WorkInv'
    BY <1>2, <2>1, <2>2, <2>3, OneThreadWorksOn
  <2> QED
    BY <1>1, <2>2, <2>4 DEF DataInv
<1>4. CASE WriteId(t)
  <2>1. job[t].id \in Nat /\ n \in Nodes
    BY <1>1, HeadTailProperties DEF WorkInv, Jobs
  <2>2. next_message_id' \in Nat
    BY <1>4, <2>1 DEF WriteId
  <2>3. CASE SameNode(n, Self)
    <3>1. NextPing(t) /\ UNCHANGED pings
      BY <1>4, <2>3 DEF WriteId
    <3> QED
      BY <1>1, <2>2, <3>1, NextPingIsTyped DEF DataInv
  <2>4. CASE ~SameNode(n, Self)
    <3> DEFINE j == [job[t] EXCEPT !.ping = Len(pings')]
    <3>1. /\ pings' = Append(pings, e)
          /\ job' = [job EXCEPT ![t] = j]
          /\ pc' = [pc EXCEPT ![t] = "insert"]
      BY <1>4, <2>4 DEF WriteId, Goto, AfterId
    <3>2. /\ pings' \in Seq([to : Nodes, id : Nat])
          /\ Len(pings) \in Nat /\ Len(pings') = Len(pings) + 1
      BY <2>1, <3>1, AppendProperties, LenProperties DEF DataInv
    <3>3. /\ j \in Jobs(Len(pings')) /\ j.holds = job[t].holds
          /\ j.to = job[t].to
      <4>1. Len(pings') \in 0 .. Len(pings')
        BY <3>2
      <4> QED
        BY <1>1, <4>1 DEF Jobs
    <3>4. j.to # <<>>
      BY <1>1, <3>3 DEF WorkInv
    <3>5. Len(pings') \in Nat /\ Len(pings) <= Len(pings')
      BY <3>2
    <3> HIDE DEF j
    <3>6. WorkInv'
      BY <1>2, <3>1, <3>2, <3>3, <3>4, <3>5, OneThreadWorks
    <3> QED
      BY <1>1, <2>2, <3>2, <3>6 DEF DataInv
  <2> QED
    BY <2>3, <2>4
<1>5. CASE InsertPing(t)
  <2>1. /\ job' = [job EXCEPT ![t] = job[t]] /\ pc' = [pc EXCEPT ![t] = "send"]
        /\ UNCHANGED <<pings, next_message_id>>
    BY <1>5 DEF InsertPing, NextStep, AfterId, Goto, WorkInv
  <2>2. job[t].to # <<>>
    BY <1>1 DEF WorkInv
  <2>3. WorkInv'
    BY <1>1, <1>2, <2>1, <2>2, OneThreadWorksOn
  <2> QED
    BY <1>1, <2>1, <2>3 DEF DataInv
<1>6. CASE SendPing(t)
  <2>1. NextPing(t) /\ UNCHANGED <<pings, next_message_id>>
    BY <1>6 DEF SendPing, NextStep, AfterId
  <2> QED
    BY <1>1, <2>1, NextPingIsTyped DEF DataInv
<1> QED
  BY <1>3, <1>4, <1>5, <1>6 DEF Ping

-----------------------------------------------------------------------------
\* main, and the ends of the process.
LEMMA MainIsTyped ==
  ASSUME DatagramInv, WorkInv, DataInv, Table!TypeOK,
         \/ LoadFriend \/ CreateProtocol \/ BeginPingAll \/ PingBucket \/ EndPingAll
         \/ End("undefined") \/ End("terminated")
  PROVE  WorkInv' /\ DataInv'
<1>1. /\ main \in Threads /\ received' = received /\ pings' = pings
      /\ socket' \in {socket, "armed", "closed"}
      /\ job[main] \in Jobs(Len(pings))
  BY DEF Threads, LoadFriend, CreateProtocol, BeginPingAll, PingBucket, EndPingAll, End,
         Ended, WorkInv, inVars, pingVars
<1>2. next_message_id' \in Nat
  <2>1. CASE LoadFriend
    <3> DEFINE n       == Head(friends)
               d       == bit_distance(Self.nodeId, n.nodeId)
               evicted == Table!Evicted(Table!Seen(buckets[d], n))
    <3>1. n \in Nodes
      BY <2>1, HeadTailProperties DEF LoadFriend, DatagramInv, Shapes
    <3>2. d \in Table!Buckets
      BY <2>1 DEF LoadFriend, Table!mark_seen, Table!bit_distance, bit_distance,
                  Table!Cardinality, Cardinality
    <3>3. buckets[d] \in Seq(Nodes)
      BY <3>2 DEF Table!TypeOK
    <3>4. evicted = {} \/ \E m \in Nodes : evicted = {m}
      BY <3>1, <3>3, EvictedFromTable
    <3>5. next_message_id' = next_message_id + Cardinality(evicted)
      BY <2>1 DEF LoadFriend
    <3> HIDE DEF evicted
    <3>6. Cardinality(evicted) \in Nat
      <4>1. CASE evicted = {}
        BY <4>1, FS_EmptySet
      <4>2. ASSUME NEW m \in Nodes, evicted = {m}
            PROVE  Cardinality(evicted) \in Nat
        BY <4>2, FS_Singleton
      <4> QED
        BY <3>4, <4>1, <4>2
    <3> QED
      BY <3>5, <3>6 DEF DataInv
  <2>2. CASE next_message_id' = next_message_id
    BY <2>2 DEF DataInv
  <2> QED
    BY <2>1, <2>2 DEF CreateProtocol, BeginPingAll, PingBucket, EndPingAll, End,
                      pingVars
<1>3. DataInv'
  BY <1>1, <1>2 DEF DataInv
<1>4. CASE job' = job /\ \E how \in Ends : pc' = [t \in Threads |-> how]
  BY <1>1, <1>3, <1>4 DEF WorkInv, Ends, Places, Evicting
<1>5. CASE job' = job /\ pc' = pc
  BY <1>1, <1>3, <1>5 DEF WorkInv
<1>6. CASE CreateProtocol \/ BeginPingAll \/ EndPingAll
  <2>1. job' = [job EXCEPT ![main] = job[main]]
    BY <1>6 DEF CreateProtocol, BeginPingAll, EndPingAll, WorkInv
  <2>2. PICK p \in {"create", "ping_all", "join"} : pc' = [pc EXCEPT ![main] = p]
    BY <1>6 DEF CreateProtocol, BeginPingAll, EndPingAll, Goto
  <2>3. p \in Places /\ p \notin Evicting
    BY DEF Places, Evicting
  <2> QED
    BY <1>1, <1>3, <2>1, <2>2, <2>3, OneThreadWorksOn
<1>7. CASE PingBucket
  <2> DEFINE d == calls[main].i
  <2>1. Unlocked(d) /\ Table!PingBucket(main)
    BY <1>7 DEF PingBucket
  <2>2. d \in Table!Buckets
    BY <1>1, <2>1, HashBitsAssumption
       DEF Table!TypeOK, Table!PingBucket, Table!Free, Table!Scan, Table!PingAll,
           Table!Buckets
  <2>3. buckets[d] \in Seq(Nodes)
    BY <2>2 DEF Table!TypeOK
  <2>4. \/ Finished(main)
        \/ buckets[d] # <<>> /\ MakePings(main, buckets[d], d)
    BY <1>7 DEF PingBucket
  <2> HIDE DEF d
  <2> QED
    BY <1>1, <1>3, <2>1, <2>2, <2>3, <2>4, FinishedIsTyped, LockingIsTyped
<1> QED
  BY <1>4, <1>5, <1>6, <1>7 DEF LoadFriend, End, Ended, Ends

LEMMA ReceiveIsTyped ==
  ASSUME DatagramInv, PingOrder, WorkInv, DataInv, Receive
  PROVE  WorkInv' /\ DataInv'
<1>1. PICK m \in Arrivals : received' = Append(received, m)
  BY DEF Receive
<1>2. /\ UNCHANGED <<pc, job, pings, next_message_id>>
      /\ socket' = "done" /\ Len(received) < MaxReceived
  BY DEF Receive, pingVars
<1>3. m \in Datagrams
  <2>1. handled \subseteq 1 .. MaxReceived
    BY <1>2, LenProperties, ControlProtocolAssumption DEF DatagramInv, ServeInv, DataInv
  <2>2. 0 \in Nat /\ sent \subseteq Nat
    BY AppendAny DEF PingOrder, DatagramInv, Shapes
  <2>3. PICK k \in {"message", "request", "reply"}, p \in Peers, a \in Nat :
           m = [kind |-> k, from |-> p, answers |-> a, after |-> handled]
    BY <2>2 DEF Arrivals
  <2> QED
    BY <2>1, <2>3 DEF Datagrams
<1>4. received' \in Seq(Datagrams) /\ Len(received') <= MaxReceived
  BY <1>1, <1>2, <1>3, AppendProperties, LenProperties, ControlProtocolAssumption
     DEF DataInv
<1> QED
  BY <1>2, <1>4 DEF WorkInv, DataInv

LEMMA InitTypes == Init => WorkInv /\ DataInv
<1> SUFFICES ASSUME Init
             PROVE  WorkInv /\ DataInv
  OBVIOUS
<1>1. NoJob \in Jobs(Len(pings)) /\ NoJob.holds = {}
  BY InitDatagrams, NoJobIsTyped
<1>2. WorkInv
  <2>1. pc \in [Threads -> Places] /\ \A t \in Threads : pc[t] \notin Evicting
    BY DEF Init, Places, Evicting
  <2>2. job \in [Threads -> Jobs(Len(pings))] /\ \A t \in Threads : job[t] = NoJob
    BY <1>1 DEF Init
  <2> QED
    BY <1>1, <2>1, <2>2 DEF WorkInv
<1>3. DataInv
  BY EmptySeq, ControlProtocolAssumption DEF Init, DataInv
<1> QED
  BY <1>2, <1>3

LEMMA NextKeepsTypes ==
  DatagramInv /\ PingOrder /\ Table!TypeOK /\ WorkInv /\ DataInv /\ [Next]_vars
     => WorkInv' /\ DataInv'
<1> SUFFICES ASSUME DatagramInv, PingOrder, Table!TypeOK, WorkInv, DataInv, [Next]_vars
             PROVE  WorkInv' /\ DataInv'
  OBVIOUS
<1>1. CASE Receive
  BY <1>1, ReceiveIsTyped
<1>2. CASE ReceiveNothing \/ UNCHANGED vars
  BY <1>2 DEF ReceiveNothing, vars, pingVars, inVars, WorkInv, DataInv
<1>3. ASSUME NEW t \in Pool, PoolThread(t)
      PROVE  WorkInv' /\ DataInv'
  <2>1. CASE Ping(t)
    BY <2>1, PingIsTyped DEF Threads
  <2>2. CASE ~Ping(t)
    <3>1. Dispatch(t) \/ Copy(t) \/ Listen(t) \/ Handle(t) \/ Mark(t)
      BY <1>3, <2>2 DEF PoolThread
    <3>2. /\ UNCHANGED <<received, pings, next_message_id>>
          /\ socket' \in {socket, "closed", "armed"}
      BY <3>1 DEF Dispatch, Copy, Listen, Handle, HandleMessage, HandleRequest,
                  HandleReply, Mark, pingVars, inVars
    <3> QED
      BY <3>1, <3>2, TakingIsTyped, HandleIsTyped, MarkIsTyped DEF DataInv
  <2> QED
    BY <2>1, <2>2
<1>4. CASE Main
  <2>1. main \in Threads
    BY DEF Threads
  <2> QED
    BY <1>4, <2>1, PingIsTyped, MainIsTyped DEF Main
<1>5. ASSUME NEW t \in Threads, Clash(t) \/ CannotResolve(t)
      PROVE  WorkInv' /\ DataInv'
  BY <1>5, MainIsTyped DEF Clash, CannotResolve
<1> QED
  BY <1>1, <1>2, <1>3, <1>4, <1>5 DEF Next

(***************************************************************************)
(* Every variable of the protocol has its type, and no two threads hold    *)
(* the lock of one bucket (NodeQueue.cpp:35, 77), however long each of     *)
(* them takes to ping under it.                                            *)
(***************************************************************************)
THEOREM ProtocolIsTyped == Spec => []TypeOK
<1>1. Proved!TypeOK => Table!TypeOK
  BY DEF Proved!TypeOK, Table!TypeOK, Proved!Buckets, Table!Buckets, Proved!Free,
         Table!Free, Proved!Scan, Table!Scan, Proved!PingAll, Table!PingAll
<1>2. DatagramInv /\ PingInv => PingOrder
  BY DEF PingInv
<1>3. DatagramInv /\ PingInv /\ Table!TypeOK /\ WorkInv /\ DataInv => TypeOK
  <2> SUFFICES ASSUME DatagramInv, PingInv, Table!TypeOK, WorkInv, DataInv
               PROVE  TypeOK
    OBVIOUS
  <2>1. DOMAIN received = 1 .. Len(received) /\ Len(received) \in Nat
        /\ DOMAIN pings = 1 .. Len(pings) /\ Len(pings) \in Nat
    BY LenProperties DEF DataInv
  <2>2. buffer_ \in 0 .. Len(received) /\ handled \subseteq DOMAIN received
    BY <2>1 DEF DatagramInv, SocketInv, ServeInv
  <2>3. received \in Seq([kind : {"message", "request", "reply"}, from : Peers,
                          answers : 0 .. Len(pings),
                          after : SUBSET (1 .. MaxReceived)])
    <3> DEFINE D == [kind : {"message", "request", "reply"}, from : Peers,
                     answers : 0 .. Len(pings), after : SUBSET (1 .. MaxReceived)]
    <3>1. ASSUME NEW i \in 1 .. Len(received)
          PROVE  received[i] \in D
      <4>1. received[i] \in Datagrams
        BY <3>1, ElementOfSeq DEF DataInv
      <4>2. received[i].answers \in 0 .. Len(pings)
        BY <2>1 DEF PingInv, PingOrder, ReplyInv
      <4> QED
        BY <4>1, <4>2 DEF Datagrams
    <3> HIDE DEF D
    <3>2. received \in [1 .. Len(received) -> D]
      BY <3>1, LenProperties DEF DataInv
    <3>3. received \in Seq(D)
      BY <2>1, <3>2, SeqDef
    <3> QED
      BY <3>3 DEF D
  <2> QED
    BY <2>1, <2>2, <2>3
       DEF TypeOK, WorkInv, DataInv, Jobs, PingInv, PingOrder, DatagramInv, Shapes
<1> QED
  BY <1>1, <1>2, <1>3, InitTypes, NextKeepsTypes, PingInvariant, TableInvariants, PTL
     DEF Spec
=============================================================================
