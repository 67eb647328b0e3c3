----------------------- MODULE ControlProtocolProofs ------------------------
(***************************************************************************)
(* Theorems about the control protocol, for every pool of threads, every   *)
(* set of nodes and any number of datagrams and pings.                     *)
(***************************************************************************)
EXTENDS ControlProtocol, SequenceTheorems, TLAPS

Ends   == {"terminated", "undefined"}
Taking == {"copy", "listen"}
Busy   == {"handle", "mark", "read", "write", "insert", "send"}
Fields == {"serves", "local", "node", "to", "id", "ping", "holds"}

SomeSeq(s) == \E S : s \in Seq(S)

\* As much of the types as the proofs need.
Shapes ==
    /\ DOMAIN pc = Threads
    /\ DOMAIN job = Threads
    /\ \A t \in Threads : /\ DOMAIN job[t] = Fields
                          /\ job[t].serves \in Nat
                          /\ job[t].node \in Nodes
    /\ \A t \in Pool : pc[t] \in {"idle"} \cup Taking \cup Busy \cup Ends
    /\ pc[main] \in {"friends", "create", "ping_all", "join", "read", "write",
                     "insert", "send"} \cup Ends
    /\ friends \in Seq(Nodes)
    /\ SomeSeq(received)
    /\ SomeSeq(pings)
    /\ \A i \in DOMAIN received : received[i].from \in Peers

\* The receive operation, of which there is one, and the threads that take it up.
SocketInv ==
    /\ buffer_ = Len(received)
    /\ \A t \in Pool : pc[t] \in Taking =>
          /\ socket = "closed"
          /\ \A u \in Pool \ {t} : pc[u] \notin Taking
          /\ pc[t] = "copy" => job[t].serves = Len(received)
    /\ socket = "done" => /\ Len(received) > 0
                          /\ Len(received) \notin handled
                          /\ \A t \in Pool : job[t].serves # Len(received)
    /\ pc[main] = "friends" => /\ socket = "closed"
                               /\ \A t \in Pool : pc[t] = "idle"
    /\ \A t \in Threads : pc[t] \in Ends =>
          /\ socket = "closed"
          /\ \A u \in Threads : pc[u] \in Ends

\* Who serves which datagram.
ServeInv ==
    /\ handled \subseteq 1 .. Len(received)
    /\ \A t \in Pool :
          /\ job[t].serves <= Len(received)
          /\ pc[t] = "idle" => job[t].serves = 0
          /\ pc[t] \in Busy \cup {"copy"} => job[t].serves # 0
          /\ pc[t] \notin Ends \cup {"copy"} => job[t].local = job[t].serves
          /\ job[t].serves # 0 =>
                /\ job[t].serves \notin handled
                /\ \A u \in Pool \ {t} : job[u].serves # job[t].serves
    /\ \A i \in 1 .. Len(received) :
          \/ i \in handled
          \/ \E t \in Pool : job[t].serves = i
          \/ socket = "done" /\ i = Len(received)
          \/ pc[main] \in Ends

DatagramInv == Shapes /\ SocketInv /\ ServeInv

LEMMA AppendAny ==
  ASSUME NEW s, SomeSeq(s), NEW e
  PROVE  /\ SomeSeq(Append(s, e))
         /\ Len(s) \in Nat
         /\ Len(Append(s, e)) = Len(s) + 1
         /\ DOMAIN s = 1 .. Len(s)
         /\ DOMAIN Append(s, e) = 1 .. Len(s) + 1
         /\ \A i \in 1 .. Len(s) : Append(s, e)[i] = s[i]
         /\ Append(s, e)[Len(s) + 1] = e
<1>1. PICK S : s \in Seq(S)
  BY DEF SomeSeq
<1> DEFINE T == S \cup {e}
<1>2. s \in Seq(T) /\ e \in T
  BY <1>1
<1>3. Append(s, e) \in Seq(T)
  BY <1>2, AppendProperties
<1>4. SomeSeq(Append(s, e))
  <2> HIDE DEF T
  <2> QED
    BY <1>3 DEF SomeSeq
<1> HIDE DEF T
<1> QED
  BY <1>2, <1>3, <1>4, AppendProperties, LenProperties

LEMMA InitDatagrams == Init => DatagramInv
<1> SUFFICES ASSUME Init
             PROVE  DatagramInv
  OBVIOUS
<1> USE DEF Init, Threads
<1>1. friends \in Seq(Nodes) /\ main \notin Pool
  BY ControlProtocolAssumption
<1>2. SomeSeq(<<>>) /\ Len(<<>>) = 0 /\ DOMAIN <<>> = {}
  <2>1. <<>> \in Seq({})
    BY EmptySeq
  <2> QED
    BY <2>1, EmptySeq DEF SomeSeq
<1>3. \A t \in Threads : /\ DOMAIN job[t] = Fields
                         /\ job[t].serves = 0
                         /\ job[t].local = 0
                         /\ job[t].node \in Nodes
  <2>1. \A t \in Threads : job[t] = NoJob
    OBVIOUS
  <2>2. Self \in Nodes
    BY DEF Nodes
  <2> QED
    BY <2>1, <2>2 DEF NoJob, Fields
<1>4. Shapes
  BY <1>1, <1>2, <1>3 DEF Shapes, Ends, Taking, Busy
<1>5. SocketInv
  BY <1>1, <1>2, <1>3 DEF SocketInv, Ends, Taking
<1>6. ServeInv
  BY <1>1, <1>2, <1>3 DEF ServeInv, Ends, Busy
<1> QED
  BY <1>4, <1>5, <1>6 DEF DatagramInv

-----------------------------------------------------------------------------
\* The steps of a thread between those that take and finish a datagram.
LEMMA WorkKeepsDatagrams ==
  ASSUME DatagramInv, NEW t \in Threads, NEW p,
         DOMAIN pc' = Threads,
         \A u \in Threads : pc'[u] = IF u = t THEN p ELSE pc[u],
         t \in Pool => pc[t] \in Busy /\ p \in Busy,
         t = main => /\ pc[main] \notin Ends
                     /\ p \in {"create", "ping_all", "join", "read", "write",
                               "insert", "send", pc[main]},
         DOMAIN job' = Threads,
         \A u \in Threads \ {t} : job'[u] = job[u],
         DOMAIN job'[t] = Fields,
         job'[t].serves \in Nat,
         job'[t].node \in Nodes,
         t \in Pool => /\ job'[t].serves = job[t].serves
                       /\ job'[t].local = job[t].local,
         UNCHANGED <<socket, buffer_, received, handled>>,
         friends' \in Seq(Nodes),
         SomeSeq(pings')
  PROVE  DatagramInv'
<1> USE DEF DatagramInv
<1>1. main \notin Pool /\ Threads = Pool \cup {main} /\ DOMAIN pc = Threads
  BY ControlProtocolAssumption DEF Threads, Shapes
<1>2. \A u \in Threads : pc'[u] = IF u = t THEN p ELSE pc[u]
  OBVIOUS
<1>3. \A u \in Pool : /\ job'[u].serves = job[u].serves
                      /\ job'[u].local = job[u].local
                      /\ pc'[u] # pc[u] => pc[u] \in Busy /\ pc'[u] \in Busy
  BY <1>1, <1>2
<1>4. /\ pc'[main] \in Ends => pc[main] \in Ends
      /\ pc[main] \in Ends => pc'[main] \in Ends
  BY <1>1, <1>2 DEF Ends, Shapes
<1>5. Shapes'
  <2>1. DOMAIN pc' = Threads
    BY <1>1
  <2>2. \A u \in Pool : pc'[u] \in {"idle"} \cup Taking \cup Busy \cup Ends
    BY <1>1, <1>2 DEF Shapes
  <2>3. pc'[main] \in {"friends", "create", "ping_all", "join", "read", "write",
                       "insert", "send"} \cup Ends
    BY <1>1, <1>2 DEF Shapes
  <2>4. \A u \in Threads : /\ DOMAIN job'[u] = Fields
                           /\ job'[u].serves \in Nat
                           /\ job'[u].node \in Nodes
    BY DEF Shapes
  <2> QED
    BY <2>1, <2>2, <2>3, <2>4 DEF Shapes
<1>6. Busy \cap Ends = {} /\ Busy \cap Taking = {} /\ "idle" \notin Busy
      /\ "copy" \notin Busy /\ Ends \cap Taking = {}
  BY DEF Busy, Ends, Taking
<1>7. SocketInv'
  <2>1. \A u \in Pool : pc'[u] \in Taking => pc[u] \in Taking /\ pc'[u] = pc[u]
    BY <1>3, <1>6
  <2>2. \A u \in Pool : pc[u] \in Taking => pc'[u] \in Taking
    BY <1>3, <1>6
  <2>3. pc'[main] = "friends" =>
           pc[main] = "friends" /\ \A u \in Pool : pc'[u] = "idle"
    BY <1>1, <1>2, <1>3, <1>6 DEF SocketInv
  <2>4. \A u \in Threads : pc'[u] \in Ends <=> pc[u] \in Ends
    BY <1>1, <1>2, <1>3, <1>4, <1>6
  <2> QED
    BY <1>3, <2>1, <2>2, <2>3, <2>4 DEF SocketInv
<1>8. ServeInv'
  <2>1. \A u \in Pool : /\ pc'[u] = "idle" => pc[u] = "idle"
                        /\ pc'[u] \in Busy \cup {"copy"} => pc[u] \in Busy \cup {"copy"}
                        /\ pc'[u] \notin Ends \cup {"copy"} =>
                              pc[u] \notin Ends \cup {"copy"}
    BY <1>3, <1>6
  <2> QED
    BY <1>3, <1>4, <2>1 DEF ServeInv
<1> QED
  BY <1>5, <1>7, <1>8

\* The end of the process, at which jobs and datagrams stay as they are.
LEMMA EndKeepsDatagrams ==
  ASSUME DatagramInv, NEW how \in Ends, Ended(how),
         UNCHANGED <<buffer_, received, job, handled, pings>>,
         friends' \in Seq(Nodes)
  PROVE  DatagramInv'
<1> USE DEF DatagramInv
<1>1. \A t \in Threads : pc'[t] \in Ends
  BY DEF Ended
<1>2. main \in Threads /\ Pool \subseteq Threads /\ DOMAIN pc' = Threads
  BY DEF Threads, Ended
<1>3. \A t \in Threads : pc'[t] \notin {"idle", "friends", "copy"} \cup Busy \cup Taking
  BY <1>1 DEF Ends, Busy, Taking
<1>4. Shapes'
  BY <1>1, <1>2 DEF Shapes
<1>5. SocketInv'
  BY <1>1, <1>2, <1>3 DEF SocketInv, Ended
<1>6. ServeInv'
  BY <1>1, <1>2, <1>3 DEF ServeInv
<1> QED
  BY <1>4, <1>5, <1>6

\* A pool thread is through with its datagram.
LEMMA FinishKeepsDatagrams ==
  ASSUME DatagramInv, NEW t \in Pool, pc[t] \in Busy, Finished(t),
         UNCHANGED <<socket, buffer_, received, friends>>,
         SomeSeq(pings')
  PROVE  DatagramInv'
<1> USE DEF DatagramInv
<1>1. /\ main \notin Pool /\ Threads = Pool \cup {main}
      /\ DOMAIN pc = Threads /\ DOMAIN job = Threads /\ t # main
  BY ControlProtocolAssumption DEF Threads, Shapes
<1>2. /\ \A u \in Threads : pc'[u] = IF u = t THEN "idle" ELSE pc[u]
      /\ DOMAIN pc' = Threads
  BY <1>1 DEF Finished, Goto
<1>3. /\ \A u \in Threads : job'[u] = IF u = t THEN NoJob ELSE job[u]
      /\ DOMAIN job' = Threads
  BY <1>1 DEF Finished
<1>4. /\ DOMAIN NoJob = Fields /\ NoJob.serves = 0 /\ NoJob.local = 0
      /\ NoJob.node \in Nodes
  BY DEF NoJob, Fields, Nodes
<1>5. handled' = handled \cup {job[t].serves}
  BY <1>1 DEF Finished
<1>6. /\ job[t].serves # 0 /\ job[t].serves \in Nat
      /\ job[t].serves <= Len(received)
      /\ Len(received) \in Nat
  BY <1>1, AppendAny DEF ServeInv, Shapes
<1>7. Shapes'
  BY <1>1, <1>2, <1>3, <1>4 DEF Shapes
<1>8. "idle" \notin Taking \cup Ends \cup Busy /\ Busy \cap Ends = {}
  BY DEF Taking, Ends, Busy
<1>9. SocketInv'
  <2>1. socket = "done" => job[t].serves # Len(received) /\ Len(received) # 0
    BY <1>6 DEF SocketInv
  <2>2. \A u \in Threads : pc[u] \notin Ends
    BY <1>1, <1>8 DEF SocketInv
  <2>3. pc[main] # "friends"
    BY DEF SocketInv, Busy
  <2>4. \A u \in Pool : pc'[u] \in Taking => pc[u] \in Taking /\ job'[u] = job[u] /\ pc'[u] = pc[u]
    BY <1>1, <1>2, <1>3, <1>8
  <2>5. \A u \in Pool : job'[u].serves # job[u].serves => job'[u].serves = 0
    BY <1>1, <1>3, <1>4
  <2>6. \A u \in Pool : pc[u] \notin Taking => pc'[u] \notin Taking
    BY <2>4
  <2>7. pc'[main] = pc[main] /\ \A u \in Threads : pc'[u] \notin Ends
    BY <1>1, <1>2, <1>8, <2>2
  <2> QED
    BY <1>5, <2>1, <2>3, <2>4, <2>5, <2>6, <2>7 DEF SocketInv
<1>10. ServeInv'
  <2>1. handled' \subseteq 1 .. Len(received)
    <3>1. job[t].serves \in 1 .. Len(received)
      BY <1>6
    <3> QED
      BY <3>1, <1>5 DEF ServeInv
  <2>2. ASSUME NEW u \in Pool
        PROVE  /\ job'[u].serves <= Len(received)
               /\ pc'[u] = "idle" => job'[u].serves = 0
               /\ pc'[u] \in Busy \cup {"copy"} => job'[u].serves # 0
               /\ pc'[u] \notin Ends \cup {"copy"} => job'[u].local = job'[u].serves
               /\ job'[u].serves # 0 =>
                     /\ job'[u].serves \notin handled'
                     /\ \A v \in Pool \ {u} : job'[v].serves # job'[u].serves
    <3>1. CASE u = t
      BY <3>1, <1>1, <1>2, <1>3, <1>4, <1>6, <1>8
    <3>2. CASE u # t
      BY <3>2, <1>1, <1>2, <1>3, <1>4, <1>5 DEF ServeInv
    <3> QED
      BY <3>1, <3>2
  <2>3. ASSUME NEW i \in 1 .. Len(received)
        PROVE  \/ i \in handled'
               \/ \E u \in Pool : job'[u].serves = i
               \/ socket = "done" /\ i = Len(received)
               \/ pc'[main] \in Ends
    BY <1>1, <1>2, <1>3, <1>5 DEF ServeInv
  <2> QED
    BY <2>1, <2>2, <2>3 DEF ServeInv
<1> QED
  BY <1>7, <1>9, <1>10

LEMMA ReceiveKeepsDatagrams ==
  ASSUME DatagramInv, Receive
  PROVE  DatagramInv'
<1> USE DEF DatagramInv
<1> DEFINE n == Len(received)
<1>1. PICK m \in Arrivals : received' = Append(received, m)
  BY DEF Receive
<1>2. m.from \in Peers
  BY DEF Arrivals
<1>3. /\ SomeSeq(received') /\ n \in Nat /\ Len(received') = n + 1
      /\ DOMAIN received = 1 .. n /\ DOMAIN received' = 1 .. n + 1
      /\ \A i \in 1 .. n : received'[i] = received[i]
      /\ received'[n + 1] = m
  BY <1>1, AppendAny DEF Shapes
<1>4. /\ socket = "armed" /\ socket' = "done" /\ buffer_' = n + 1
      /\ UNCHANGED <<pc, job, friends, handled, pings>>
  BY <1>3 DEF Receive, pingVars
<1>5. Shapes'
  <2>1. \A i \in DOMAIN received' : received'[i].from \in Peers
    <3> SUFFICES ASSUME NEW i \in 1 .. n + 1
                 PROVE  received'[i].from \in Peers
      BY <1>3
    <3>1. CASE i \in 1 .. n
      BY <3>1, <1>3 DEF Shapes
    <3>2. CASE i = n + 1
      BY <3>2, <1>2, <1>3
    <3> QED
      BY <3>1, <3>2, <1>3
  <2> QED
    BY <2>1, <1>3, <1>4 DEF Shapes
<1>6. \A t \in Pool : job[t].serves \in Nat /\ job[t].serves <= n
  BY DEF ServeInv, Shapes, Threads
<1>7. SocketInv'
  BY <1>3, <1>4, <1>6 DEF SocketInv, ServeInv
<1>8. ServeInv'
  BY <1>3, <1>4, <1>6 DEF ServeInv
<1> QED
  BY <1>5, <1>7, <1>8

LEMMA DispatchKeepsDatagrams ==
  ASSUME DatagramInv, NEW t \in Pool, Dispatch(t)
  PROVE  DatagramInv'
<1> USE DEF DatagramInv
<1> DEFINE n == Len(received)
           s == IF socket = "done" THEN n ELSE 0
           p == IF socket = "done" THEN "copy" ELSE "listen"
<1>1. /\ main \notin Pool /\ Threads = Pool \cup {main} /\ n \in Nat
      /\ DOMAIN pc = Threads /\ DOMAIN job = Threads /\ t # main
  BY ControlProtocolAssumption, AppendAny DEF Threads, Shapes
<1>2. /\ pc[t] = "idle" /\ socket \in {"done", "error"} /\ socket' = "closed"
      /\ UNCHANGED <<buffer_, received, friends, handled, pings>>
  BY DEF Dispatch, pingVars
<1>3. /\ \A u \in Threads : pc'[u] = IF u = t THEN p ELSE pc[u]
      /\ DOMAIN pc' = Threads
  BY <1>1 DEF Dispatch, Goto
<1>4. /\ \A u \in Threads \ {t} : job'[u] = job[u]
      /\ DOMAIN job' = Threads
      /\ DOMAIN job'[t] = Fields /\ job'[t].serves = s
      /\ job'[t].node = job[t].node
  BY <1>1 DEF Dispatch, Shapes, Fields
<1>5. job[t].serves = 0
  BY <1>2 DEF ServeInv
<1>6. Shapes'
  BY <1>1, <1>2, <1>3, <1>4 DEF Shapes, Taking
<1>7. \A u \in Threads : pc[u] \notin Ends
  BY <1>2 DEF SocketInv
<1>8. \A u \in Pool : pc[u] \notin Taking
  BY <1>2 DEF SocketInv
<1>9. p \in Taking /\ p \notin Ends \cup Busy /\ p # "idle" /\ p # "friends"
  BY DEF Taking, Ends, Busy
<1>10. SocketInv'
  BY <1>1, <1>2, <1>3, <1>4, <1>7, <1>8, <1>9 DEF SocketInv
<1>11. ServeInv'
  <2>1. ASSUME NEW u \in Pool
        PROVE  /\ job'[u].serves <= n
               /\ pc'[u] = "idle" => job'[u].serves = 0
               /\ pc'[u] \in Busy \cup {"copy"} => job'[u].serves # 0
               /\ pc'[u] \notin Ends \cup {"copy"} => job'[u].local = job'[u].serves
               /\ job'[u].serves # 0 =>
                     /\ job'[u].serves \notin handled
                     /\ \A v \in Pool \ {u} : job'[v].serves # job'[u].serves
    <3>1. CASE u = t
      <4>1. socket = "done" => /\ n > 0 /\ n \notin handled
                               /\ \A v \in Pool : job[v].serves # n
        BY DEF SocketInv
      <4>2. job[t].local = 0 /\ job'[t].local = job[t].local
        BY <1>1, <1>2, <1>5 DEF ServeInv, Ends, Dispatch, Shapes, Fields
      <4> QED
        BY <3>1, <4>1, <4>2, <1>1, <1>3, <1>4, <1>9
    <3>2. CASE u # t
      <4>1. /\ job[u].serves \in Nat
            /\ socket = "done" => job[u].serves # n
        BY <1>1 DEF SocketInv, Shapes
      <4> QED
        BY <3>2, <4>1, <1>1, <1>3, <1>4 DEF ServeInv
    <3> QED
      BY <3>1, <3>2
  <2>2. ASSUME NEW i \in 1 .. n
        PROVE  \/ i \in handled
               \/ \E u \in Pool : job'[u].serves = i
    BY <1>1, <1>4, <1>5, <1>7 DEF ServeInv
  <2> QED
    BY <1>2, <2>1, <2>2 DEF ServeInv
<1> QED
  BY <1>6, <1>10, <1>11

LEMMA CopyKeepsDatagrams ==
  ASSUME DatagramInv, NEW t \in Pool, Copy(t)
  PROVE  DatagramInv'
<1> USE DEF DatagramInv
<1>1. /\ main \notin Pool /\ Threads = Pool \cup {main}
      /\ DOMAIN pc = Threads /\ DOMAIN job = Threads /\ t # main
  BY ControlProtocolAssumption DEF Threads, Shapes
<1>2. /\ pc[t] = "copy"
      /\ UNCHANGED <<socket, buffer_, received, friends, handled, pings>>
  BY DEF Copy, inVars, pingVars
<1>3. /\ \A u \in Threads : pc'[u] = IF u = t THEN "listen" ELSE pc[u]
      /\ DOMAIN pc' = Threads
  BY <1>1 DEF Copy, Goto
<1>4. /\ \A u \in Threads \ {t} : job'[u] = job[u]
      /\ DOMAIN job' = Threads
      /\ DOMAIN job'[t] = Fields /\ job'[t].serves = job[t].serves
      /\ job'[t].node = job[t].node
      /\ job'[t].local = buffer_
  BY <1>1 DEF Copy, Shapes, Fields
<1>5. job[t].serves = buffer_
  BY <1>2 DEF SocketInv, Taking
<1>6. Shapes'
  BY <1>1, <1>2, <1>3, <1>4 DEF Shapes, Taking
<1>7. {"listen", "copy"} \subseteq Taking /\ "listen" \notin Ends \cup Busy
  BY DEF Taking, Ends, Busy
<1>8. /\ socket = "closed" /\ \A u \in Pool \ {t} : pc[u] \notin Taking
      /\ pc[main] # "friends"
  BY <1>2, <1>7 DEF SocketInv
<1>9. /\ \A u \in Pool : job'[u].serves = job[u].serves
      /\ \A u \in Threads : pc[u] \notin Ends
  <2>1. pc[t] \notin Ends
    BY <1>2 DEF Ends
  <2> QED
    BY <1>1, <1>4, <2>1 DEF SocketInv
<1>11. SocketInv'
  <2>1. \A u \in Threads : pc'[u] \notin Ends
    BY <1>3, <1>7, <1>9
  <2>2. \A u \in Pool : u # t => pc'[u] \notin Taking
    BY <1>1, <1>3, <1>8
  <2>3. pc'[main] # "friends"
    BY <1>1, <1>3, <1>8
  <2> QED
    BY <1>1, <1>2, <1>3, <1>8, <2>1, <2>2, <2>3 DEF SocketInv
<1>10. ServeInv'
  BY <1>1, <1>2, <1>3, <1>4, <1>5, <1>7, <1>9 DEF ServeInv
<1> QED
  BY <1>6, <1>10, <1>11

LEMMA ListenKeepsDatagrams ==
  ASSUME DatagramInv, NEW t \in Pool, Listen(t)
  PROVE  DatagramInv'
<1> USE DEF DatagramInv
<1> DEFINE p == IF job[t].serves = 0 THEN "idle" ELSE "handle"
<1>1. /\ main \notin Pool /\ Threads = Pool \cup {main}
      /\ DOMAIN pc = Threads /\ t # main
  BY ControlProtocolAssumption DEF Threads, Shapes
<1>2. /\ pc[t] = "listen" /\ socket' = "armed"
      /\ UNCHANGED <<buffer_, received, job, friends, handled, pings>>
  BY DEF Listen, pingVars
<1>3. /\ \A u \in Threads : pc'[u] = IF u = t THEN p ELSE pc[u]
      /\ DOMAIN pc' = Threads
  BY <1>1 DEF Listen, Goto
<1>4. /\ "listen" \in Taking /\ p \notin Taking \cup Ends \cup {"copy"}
      /\ p \in {"idle"} \cup Busy /\ "idle" \notin Busy
      /\ "listen" \notin Ends \cup {"copy", "idle"}
  BY DEF Taking, Ends, Busy
<1>5. /\ socket = "closed" /\ \A u \in Pool \ {t} : pc[u] \notin Taking
      /\ pc[main] # "friends"
  BY <1>2, <1>4 DEF SocketInv
<1>6. \A u \in Threads : pc[u] \notin Ends
  BY <1>1, <1>2, <1>4 DEF SocketInv
<1>7. Shapes'
  BY <1>1, <1>2, <1>3, <1>4 DEF Shapes
<1>8. SocketInv'
  BY <1>1, <1>2, <1>3, <1>4, <1>5, <1>6 DEF SocketInv
<1>9. ServeInv'
  BY <1>1, <1>2, <1>3, <1>4, <1>5, <1>6 DEF ServeInv
<1> QED
  BY <1>7, <1>8, <1>9

\* main creates the protocol; an error completes the receive operation.
LEMMA OpeningKeepsDatagrams ==
  ASSUME DatagramInv, CreateProtocol \/ ReceiveNothing
  PROVE  DatagramInv'
<1> USE DEF DatagramInv
<1>1. /\ main \notin Pool /\ Threads = Pool \cup {main} /\ DOMAIN pc = Threads
  BY ControlProtocolAssumption DEF Threads, Shapes
<1>2. /\ UNCHANGED <<buffer_, received, job, friends, handled, pings>>
      /\ socket # "done" /\ socket' \notin {"done", "closed"}
      /\ \A u \in Pool : pc'[u] = pc[u] /\ pc[u] \notin Taking
      /\ \A u \in Threads : pc'[u] \notin Ends /\ pc[u] \notin Ends
      /\ DOMAIN pc' = Threads
      /\ pc'[main] # "friends" /\ pc'[main] \in {"create", pc[main]}
  <2>1. CASE CreateProtocol
    <3>1. \A u \in Pool : pc[u] = "idle"
      BY <2>1 DEF CreateProtocol, SocketInv
    <3> QED
      BY <2>1, <3>1, <1>1 DEF CreateProtocol, pingVars, Goto, SocketInv, Taking, Ends
  <2>2. CASE ReceiveNothing
    BY <2>2, <1>1 DEF ReceiveNothing, pingVars, SocketInv
  <2> QED
    BY <2>1, <2>2
<1>3. Shapes'
  BY <1>1, <1>2 DEF Shapes
<1>4. SocketInv'
  BY <1>1, <1>2 DEF SocketInv
<1>5. ServeInv'
  BY <1>1, <1>2 DEF ServeInv
<1> QED
  BY <1>3, <1>4, <1>5

-----------------------------------------------------------------------------
\* A thread has made all its pings, or has none to make.
LEMMA FinishedKeepsDatagrams ==
  ASSUME DatagramInv, NEW t \in Threads, Finished(t),
         t \in Pool => pc[t] \in Busy,
         t = main => pc[main] \notin Ends,
         UNCHANGED <<socket, buffer_, received, friends>>,
         SomeSeq(pings')
  PROVE  DatagramInv'
<1>1. CASE t \in Pool
  BY <1>1, FinishKeepsDatagrams
<1>2. CASE t = main
  <2>1. /\ DOMAIN pc = Threads /\ DOMAIN job = Threads /\ main \notin Pool
        /\ friends \in Seq(Nodes)
    BY ControlProtocolAssumption DEF DatagramInv, Shapes
  <2>2. /\ DOMAIN pc' = Threads
        /\ \A u \in Threads : pc'[u] = IF u = t THEN "ping_all" ELSE pc[u]
        /\ DOMAIN job' = Threads
        /\ \A u \in Threads \ {t} : job'[u] = job[u]
        /\ job'[t] = NoJob
        /\ handled' = handled
    BY <1>2, <2>1 DEF Finished, Goto
  <2>3. DOMAIN NoJob = Fields /\ NoJob.serves \in Nat /\ NoJob.node \in Nodes
    BY DEF NoJob, Fields, Nodes
  <2> QED
    BY <1>2, <2>1, <2>2, <2>3, WorkKeepsDatagrams
<1> QED
  BY <1>1, <1>2 DEF Threads

\* A thread that works goes to another place, with its job at most partly changed.
LEMMA StepKeepsDatagrams ==
  ASSUME DatagramInv, NEW t \in Threads, NEW p, Goto(t, p),
         t \in Pool => pc[t] \in Busy /\ p \in Busy,
         t = main => /\ pc[main] \notin Ends
                     /\ p \in {"create", "ping_all", "join", "read", "write",
                               "insert", "send"},
         \/ UNCHANGED job
         \/ \E n \in Nodes : job' = [job EXCEPT ![t].node = n]
         \/ \E x, y : job' = [job EXCEPT ![t].to = x, ![t].holds = y]
         \/ \E x : \/ job' = [job EXCEPT ![t].to = x]
                   \/ job' = [job EXCEPT ![t].id = x]
                   \/ job' = [job EXCEPT ![t].ping = x],
         UNCHANGED <<socket, buffer_, received, friends, handled>>,
         SomeSeq(pings')
  PROVE  DatagramInv'
<1>1. /\ DOMAIN pc = Threads /\ DOMAIN job = Threads /\ main \notin Pool
      /\ friends \in Seq(Nodes)
      /\ DOMAIN job[t] = Fields /\ job[t].serves \in Nat /\ job[t].node \in Nodes
  BY ControlProtocolAssumption DEF DatagramInv, Shapes
<1>2. /\ DOMAIN pc' = Threads
      /\ \A u \in Threads : pc'[u] = IF u = t THEN p ELSE pc[u]
  BY <1>1 DEF Goto
<1>3. /\ DOMAIN job' = Threads
      /\ \A u \in Threads \ {t} : job'[u] = job[u]
      /\ DOMAIN job'[t] = Fields
      /\ job'[t].serves = job[t].serves
      /\ job'[t].local = job[t].local
      /\ job'[t].node \in Nodes
  <2>1. CASE UNCHANGED job
    BY <1>1, <2>1
  <2>2. CASE \E n \in Nodes : job' = [job EXCEPT ![t].node = n]
    BY <1>1, <2>2 DEF Fields
  <2>3. CASE \E x, y : job' = [job EXCEPT ![t].to = x, ![t].holds = y]
    <3>1. PICK x, y : job' = [job EXCEPT ![t].to = x, ![t].holds = y]
      BY <2>3
    <3>2. /\ DOMAIN job' = Threads
          /\ \A u \in Threads \ {t} : job'[u] = job[u]
          /\ job'[t] = [job[t] EXCEPT !.to = x, !.holds = y]
      BY <1>1, <3>1
    <3> QED
      BY <1>1, <3>2 DEF Fields
  <2>4. CASE \E x : \/ job' = [job EXCEPT ![t].to = x]
                   \/ job' = [job EXCEPT ![t].id = x]
                   \/ job' = [job EXCEPT ![t].ping = x]
    BY <1>1, <2>4 DEF Fields
  <2> QED
    BY <2>1, <2>2, <2>3, <2>4
<1>4. job'[t].serves \in Nat /\ friends' \in Seq(Nodes)
  BY <1>1, <1>3
<1>5. UNCHANGED <<socket, buffer_, received, handled>>
  OBVIOUS
<1>6. t = main => /\ pc[main] \notin Ends
                  /\ p \in {"create", "ping_all", "join", "read", "write",
                            "insert", "send", pc[main]}
  OBVIOUS
<1>7. t \in Pool => /\ job'[t].serves = job[t].serves
                    /\ job'[t].local = job[t].local
  BY <1>3
<1> QED
  BY <1>2, <1>3, <1>4, <1>5, <1>6, <1>7, WorkKeepsDatagrams

LEMMA NextPingKeepsDatagrams ==
  ASSUME DatagramInv, NEW t \in Threads, NextPing(t),
         pc[t] \in {"write", "insert", "send"},
         UNCHANGED <<socket, buffer_, received, friends>>,
         SomeSeq(pings')
  PROVE  DatagramInv'
<1>1. pc[t] \in Busy /\ pc[t] \notin Ends /\ "read" \in Busy
  BY DEF Busy, Ends
<1>2. CASE Finished(t)
  BY <1>1, <1>2, FinishedKeepsDatagrams
<1>3. CASE ~Finished(t)
  <2>1. /\ job' = [job EXCEPT ![t].to = Tail(@)]
        /\ Goto(t, "read")
        /\ handled' = handled
    BY <1>3 DEF NextPing
  <2>2. \E x : job' = [job EXCEPT ![t].to = x]
    BY <2>1
  <2> QED
    BY <1>1, <2>1, <2>2, StepKeepsDatagrams
<1> QED
  BY <1>2, <1>3

LEMMA NextStepKeepsDatagrams ==
  ASSUME DatagramInv, NEW t \in Threads, NextStep(t), pc[t] \in {"insert", "send"},
         UNCHANGED <<socket, buffer_, received, friends, pings>>
  PROVE  DatagramInv'
<1>1. SomeSeq(pings')
  BY DEF DatagramInv, Shapes
<1>2. CASE pc[t] = "send"
  BY <1>1, <1>2, NextPingKeepsDatagrams DEF NextStep, AfterId
<1>3. CASE pc[t] = "insert"
  <2>1. Goto(t, "send") /\ UNCHANGED <<job, handled>>
    BY <1>3 DEF NextStep, AfterId
  <2>2. {"insert", "send"} \subseteq Busy /\ "insert" \notin Ends
    BY DEF Busy, Ends
  <2> QED
    BY <1>1, <1>3, <2>1, <2>2, StepKeepsDatagrams
<1> QED
  BY <1>2, <1>3

LEMMA HandleKeepsDatagrams ==
  ASSUME DatagramInv, NEW t \in Pool, Handle(t)
  PROVE  DatagramInv'
<1>1. /\ t \in Threads /\ t # main /\ pc[t] = "handle" /\ Goto(t, "mark")
      /\ UNCHANGED <<socket, buffer_, received, friends, handled, pings>>
  BY ControlProtocolAssumption
     DEF Threads, Handle, HandleMessage, HandleRequest, HandleReply, inVars, pingVars
<1>2. {"handle", "mark"} \subseteq Busy /\ "handle" \notin Ends \cup {"copy"}
  BY DEF Busy, Ends
<1>3. Got(t).from \in Nodes
  <2>1. /\ job[t].local = job[t].serves /\ job[t].serves \in Nat
        /\ job[t].serves # 0 /\ job[t].serves <= Len(received)
    BY <1>1, <1>2 DEF DatagramInv, ServeInv, Shapes
  <2>2. job[t].local \in DOMAIN received
    BY <2>1, AppendAny DEF DatagramInv, Shapes
  <2> QED
    BY <2>2 DEF DatagramInv, Shapes, Got, Nodes
<1>4. \E n \in Nodes : job' = [job EXCEPT ![t].node = n]
  BY <1>3 DEF Handle, HandleMessage, HandleRequest, HandleReply, Nodes
<1>5. SomeSeq(pings')
  BY <1>1 DEF DatagramInv, Shapes
<1> QED
  BY <1>1, <1>2, <1>4, <1>5, StepKeepsDatagrams

LEMMA MarkKeepsDatagrams ==
  ASSUME DatagramInv, NEW t \in Pool, Mark(t)
  PROVE  DatagramInv'
<1>1. /\ t \in Threads /\ t # main /\ pc[t] = "mark"
      /\ UNCHANGED <<socket, buffer_, received, friends, pings>>
  BY ControlProtocolAssumption DEF Threads, Mark, inVars, pingVars
<1>2. {"mark", "read"} \subseteq Busy
  BY DEF Busy
<1>3. SomeSeq(pings')
  BY <1>1 DEF DatagramInv, Shapes
<1>4. CASE Finished(t)
  BY <1>1, <1>2, <1>3, <1>4, FinishedKeepsDatagrams
<1>5. CASE \E nodes, d : MakePings(t, nodes, d)
  <2>1. /\ Goto(t, "read") /\ handled' = handled
        /\ \E x, y : job' = [job EXCEPT ![t].to = x, ![t].holds = y]
    BY <1>5 DEF MakePings
  <2> QED
    BY <1>1, <1>2, <1>3, <2>1, StepKeepsDatagrams
<1> QED
  BY <1>4, <1>5 DEF Mark

LEMMA PingKeepsDatagrams ==
  ASSUME DatagramInv, NEW t \in Threads, Ping(t)
  PROVE  DatagramInv'
<1>1. {"read", "write", "insert", "send"} \subseteq Busy \ Ends
  BY DEF Busy, Ends
<1>2. UNCHANGED <<socket, buffer_, received, friends>>
  BY DEF Ping, ReadId, WriteId, InsertPing, SendPing, inVars
<1>3. CASE ReadId(t)
  <2>1. /\ pc[t] = "read" /\ Goto(t, "write") /\ UNCHANGED <<handled, pings>>
        /\ \E x : job' = [job EXCEPT ![t].id = x]
    BY <1>3 DEF ReadId, pingVars
  <2>2. SomeSeq(pings')
    BY <2>1 DEF DatagramInv, Shapes
  <2> QED
    BY <1>1, <1>2, <2>1, <2>2, StepKeepsDatagrams
<1>4. CASE WriteId(t)
  <2>1. SomeSeq(pings')
    <3>1. SomeSeq(pings)
      BY DEF DatagramInv, Shapes
    <3>2. UNCHANGED pings \/ \E e : pings' = Append(pings, e)
      BY <1>4 DEF WriteId
    <3>3. \A e : SomeSeq(Append(pings, e))
      BY <3>1, AppendAny
    <3> QED
      BY <3>1, <3>2, <3>3
  <2>2. pc[t] = "write"
    BY <1>4 DEF WriteId
  <2>3. CASE NextPing(t)
    BY <1>2, <2>1, <2>2, <2>3, NextPingKeepsDatagrams
  <2>4. CASE ~NextPing(t)
    <3>1. /\ Goto(t, "insert") /\ handled' = handled
          /\ \E x : job' = [job EXCEPT ![t].ping = x]
      BY <1>4, <2>4 DEF WriteId, AfterId
    <3> QED
      BY <1>1, <1>2, <2>1, <2>2, <3>1, StepKeepsDatagrams
  <2> QED
    BY <2>3, <2>4
<1>5. CASE InsertPing(t)
  BY <1>2, <1>5, NextStepKeepsDatagrams DEF InsertPing
<1>6. CASE SendPing(t)
  BY <1>2, <1>6, NextStepKeepsDatagrams DEF SendPing
<1> QED
  BY <1>3, <1>4, <1>5, <1>6 DEF Ping

LEMMA MainKeepsDatagrams ==
  ASSUME DatagramInv,
         LoadFriend \/ BeginPingAll \/ PingBucket \/ EndPingAll
  PROVE  DatagramInv'
<1>1. /\ main \in Threads /\ main \notin Pool
      /\ DOMAIN pc = Threads /\ DOMAIN job = Threads /\ friends \in Seq(Nodes)
      /\ SomeSeq(pings)
  BY ControlProtocolAssumption DEF Threads, DatagramInv, Shapes
<1>2. \A x \in {"friends", "create", "ping_all", "join", "read"} : x \notin Ends
  BY DEF Ends
<1>3. CASE LoadFriend
  <2>1. friends' \in Seq(Nodes)
    BY <1>1, <1>3, HeadTailProperties DEF LoadFriend
  <2>2. /\ pc[main] = "friends"
        /\ UNCHANGED <<buffer_, received, job, handled, pings>>
    BY <1>3 DEF LoadFriend
  <2>3. CASE UNCHANGED <<socket, pc>>
    <3>1. /\ \A u \in Threads : pc'[u] = IF u = main THEN pc[main] ELSE pc[u]
          /\ DOMAIN job[main] = Fields /\ job[main].serves \in Nat
          /\ job[main].node \in Nodes
      BY <1>1, <2>3 DEF DatagramInv, Shapes
    <3> QED
      BY <1>1, <1>2, <2>1, <2>2, <2>3, <3>1, WorkKeepsDatagrams
  <2>4. CASE Ended("undefined")
    BY <2>1, <2>2, <2>4, EndKeepsDatagrams DEF Ends
  <2> QED
    BY <1>3, <2>3, <2>4 DEF LoadFriend
<1>4. CASE BeginPingAll \/ EndPingAll
  <2>1. /\ Goto(main, "ping_all") \/ Goto(main, "join")
        /\ pc[main] \in {"create", "ping_all"}
        /\ UNCHANGED <<socket, buffer_, received, job, friends, handled, pings>>
    BY <1>4 DEF BeginPingAll, EndPingAll, inVars, pingVars
  <2> QED
    BY <1>1, <1>2, <2>1, StepKeepsDatagrams
<1>5. CASE PingBucket
  <2>1. pc[main] = "ping_all" /\ UNCHANGED <<socket, buffer_, received, friends, pings>>
    BY <1>5 DEF PingBucket, inVars, pingVars
  <2>2. CASE Finished(main)
    BY <1>1, <1>2, <2>1, <2>2, FinishedKeepsDatagrams
  <2>3. CASE \E nodes, d : MakePings(main, nodes, d)
    <3>1. /\ Goto(main, "read") /\ handled' = handled
          /\ \E x, y : job' = [job EXCEPT ![main].to = x, ![main].holds = y]
      BY <2>3 DEF MakePings
    <3> QED
      BY <1>1, <1>2, <2>1, <3>1, StepKeepsDatagrams
  <2> QED
    BY <1>5, <2>2, <2>3 DEF PingBucket
<1> QED
  BY <1>3, <1>4, <1>5

LEMMA NextKeepsDatagrams == DatagramInv /\ [Next]_vars => DatagramInv'
<1> SUFFICES ASSUME DatagramInv, [Next]_vars
             PROVE  DatagramInv'
  OBVIOUS
<1>1. CASE Receive
  BY <1>1, ReceiveKeepsDatagrams
<1>2. CASE ReceiveNothing \/ CreateProtocol
  BY <1>2, OpeningKeepsDatagrams
<1>3. ASSUME NEW t \in Pool, PoolThread(t)
      PROVE  DatagramInv'
  <2>1. t \in Threads
    BY DEF Threads
  <2> QED
    BY <1>3, <2>1, DispatchKeepsDatagrams, CopyKeepsDatagrams, ListenKeepsDatagrams,
       HandleKeepsDatagrams, MarkKeepsDatagrams, PingKeepsDatagrams DEF PoolThread
<1>4. CASE LoadFriend \/ BeginPingAll \/ PingBucket \/ EndPingAll
  BY <1>4, MainKeepsDatagrams
<1>5. CASE Ping(main)
  BY <1>5, PingKeepsDatagrams DEF Threads
<1>6. ASSUME NEW how \in Ends, End(how)
      PROVE  DatagramInv'
  BY <1>6, EndKeepsDatagrams DEF End, pingVars, DatagramInv, Shapes
<1>7. CASE UNCHANGED vars
  BY <1>7 DEF vars, inVars, pingVars, DatagramInv, Shapes, SocketInv, ServeInv
<1>8. ASSUME NEW t \in Threads, Clash(t) \/ CannotResolve(t)
      PROVE  DatagramInv'
  BY <1>6, <1>8 DEF Clash, CannotResolve, Ends
<1> QED
  BY <1>1, <1>2, <1>3, <1>4, <1>5, <1>7, <1>8 DEF Next, Main

(***************************************************************************)
(* However many threads share the one buffer_ and the one socket, every    *)
(* datagram received is handled, once and as it was (control_protocol.cpp: *)
(* 41-57, 103-109).                                                        *)
(***************************************************************************)
THEOREM ReceivedAreHandled == Spec => []HandledAsReceived
<1>1. DatagramInv => HandledAsReceived
  <2> SUFFICES ASSUME DatagramInv
               PROVE  HandledAsReceived
    OBVIOUS
  <2>1. DOMAIN received = 1 .. Len(received)
    BY AppendAny DEF DatagramInv, Shapes
  <2>2. ASSUME NEW i \in 1 .. Len(received)
        PROVE  LET serving == { t \in Pool : job[t].serves = i }
               IN  /\ i \in handled => serving = {}
                   /\ i \notin handled =>
                         \/ serving = {} /\ socket = "done" /\ i = buffer_
                         \/ \E t \in Pool : serving = {t}
                         \/ Over
    <3>1. i # 0
      OBVIOUS
    <3>2. ASSUME NEW t \in Pool, job[t].serves = i
          PROVE  { u \in Pool : job[u].serves = i } = {t}
      BY <3>1, <3>2 DEF DatagramInv, ServeInv
    <3>3. ASSUME NEW t \in Pool, job[t].serves = i
          PROVE  i \notin handled
      BY <3>1, <3>3 DEF DatagramInv, ServeInv
    <3>4. CASE \E t \in Pool : job[t].serves = i
      BY <3>2, <3>3, <3>4
    <3>5. CASE \A t \in Pool : job[t].serves # i
      BY <3>5 DEF DatagramInv, ServeInv, SocketInv, Over, Ends
    <3> QED
      BY <3>4, <3>5
  <2>3. \A t \in Pool : pc[t] \notin {"copy", "terminated", "undefined"} =>
           job[t].local = job[t].serves
    BY DEF DatagramInv, ServeInv, Ends
  <2> QED
    BY <2>1, <2>2, <2>3 DEF HandledAsReceived
<1> QED
  BY <1>1, InitDatagrams, NextKeepsDatagrams, PTL DEF Spec

(***************************************************************************)
(* Whatever the protocol does to the routing table, under its lock of the  *)
(* bucket, is a step of NodeTable: what is proved of every behaviour of    *)
(* NodeTable holds for the table of control_protocol.                      *)
(***************************************************************************)
THEOREM TableIsImplemented == Spec => Table!Spec
<1>1. Init => Table!Init
  BY DEF Init
<1>2. DatagramInv /\ [Next]_vars => [Table!Next]_Table!vars
  <2> SUFFICES ASSUME DatagramInv, [Next]_vars, ~UNCHANGED tableVars
               PROVE  Table!Next
    BY DEF tableVars, Table!vars
  <2>1. /\ main \in Threads /\ Pool \subseteq Threads
        /\ friends \in Seq(Nodes)
        /\ \A t \in Threads : job[t].node \in Nodes
    BY DEF Threads, DatagramInv, Shapes
  <2>2. ASSUME NEW t \in Threads, NEW n \in Nodes, Table!mark_seen(t, n)
        PROVE  Table!Next
    BY <2>2 DEF Table!Next
  <2>3. CASE \E t \in Pool : Mark(t)
    BY <2>1, <2>2, <2>3 DEF Mark
  <2>4. CASE LoadFriend
    <3>1. Head(friends) \in Nodes
      BY <2>1, <2>4, HeadTailProperties DEF LoadFriend
    <3> QED
      BY <2>1, <2>2, <2>4, <3>1 DEF LoadFriend
  <2>5. CASE BeginPingAll \/ PingBucket \/ EndPingAll
    BY <2>1, <2>5 DEF BeginPingAll, PingBucket, EndPingAll, Table!Next
  <2>6. CASE Receive \/ ReceiveNothing \/ CreateProtocol \/ UNCHANGED vars
    BY <2>6 DEF Receive, ReceiveNothing, CreateProtocol, vars
  <2>7. ASSUME NEW t \in Threads, Clash(t) \/ CannotResolve(t)
        PROVE  FALSE
    BY <2>7 DEF Clash, CannotResolve, End
  <2>8. ASSUME NEW t, \/ Dispatch(t) \/ Copy(t) \/ Listen(t)
                      \/ HandleMessage(t) \/ HandleRequest(t) \/ HandleReply(t)
                      \/ ReadId(t) \/ WriteId(t) \/ InsertPing(t) \/ SendPing(t)
        PROVE  FALSE
    BY <2>8 DEF Dispatch, Copy, Listen, HandleMessage, HandleRequest, HandleReply,
                ReadId, WriteId, InsertPing, SendPing
  <2> QED
    BY <2>3, <2>4, <2>5, <2>6, <2>7, <2>8 DEF Next, Main, PoolThread, Handle, Ping
<1>3. Spec => []DatagramInv
  BY InitDatagrams, NextKeepsDatagrams, PTL DEF Spec
<1> QED
  BY <1>1, <1>2, <1>3, PTL DEF Spec, Table!Spec

-----------------------------------------------------------------------------
(***************************************************************************)
(* NodeTableProofs for this table.  Its NodeTable is the one of Table, but *)
(* for the prover each of them has definitions of its own.                 *)
(***************************************************************************)
Proved == INSTANCE NodeTableProofs WITH Keys <- {}, alpha <- 1

\* The two have the same operators ...
LEMMA SameOperators ==
  /\ \A g, h : Proved!bit_distance(g, h) = Table!bit_distance(g, h)
  /\ \A b : Proved!Table(b) = Table!Table(b)
  /\ \A nodes : Proved!Others(nodes) = Table!Others(nodes)
  /\ \A list : Proved!ToSet(list) = Table!ToSet(list)
  /\ \A list, n : Proved!Seen(list, n) = Table!Seen(list, n)
  /\ \A list, a : Proved!RemoveFirst(list, a) = Table!RemoveFirst(list, a)
  /\ \A list : /\ Proved!Kept(list) = Table!Kept(list)
               /\ Proved!Evicted(list) = Table!Evicted(list)
<1> USE DEF Proved!SameNode, Table!SameNode, Proved!SelectInSeq, Table!SelectInSeq,
            Proved!Min, Table!Min, Proved!RemoveAt, Table!RemoveAt
<1>1. \A g, h : Proved!bit_distance(g, h) = Table!bit_distance(g, h)
  BY DEF Proved!bit_distance, Table!bit_distance, Proved!Cardinality,
         Table!Cardinality
<1>2. \A list : Proved!ToSet(list) = Table!ToSet(list)
  BY DEF Proved!ToSet, Table!ToSet
<1>3. \A b : Proved!Table(b) = Table!Table(b)
  BY <1>2 DEF Proved!Table, Table!Table, Proved!Buckets, Table!Buckets
<1>4. \A nodes : Proved!Others(nodes) = Table!Others(nodes)
  BY DEF Proved!Others, Table!Others
<1>5. \A list, n : Proved!Seen(list, n) = Table!Seen(list, n)
  BY DEF Proved!Seen, Table!Seen, Proved!Forget, Table!Forget
<1>6. \A list, a : Proved!RemoveFirst(list, a) = Table!RemoveFirst(list, a)
  BY DEF Proved!RemoveFirst, Table!RemoveFirst
<1>7. \A list : /\ Proved!Kept(list) = Table!Kept(list)
                /\ Proved!Evicted(list) = Table!Evicted(list)
  BY DEF Proved!Kept, Table!Kept, Proved!Evicted, Table!Evicted, Proved!Front,
         Table!Front, Proved!Last, Table!Last
<1> QED
  BY <1>1, <1>2, <1>3, <1>4, <1>5, <1>6, <1>7

LEMMA SameOfferAll ==
  \A pq, nodes, key, limit, allow, a :
     Proved!OfferAll(pq, nodes, key, limit, allow, a) =
        Table!OfferAll(pq, nodes, key, limit, allow, a)
BY DEF Proved!OfferAll, Table!OfferAll, Proved!Offer, Table!Offer,
       Proved!OfferBetter, Table!OfferBetter, Proved!InsertionPoint,
       Table!InsertionPoint, Proved!SelectInSeq, Table!SelectInSeq, Proved!Min,
       Table!Min, Proved!InsertAt, Table!InsertAt, Proved!Front, Table!Front,
       Proved!Entry, Table!Entry, Proved!bit_distance, Table!bit_distance,
       Proved!Cardinality, Table!Cardinality

\* ... and steps.
LEMMA SameSteps == Table!Next => Proved!Next
<1> SUFFICES ASSUME NEW t \in Threads,
                    \/ \E n \in Nodes : Table!mark_seen(t, n) \/ Table!MarkOutOfRange(t, n)
                    \/ Table!ScanBucket(t)
                    \/ Table!BeginPingAll(t)
                    \/ Table!PingBucket(t)
                    \/ Table!Return(t)
             PROVE  Proved!Next
  BY DEF Table!Next
<1> USE DEF Proved!Free, Table!Free, Proved!Buckets, Table!Buckets
<1>1. ASSUME NEW n \in Nodes, Table!mark_seen(t, n)
      PROVE  Proved!mark_seen(t, n)
  BY <1>1, SameOperators DEF Proved!mark_seen, Table!mark_seen
<1>2. ASSUME NEW n \in Nodes, Table!MarkOutOfRange(t, n)
      PROVE  Proved!MarkOutOfRange(t, n)
  BY <1>2, SameOperators DEF Proved!MarkOutOfRange, Table!MarkOutOfRange
<1>3. ASSUME Table!ScanBucket(t)
      PROVE  Proved!ScanBucket(t)
  BY <1>3, SameOperators, SameOfferAll DEF Proved!ScanBucket, Table!ScanBucket
<1>4. ASSUME Table!BeginPingAll(t)
      PROVE  Proved!BeginPingAll(t)
  BY <1>4, SameOperators DEF Proved!BeginPingAll, Table!BeginPingAll
<1>5. ASSUME Table!PingBucket(t)
      PROVE  Proved!PingBucket(t)
  BY <1>5, SameOperators DEF Proved!PingBucket, Table!PingBucket
<1>6. ASSUME Table!Return(t)
      PROVE  Proved!Return(t)
  BY <1>6 DEF Proved!Return, Table!Return
<1> QED
  BY <1>1, <1>2, <1>3, <1>4, <1>5, <1>6 DEF Proved!Next

LEMMA SameTable == Table!Spec => Proved!Spec
<1>1. Table!Init => Proved!Init
  BY DEF Proved!Init, Table!Init, Proved!Buckets, Table!Buckets, Proved!Free,
         Table!Free
<1>2. [Table!Next]_Table!vars => [Proved!Next]_Proved!vars
  BY SameSteps DEF Proved!vars, Table!vars
<1> QED
  BY <1>1, <1>2, PTL DEF Proved!Spec, Table!Spec

\* What NodeTable assumes of its constants.
LEMMA TableAssumption == Proved!NodeTableAssumption
<1>1. \A d \in 0 .. HASH_BITS - 1 : d \in Nat
  BY HashBitsAssumption
<1>2. \A n \in Nodes : Proved!bit_distance(Self.nodeId, n.nodeId) \in Nat
  BY <1>1, ControlProtocolAssumption
     DEF Proved!bit_distance, bit_distance, Proved!Cardinality, Cardinality
<1> QED
  BY <1>2, ControlProtocolAssumption

(***************************************************************************)
(* What is proved of NodeTable holds for the table of the protocol: the    *)
(* types, and the invariant of its buckets.                                *)
(***************************************************************************)
LEMMA TableInvariants == Spec => [](Proved!TableInv /\ Proved!TypeOK)
<1>1. Proved!NodeTableAssumption
  BY TableAssumption
<1> QED
  BY <1>1, SameTable, TableIsImplemented, Proved!TableInvariant, Proved!TypeCorrect,
     HashBitsAssumption, PTL

(***************************************************************************)
(* So the buckets of the protocol, which the threads mark nodes in while   *)
(* main pings everyone, hold the most recent nodes, each at its distance,  *)
(* and ping_all reaches all that stay.                                     *)
(***************************************************************************)
THEOREM TableIsSound ==
  Spec => [](Table!BucketsWellFormed /\ Table!MostRecentKept /\ Table!EveryoneIsPinged)
<1>1. Proved!NodeTableAssumption
  BY TableAssumption
<1>2. Proved!BucketsWellFormed => Table!BucketsWellFormed
  BY SameOperators DEF Proved!BucketsWellFormed, Table!BucketsWellFormed,
         Proved!Buckets, Table!Buckets, Proved!SameNode, Table!SameNode
<1>3. Proved!MostRecentKept => Table!MostRecentKept
  BY DEF Proved!MostRecentKept, Table!MostRecentKept, Proved!Buckets, Table!Buckets,
         Proved!Min, Table!Min
<1>4. Proved!EveryoneIsPinged => Table!EveryoneIsPinged
  BY DEF Proved!EveryoneIsPinged, Table!EveryoneIsPinged, Proved!SameNode,
         Table!SameNode
<1> QED
  BY <1>1, <1>2, <1>3, <1>4, SameTable, TableIsImplemented, HashBitsAssumption,
     Proved!BucketsAreWellFormed, Proved!MostRecentAreKept,
     Proved!PingAllPingsEveryone, PTL

-----------------------------------------------------------------------------
(***************************************************************************)
(* The order of the addresses seen, for threads that handle datagrams at   *)
(* the same time.  A datagram has marked its node once it is handled, or   *)
(* while the ping of the evicted node is under way.                        *)
(***************************************************************************)
Evicting == {"read", "write", "insert", "send"}

Marker(i) == IF received[i].kind = "request" THEN Self ELSE received[i].from

MarkingAt(d, a) ==
    { i \in DOMAIN received : /\ Marker(i).addr = a
                              /\ bit_distance(Self.nodeId, Marker(i).nodeId) = d }

Marked == { i \in DOMAIN received :
              i \in handled \/ \E t \in Pool : job[t].serves = i /\ pc[t] \in Evicting }

\* What the handlers leave for mark_seen, and when.
MarkerInv ==
    /\ \A t \in Pool : pc[t] = "mark" => job[t].node = Marker(job[t].serves)
    /\ \A i \in DOMAIN received : received[i].after \subseteq handled
    /\ pc[main] = "friends" => received = <<>>

\* Before an address is one that a datagram marked whose handling was not over.
OrderInv ==
    \A d \in 0 .. HASH_BITS - 1 : \A x, y \in DOMAIN recency[d] : x < y =>
        \A k \in MarkingAt(d, recency[d][y]) \cap Marked :
            ~(MarkingAt(d, recency[d][x]) \subseteq received[k].after)

LEMMA InitOrder == Init => MarkerInv /\ OrderInv
<1> SUFFICES ASSUME Init
             PROVE  MarkerInv /\ OrderInv
  OBVIOUS
<1>1. received = <<>> /\ DOMAIN <<>> = {}
  BY EmptySeq DEF Init
<1>2. \A t \in Pool : pc[t] = "idle"
  BY ControlProtocolAssumption DEF Init, Threads
<1> QED
  BY <1>1, <1>2 DEF MarkerInv, OrderInv, MarkingAt

\* A step that marks nothing and receives nothing.
LEMMA QuietOrder ==
  ASSUME DatagramInv, MarkerInv, OrderInv, UNCHANGED <<received, recency>>,
         handled \subseteq handled', Marked' \subseteq Marked,
         \A t \in Pool : pc'[t] = "mark" => job'[t].node = Marker(job'[t].serves),
         pc'[main] = "friends" => pc[main] = "friends"
  PROVE  MarkerInv' /\ OrderInv'
<1>1. MarkerInv'
  BY DEF MarkerInv, Marker
<1>2. OrderInv'
  <2> SUFFICES ASSUME NEW d \in 0 .. HASH_BITS - 1,
                      NEW x \in DOMAIN recency[d], NEW y \in DOMAIN recency[d], x < y,
                      NEW k \in MarkingAt(d, recency[d][y]) \cap Marked
               PROVE  ~(MarkingAt(d, recency[d][x]) \subseteq received[k].after)
    BY DEF OrderInv, MarkingAt, Marker
  <2> QED
    BY DEF OrderInv
<1> QED
  BY <1>1, <1>2

(***************************************************************************)
(* mark_seen by the thread t: its datagram, whose handling is not over, is *)
(* what the address that moves to the front has on all others.             *)
(***************************************************************************)
LEMMA MarkKeepsOrder ==
  ASSUME DatagramInv, Proved!TableInv, Proved!TableInv', MarkerInv, OrderInv,
         NEW t \in Pool, Mark(t)
  PROVE  MarkerInv' /\ OrderInv'
<1> DEFINE m == job[t].serves
           n == job[t].node
           d0 == bit_distance(Self.nodeId, n.nodeId)
           now == <<n.addr>> \o Proved!RemoveFirst(recency[d0], n.addr)
<1>1. /\ t \in Threads /\ t # main /\ pc[t] = "mark" /\ UNCHANGED received
      /\ Table!mark_seen(t, n)
      /\ Finished(t) \/ \E nodes, d : MakePings(t, nodes, d)
  BY ControlProtocolAssumption DEF Threads, Mark, inVars
<1>2. /\ m \in DOMAIN received /\ m \notin handled
      /\ n = Marker(m)
  <2>1. /\ m \in Nat /\ m # 0 /\ m <= Len(received) /\ m \notin handled
    BY <1>1 DEF DatagramInv, ServeInv, Shapes, Busy
  <2>2. DOMAIN received = 1 .. Len(received) /\ Len(received) \in Nat
    BY AppendAny DEF DatagramInv, Shapes
  <2> QED
    BY <1>1, <2>1, <2>2 DEF MarkerInv
<1>3. /\ DOMAIN pc = Threads /\ DOMAIN job = Threads
      /\ \A u \in Threads \ {t} : pc'[u] = pc[u] /\ job'[u] = job[u]
      /\ pc'[t] \in {"idle", "read"}
      /\ handled \subseteq handled' /\ handled' \subseteq handled \cup {m}
      /\ job'[t].serves \in {0, m}
  <2>1. DOMAIN pc = Threads /\ DOMAIN job = Threads /\ DOMAIN job[t] = Fields
    BY <1>1 DEF DatagramInv, Shapes
  <2>2. CASE Finished(t)
    BY <1>1, <2>1, <2>2 DEF Finished, Goto, NoJob
  <2>3. CASE \E nodes, d : MakePings(t, nodes, d)
    <3>1. PICK nodes, d : MakePings(t, nodes, d)
      BY <2>3
    <3>2. /\ \A u \in Threads \ {t} : pc'[u] = pc[u] /\ job'[u] = job[u]
          /\ pc'[t] = "read" /\ handled' = handled
      BY <1>1, <2>1, <3>1 DEF MakePings, Goto
    <3>3. job'[t] = [job[t] EXCEPT !.to = nodes, !.holds = {d}]
      BY <1>1, <2>1, <3>1 DEF MakePings
    <3>4. job'[t].serves = m
      BY <2>1, <3>3 DEF Fields
    <3> QED
      BY <2>1, <3>2, <3>4
  <2> QED
    BY <1>1, <2>2, <2>3
<1>4. Marked' \subseteq Marked \cup {m}
  <2> SUFFICES ASSUME NEW i \in DOMAIN received, i # m, i \in Marked'
               PROVE  i \in Marked
    BY <1>1 DEF Marked
  <2>1. i # 0
    BY AppendAny DEF DatagramInv, Shapes
  <2> QED
    BY <1>1, <1>3, <2>1 DEF Marked, Threads
<1>5. MarkerInv'
  <2>1. \A u \in Pool : pc'[u] = "mark" => job'[u].node = Marker(job'[u].serves)
    BY <1>3 DEF MarkerInv, Threads
  <2>2. pc'[main] = pc[main]
    BY <1>1, <1>3 DEF Threads
  <2> QED
    BY <1>1, <1>3, <2>1, <2>2 DEF MarkerInv, Marker
<1>6. /\ d0 \in 0 .. HASH_BITS - 1
      /\ recency' = [recency EXCEPT ![d0] = now]
      /\ recency \in [0 .. HASH_BITS - 1 -> Seq(Proved!Addrs)]
      /\ \A d \in 0 .. HASH_BITS - 1 : Proved!DistinctAddrs(recency'[d])
  BY <1>1, SameOperators
     DEF Table!mark_seen, Table!Buckets, Proved!Buckets, Proved!TableInv, Proved!BucketInv,
         Table!bit_distance, bit_distance, Table!Cardinality, Cardinality
<1>7. ASSUME NEW d \in 0 .. HASH_BITS - 1,
             NEW x \in DOMAIN recency'[d], NEW y \in DOMAIN recency'[d], x < y,
             NEW k \in MarkingAt(d, recency'[d][y]) \cap Marked'
      PROVE  ~(MarkingAt(d, recency'[d][x]) \subseteq received[k].after)
  <2>1. k = m => d = d0 /\ recency'[d][y] = n.addr
    BY <1>2 DEF MarkingAt
  <2>2. k \in DOMAIN received /\ received[k].after \subseteq handled
    BY DEF MarkingAt, MarkerInv
  <2>3. CASE d # d0
    <3>1. recency'[d] = recency[d] /\ k \in Marked
      BY <1>4, <1>6, <2>1, <2>3
    <3> QED
      BY <1>7, <3>1 DEF OrderInv
  <2>4. CASE d = d0
    <3>1. /\ recency'[d] = now
          /\ recency[d] \in Seq(Proved!Addrs) /\ n.addr \in Proved!Addrs
      <4>1. n \in Nodes
        BY <1>1 DEF DatagramInv, Shapes
      <4> QED
        BY <1>6, <2>4, <4>1 DEF Proved!Addrs
    <3>2. /\ now[1] = n.addr
          /\ \E q \in DOMAIN recency[d] :
                /\ now[y] = recency[d][q]
                /\ x # 1 => \E p \in DOMAIN recency[d] : p < q /\ now[x] = recency[d][p]
      <4>1. Proved!OthersInOrder(now, recency[d], n.addr)
        BY <2>4, <3>1, Proved!OthersKeepOrder, TableAssumption, HashBitsAssumption
      <4> HIDE DEF now
      <4> QED
        BY <1>7, <3>1, <4>1 DEF Proved!OthersInOrder
    <3>3. CASE x = 1
      <4>1. m \in MarkingAt(d, recency'[d][x])
        BY <1>2, <2>4, <3>1, <3>2, <3>3 DEF MarkingAt
      <4> QED
        BY <1>2, <2>2, <4>1
    <3>4. CASE x # 1
      <4>1. k # m
        <5>1. recency'[d] \in Seq(Proved!Addrs) /\ Proved!DistinctAddrs(recency'[d])
          BY <1>6 DEF Proved!TableInv, Proved!Buckets
        <5>2. DOMAIN recency'[d] = 1 .. Len(recency'[d])
          BY <5>1, LenProperties
        <5>3. 1 \in DOMAIN recency'[d] /\ y # 1
          BY <1>7, <5>2
        <5> QED
          BY <2>1, <3>1, <3>2, <5>1, <5>2, <5>3 DEF Proved!DistinctAddrs
      <4>2. k \in Marked
        BY <1>4, <4>1
      <4>3. PICK q \in DOMAIN recency[d], p \in DOMAIN recency[d] :
               p < q /\ recency'[d][y] = recency[d][q] /\ recency'[d][x] = recency[d][p]
        BY <3>1, <3>2, <3>4
      <4> QED
        BY <1>7, <4>2, <4>3 DEF OrderInv
    <3> QED
      BY <3>3, <3>4
  <2> QED
    BY <2>3, <2>4
<1>8. OrderInv'
  BY <1>1, <1>7 DEF OrderInv, MarkingAt, Marker
<1> QED
  BY <1>5, <1>8

\* A datagram comes in, of which nothing is handled yet.
LEMMA ReceiveKeepsOrder ==
  ASSUME DatagramInv, MarkerInv, OrderInv, Receive
  PROVE  MarkerInv' /\ OrderInv'
<1> DEFINE n == Len(received)
<1>1. PICK m \in Arrivals : received' = Append(received, m)
  BY DEF Receive
<1>2. m.after = handled
  BY DEF Arrivals
<1>3. /\ n \in Nat
      /\ DOMAIN received = 1 .. n /\ DOMAIN received' = 1 .. n + 1
      /\ \A i \in 1 .. n : received'[i] = received[i]
      /\ received'[n + 1] = m
  BY <1>1, AppendAny DEF DatagramInv, Shapes
<1>4. socket = "armed" /\ UNCHANGED <<recency, pc, job, handled>>
  BY DEF Receive, tableVars
<1>5. /\ \A t \in Pool : job[t].serves \in Nat /\ job[t].serves <= n
      /\ handled \subseteq 1 .. n
  BY DEF DatagramInv, ServeInv, Shapes, Threads
<1>6. \A t \in Pool : pc[t] = "mark" => job[t].serves # 0
  BY DEF DatagramInv, ServeInv, Busy
<1> HIDE DEF n
<1>7. MarkerInv'
  <2>1. \A t \in Pool : pc[t] = "mark" => job[t].serves \in 1 .. n
    BY <1>3, <1>5, <1>6
  <2>2. pc[main] # "friends"
    BY <1>4 DEF DatagramInv, SocketInv
  <2>3. \A i \in 1 .. n + 1 : i \in 1 .. n \/ i = n + 1
    BY <1>3
  <2> QED
    BY <1>2, <1>3, <1>4, <2>1, <2>2, <2>3 DEF MarkerInv, Marker
<1>8. OrderInv'
  <2> SUFFICES ASSUME NEW d \in 0 .. HASH_BITS - 1,
                      NEW x \in DOMAIN recency[d], NEW y \in DOMAIN recency[d], x < y,
                      NEW k \in MarkingAt(d, recency[d][y])' \cap Marked'
               PROVE  ~(MarkingAt(d, recency[d][x])' \subseteq received'[k].after)
    BY <1>4 DEF OrderInv
  <2>1. k \in 1 .. n /\ k \in Marked
    <3>1. \A t \in Pool : job[t].serves # n + 1
      BY <1>3, <1>5
    <3>2. n + 1 \notin handled
      BY <1>3, <1>5
    <3> QED
      BY <1>3, <1>4, <3>1, <3>2 DEF Marked
  <2>2. k \in MarkingAt(d, recency[d][y])
    BY <1>3, <1>4, <2>1 DEF MarkingAt, Marker
  <2>3. MarkingAt(d, recency[d][x]) \subseteq MarkingAt(d, recency[d][x])'
    BY <1>3, <1>4 DEF MarkingAt, Marker
  <2> QED
    BY <1>3, <2>1, <2>2, <2>3 DEF OrderInv
<1> QED
  BY <1>7, <1>8

\* Friends are loaded before any datagram is received.
LEMMA LoadFriendKeepsOrder ==
  ASSUME DatagramInv, MarkerInv, LoadFriend
  PROVE  MarkerInv' /\ OrderInv'
<1>1. /\ pc[main] = "friends" /\ UNCHANGED <<received, job, handled>>
      /\ UNCHANGED pc \/ Ended("undefined")
  BY DEF LoadFriend
<1>2. received = <<>> /\ DOMAIN <<>> = {}
  BY <1>1, EmptySeq DEF MarkerInv
<1>3. \A t \in Pool : pc'[t] # "mark"
  BY <1>1 DEF DatagramInv, SocketInv, Ended, Threads
<1> QED
  BY <1>1, <1>2, <1>3 DEF MarkerInv, OrderInv, MarkingAt

\* A step of one thread, which marks nothing.
LEMMA OneThreadMarksNothing ==
  ASSUME DatagramInv, MarkerInv, OrderInv, NEW t \in Threads,
         UNCHANGED <<received, recency>>,
         \A u \in Threads \ {t} : pc'[u] = pc[u] /\ job'[u] = job[u],
         \/ handled' = handled
         \/ t \in Pool /\ pc[t] \in Evicting /\ handled' = handled \cup {job[t].serves},
         t \in Pool => /\ pc'[t] \in Evicting => /\ pc[t] \in Evicting
                                               /\ job'[t].serves = job[t].serves
                       /\ pc'[t] = "mark" => job'[t].node = Marker(job'[t].serves),
         t = main => pc'[main] # "friends"
  PROVE  MarkerInv' /\ OrderInv'
<1>1. Marked' \subseteq Marked
  BY DEF Marked, Threads
<1>2. \A u \in Pool : pc'[u] = "mark" => job'[u].node = Marker(job'[u].serves)
  BY DEF MarkerInv, Threads
<1>3. pc'[main] = "friends" => pc[main] = "friends"
  BY DEF Threads
<1> QED
  BY <1>1, <1>2, <1>3, QuietOrder

LEMMA TakingKeepsOrder ==
  ASSUME DatagramInv, MarkerInv, OrderInv, NEW t \in Pool,
         Dispatch(t) \/ Copy(t) \/ Listen(t)
  PROVE  MarkerInv' /\ OrderInv'
<1>1. /\ DOMAIN pc = Threads /\ DOMAIN job = Threads /\ t \in Threads /\ t # main
  BY ControlProtocolAssumption DEF DatagramInv, Shapes, Threads
<1>2. UNCHANGED <<received, recency, handled>>
  BY DEF Dispatch, Copy, Listen, tableVars, inVars
<1>3. /\ \A u \in Threads \ {t} : pc'[u] = pc[u] /\ job'[u] = job[u]
      /\ pc'[t] \in {"copy", "listen", "idle", "handle"}
  BY <1>1 DEF Dispatch, Copy, Listen, Goto
<1> QED
  BY <1>1, <1>2, <1>3, OneThreadMarksNothing DEF Evicting

LEMMA HandleKeepsOrder ==
  ASSUME DatagramInv, MarkerInv, OrderInv, NEW t \in Pool, Handle(t)
  PROVE  MarkerInv' /\ OrderInv'
<1>1. /\ DOMAIN pc = Threads /\ DOMAIN job = Threads /\ t \in Threads /\ t # main
      /\ DOMAIN job[t] = Fields
  BY ControlProtocolAssumption DEF DatagramInv, Shapes, Threads
<1>2. UNCHANGED <<received, recency, handled>>
  BY DEF Handle, HandleMessage, HandleRequest, HandleReply, tableVars, inVars
<1>3. pc[t] = "handle" /\ \A u \in Threads : pc'[u] = IF u = t THEN "mark" ELSE pc[u]
  BY <1>1 DEF Handle, HandleMessage, HandleRequest, HandleReply, Goto
<1>4. job[t].local = job[t].serves
  BY <1>3 DEF DatagramInv, ServeInv, Ends
<1>5. job' = [job EXCEPT ![t].node = Marker(job[t].serves)]
  BY <1>4 DEF Handle, HandleMessage, HandleRequest, HandleReply, Got, Marker
<1>6. /\ \A u \in Threads \ {t} : job'[u] = job[u]
      /\ job'[t].node = Marker(job[t].serves) /\ job'[t].serves = job[t].serves
  BY <1>1, <1>5 DEF Fields
<1> QED
  BY <1>1, <1>2, <1>3, <1>6, OneThreadMarksNothing DEF Evicting

LEMMA PingKeepsOrder ==
  ASSUME DatagramInv, MarkerInv, OrderInv, NEW t \in Threads, Ping(t)
  PROVE  MarkerInv' /\ OrderInv'
<1>1. /\ DOMAIN pc = Threads /\ DOMAIN job = Threads /\ main \notin Pool
      /\ DOMAIN job[t] = Fields
  BY ControlProtocolAssumption DEF DatagramInv, Shapes
<1>2. UNCHANGED <<received, recency>> /\ pc[t] \in Evicting
  BY DEF Ping, ReadId, WriteId, InsertPing, SendPing, tableVars, inVars, Evicting
<1>3. CASE Finished(t)
  <2>1. /\ \A u \in Threads \ {t} : pc'[u] = pc[u] /\ job'[u] = job[u]
        /\ pc'[t] \in {"idle", "ping_all"}
        /\ handled' = IF t = main THEN handled ELSE handled \cup {job[t].serves}
    BY <1>1, <1>3 DEF Finished, Goto
  <2> QED
    BY <1>1, <1>2, <2>1, OneThreadMarksNothing DEF Evicting, Threads
<1>4. CASE /\ handled' = handled
           /\ \E p \in Evicting : Goto(t, p)
           /\ \/ job' = job
              \/ \E x : \/ job' = [job EXCEPT ![t].to = x]
                        \/ job' = [job EXCEPT ![t].id = x]
                        \/ job' = [job EXCEPT ![t].ping = x]
  <2>1. /\ \A u \in Threads \ {t} : pc'[u] = pc[u] /\ job'[u] = job[u]
        /\ pc'[t] \in Evicting
        /\ job'[t].serves = job[t].serves
    BY <1>1, <1>4 DEF Goto, Fields
  <2> QED
    BY <1>1, <1>2, <1>4, <2>1, OneThreadMarksNothing DEF Evicting
<1>5. ASSUME NextPing(t), ~Finished(t)
      PROVE  /\ handled' = handled
             /\ \E p \in Evicting : Goto(t, p)
             /\ \E x : job' = [job EXCEPT ![t].to = x]
  BY <1>5 DEF NextPing, Evicting
<1>6. CASE ReadId(t)
  BY <1>4, <1>6 DEF ReadId, Evicting
<1>7. CASE WriteId(t)
  <2>1. CASE NextPing(t)
    BY <1>3, <1>4, <1>5, <2>1
  <2>2. CASE ~NextPing(t)
    BY <1>4, <1>7, <2>2 DEF WriteId, AfterId, Evicting
  <2> QED
    BY <2>1, <2>2
<1>8. CASE InsertPing(t)
  BY <1>4, <1>8 DEF InsertPing, NextStep, AfterId, Evicting
<1>9. CASE SendPing(t)
  BY <1>3, <1>4, <1>5, <1>9 DEF SendPing, NextStep, AfterId
<1> QED
  BY <1>6, <1>7, <1>8, <1>9 DEF Ping

LEMMA MainKeepsOrder ==
  ASSUME DatagramInv, MarkerInv, OrderInv, BeginPingAll \/ PingBucket \/ EndPingAll
  PROVE  MarkerInv' /\ OrderInv'
<1>1. /\ DOMAIN pc = Threads /\ DOMAIN job = Threads /\ main \notin Pool
      /\ main \in Threads
  BY ControlProtocolAssumption DEF DatagramInv, Shapes, Threads
<1>2. UNCHANGED <<received, recency>>
  BY DEF BeginPingAll, PingBucket, EndPingAll, inVars, Table!BeginPingAll,
         Table!PingBucket, Table!Return
<1>3. /\ \A u \in Threads \ {main} : pc'[u] = pc[u] /\ job'[u] = job[u]
      /\ pc'[main] # "friends"
      /\ handled' = handled
  <2>1. CASE BeginPingAll \/ EndPingAll
    BY <1>1, <2>1 DEF BeginPingAll, EndPingAll, Goto
  <2>2. CASE PingBucket
    BY <1>1, <2>2 DEF PingBucket, Finished, MakePings, Goto
  <2> QED
    BY <2>1, <2>2
<1> QED
  BY <1>1, <1>2, <1>3, OneThreadMarksNothing

LEMMA NextKeepsOrder ==
  DatagramInv /\ Proved!TableInv /\ Proved!TableInv' /\ MarkerInv /\ OrderInv
     /\ [Next]_vars => MarkerInv' /\ OrderInv'
<1> SUFFICES ASSUME DatagramInv, Proved!TableInv, Proved!TableInv', MarkerInv, OrderInv,
                    [Next]_vars
             PROVE  MarkerInv' /\ OrderInv'
  OBVIOUS
<1>1. CASE Receive
  BY <1>1, ReceiveKeepsOrder
<1>2. ASSUME NEW t \in Pool, PoolThread(t)
      PROVE  MarkerInv' /\ OrderInv'
  <2>1. t \in Threads
    BY DEF Threads
  <2> QED
    BY <1>2, <2>1, TakingKeepsOrder, HandleKeepsOrder, MarkKeepsOrder, PingKeepsOrder
       DEF PoolThread
<1>3. CASE LoadFriend
  BY <1>3, LoadFriendKeepsOrder
<1>4. CASE BeginPingAll \/ PingBucket \/ EndPingAll
  BY <1>4, MainKeepsOrder
<1>5. CASE Ping(main)
  BY <1>5, PingKeepsOrder DEF Threads
<1>6. ASSUME NEW how \in Ends, End(how)
      PROVE  MarkerInv' /\ OrderInv'
  <2>1. UNCHANGED <<received, recency, job, handled>> /\ \A t \in Threads : pc'[t] = how
    BY <1>6 DEF End, Ended, tableVars
  <2>2. Marked' \subseteq Marked
    BY <1>6, <2>1 DEF Marked, Threads, Ends, Evicting
  <2> QED
    BY <1>6, <2>1, <2>2, QuietOrder DEF Threads, Ends
<1>7. CASE ReceiveNothing \/ CreateProtocol \/ UNCHANGED vars
  <2>1. UNCHANGED <<received, recency, job, handled>>
    BY <1>7 DEF ReceiveNothing, CreateProtocol, vars, tableVars, inVars
  <2>2. /\ \A t \in Pool : pc'[t] = pc[t]
        /\ pc'[main] = "friends" => pc[main] = "friends"
    BY <1>7, ControlProtocolAssumption
       DEF ReceiveNothing, CreateProtocol, vars, Goto, DatagramInv, Shapes, Threads
  <2>3. Marked' \subseteq Marked
    BY <2>1, <2>2 DEF Marked
  <2> QED
    BY <2>1, <2>2, <2>3, QuietOrder DEF MarkerInv
<1>8. ASSUME NEW t \in Threads, Clash(t) \/ CannotResolve(t)
      PROVE  MarkerInv' /\ OrderInv'
  BY <1>6, <1>8 DEF Clash, CannotResolve, Ends
<1> QED
  BY <1>1, <1>2, <1>3, <1>4, <1>5, <1>7, <1>8 DEF Next, Main

(***************************************************************************)
(* The buckets are sorted by last communication time, as far as threads    *)
(* that handle datagrams at the same time allow (NodeQueue.cpp:19): if the *)
(* handling of all that marked a node was over when a datagram came in,    *)
(* the node that this one marked is before it.                             *)
(***************************************************************************)
THEOREM BucketsAreSorted == Spec => []SortedByCommunication
<1>1. DatagramInv /\ Proved!TableInv /\ OrderInv => SortedByCommunication
  <2> SUFFICES ASSUME DatagramInv, Proved!TableInv, OrderInv, NEW d \in Table!Buckets,
                      NEW i \in DOMAIN buckets[d], NEW j \in DOMAIN buckets[d], i < j,
                      NEW k \in Marking(buckets[d][j]) \cap handled
               PROVE  ~(Marking(buckets[d][i]) \subseteq received[k].after)
    BY DEF SortedByCommunication
  <2> DEFINE list == buckets[d]
             rec  == recency[d]
  <2>1. /\ d \in 0 .. HASH_BITS - 1
        /\ Len(list) = IF Len(rec) < bucketSize THEN Len(rec) ELSE bucketSize - 1
        /\ \A x \in 1 .. Len(list) : /\ list[x].addr = rec[x]
                                     /\ bit_distance(Self.nodeId, list[x].nodeId) = d
    BY SameOperators
       DEF Table!Buckets, Proved!TableInv, Proved!BucketInv, Proved!Buckets, Proved!Recent,
           Table!bit_distance, bit_distance, Table!Cardinality, Cardinality
  <2>2. list \in Seq(Nodes) /\ rec \in Seq(Proved!Addrs) /\ bucketSize \in Nat \ {0}
    BY <2>1, ControlProtocolAssumption DEF Proved!TableInv, Proved!Buckets
  <2>3. /\ DOMAIN list = 1 .. Len(list) /\ DOMAIN rec = 1 .. Len(rec)
        /\ Len(list) \in Nat /\ Len(rec) \in Nat /\ Len(list) <= Len(rec)
    BY <2>1, <2>2, LenProperties
  <2>4. ASSUME NEW x \in DOMAIN list
        PROVE  x \in DOMAIN rec /\ Marking(list[x]) = MarkingAt(d, rec[x])
    BY <2>1, <2>3 DEF Marking, MarkingAt, Marker, SameNode
  <2>5. k \in Marked
    BY AppendAny DEF Marked, Marking
  <2> HIDE DEF list, rec
  <2>6. /\ i \in DOMAIN rec /\ j \in DOMAIN rec
        /\ Marking(list[i]) = MarkingAt(d, rec[i])
        /\ Marking(list[j]) = MarkingAt(d, rec[j])
    BY <2>4 DEF list
  <2> QED
    BY <2>1, <2>5, <2>6 DEF OrderInv, list, rec
<1>2. Spec => [](DatagramInv /\ Proved!TableInv)
  BY InitDatagrams, NextKeepsDatagrams, TableInvariants, PTL DEF Spec
<1> QED
  BY <1>1, <1>2, InitOrder, NextKeepsOrder, PTL DEF Spec

=============================================================================
