------------------------- MODULE RpcProvider_proofs -------------------------
(***************************************************************************)
(* Theorems about the server's events and connections, for every number of *)
(* threads, events, connections and clients.                               *)
(***************************************************************************)
EXTENDS RpcProvider, SequenceTheorems, TLAPS

(***************************************************************************)
(* The inductive invariant.  Every event is in one place: in the heap, in  *)
(* the free list, with the kernel, in the queue of one thread, in the      *)
(* hands of one thread or of the observer, or lost.                        *)
(***************************************************************************)

\* An event nobody may touch but the pool.
Unowned(e) == e \in Range(freeEvents) \/ e \in eventHeap

EventPoolInv ==
  /\ IsInjective(freeEvents)
  /\ Range(freeEvents) \cap eventHeap = {}
  /\ \A e \in usedEvents : ~Unowned(e)

KernelInv ==
  /\ \A q \in inflight : ~Unowned(q.event)
  /\ \A p, q \in inflight : p.event = q.event => p = q
  /\ \A q \in inflight : q.op = "recv" => q.event \in usedEvents

QueueInv ==
  /\ \A t \in Thread : IsInjective(queue[t])
  /\ \A t \in Thread : Range(queue[t]) \subseteq usedEvents \ KernelEvents
  /\ \A t, u \in Thread : t # u => Range(queue[t]) \cap Range(queue[u]) = {}

HandInv ==
  /\ \A t \in Thread : hand[t] = <<>> <=> at[t] = "idle"
  /\ \A t \in Holders : EventOf(t) \in usedEvents \ KernelEvents
  /\ \A t, u \in Holders : t # u => EventOf(t) # EventOf(u)
  /\ \A t \in Holders, u \in Thread : EventOf(t) \notin Range(queue[u])

PushInv ==
  push # <<>> => /\ Head(push) \notin usedEvents \cup KernelEvents
                 /\ ~Unowned(Head(push))

\* What is being sent has the type of a write.
SendInv ==
  /\ \A t \in Thread : at[t] = "sending" => evtype[EventOf(t)] = "WRITE_EV"
  /\ push # <<>> => evtype[Head(push)] = "WRITE_EV"

ConnPoolInv ==
  /\ IsInjective(freeConns)
  /\ Range(freeConns) \cap connHeap = {}
  /\ usedConns \cap (Range(freeConns) \cup connHeap) = {}

\* An event somebody has was made ready for a connection.
ConnInv == \A e \in Event : Unowned(e) \/ conn[e] \in Conn

\* The descriptor of a connection in use is open.
OpenInv == \A k \in usedConns : connfd[k] # NULL => file[connfd[k]] # NULL

IInv ==
  /\ TypeOK
  /\ EventPoolInv /\ KernelInv /\ QueueInv /\ HandInv /\ PushInv /\ SendInv
  /\ ConnInv /\ ConnPoolInv /\ OpenInv
  /\ DispatchMatches /\ OneReadPerConnection /\ DescriptorsNotShared

-----------------------------------------------------------------------------
(* Sequences without repetition, as free lists and queues.                 *)

LEMMA AppendRange ==
  ASSUME NEW S, NEW s \in Seq(S), NEW e \in S
  PROVE  /\ Append(s, e) \in Seq(S)
         /\ Range(Append(s, e)) = Range(s) \cup {e}
         /\ IsInjective(s) /\ e \notin Range(s) => IsInjective(Append(s, e))
<1> DEFINE a == Append(s, e)
<1>1. /\ a \in Seq(S) /\ Len(a) = Len(s) + 1 /\ Len(s) \in Nat
      /\ \A i \in 1 .. Len(s) : a[i] = s[i]
      /\ a[Len(s) + 1] = e
  BY AppendProperties
<1>2. DOMAIN a = 1 .. Len(s) + 1 /\ DOMAIN s = 1 .. Len(s)
  BY <1>1, LenProperties
<1> HIDE DEF a
<1>3. Range(a) = Range(s) \cup {e}
  BY <1>1, <1>2 DEF Range
<1>4. ASSUME IsInjective(s), e \notin Range(s) PROVE IsInjective(a)
  BY <1>1, <1>2, <1>4 DEF IsInjective, Range
<1> QED BY <1>1, <1>3, <1>4 DEF a

LEMMA TailRange ==
  ASSUME NEW S, NEW s \in Seq(S), s # <<>>, IsInjective(s)
  PROVE  /\ Head(s) \in S /\ Head(s) \in Range(s)
         /\ Tail(s) \in Seq(S)
         /\ Range(Tail(s)) = Range(s) \ {Head(s)}
         /\ IsInjective(Tail(s))
<1> DEFINE z == Tail(s)
<1>1. /\ Head(s) \in S /\ z \in Seq(S) /\ Len(z) = Len(s) - 1
      /\ \A i \in 1 .. Len(z) : z[i] = s[i + 1]
  BY HeadTailProperties
<1>2. Len(s) \in Nat \ {0} /\ Head(s) = s[1]
  BY EmptySeq
<1>3. DOMAIN z = 1 .. Len(s) - 1 /\ DOMAIN s = 1 .. Len(s)
  BY <1>1, LenProperties
<1> HIDE DEF z
<1>4. Head(s) \in Range(s)
  BY <1>2, <1>3 DEF Range
<1>5. \A i \in DOMAIN z : i + 1 \in DOMAIN s /\ i + 1 # 1 /\ z[i] = s[i + 1]
  BY <1>1, <1>2, <1>3
<1>6. \A i \in DOMAIN s : i # 1 => i - 1 \in DOMAIN z /\ z[i - 1] = s[i]
  <2> TAKE i \in DOMAIN s
  <2> HAVE i # 1
  <2>1. i - 1 \in 1 .. Len(s) - 1 /\ (i - 1) + 1 = i
    BY <1>2, <1>3
  <2> QED BY <1>3, <1>5, <2>1
<1>7. IsInjective(z)
  BY <1>3, <1>5 DEF IsInjective
<1>8. 1 \in DOMAIN s
  BY <1>2, <1>3
<1>9. Range(z) = Range(s) \ {Head(s)}
  <2>1. ASSUME NEW x \in Range(z) PROVE x \in Range(s) /\ x # Head(s)
    BY <1>2, <1>5, <1>8, <2>1 DEF Range, IsInjective
  <2>2. ASSUME NEW x \in Range(s), x # Head(s) PROVE x \in Range(z)
    BY <1>2, <1>6, <2>2 DEF Range
  <2> QED BY <2>1, <2>2
<1> QED BY <1>1, <1>4, <1>7, <1>9 DEF z

-----------------------------------------------------------------------------
(* The pools.                                                              *)

PoolsTyped ==
  /\ freeEvents \in Seq(Event) /\ usedEvents \subseteq Event
  /\ eventHeap \subseteq Event
  /\ freeConns \in Seq(Conn) /\ usedConns \subseteq Conn
  /\ connHeap \subseteq Conn

LEMMA GetEvent ==
  ASSUME PoolsTyped, EventPoolInv, NEW e \in Event, GetOneFreeEvent(e)
  PROVE  /\ freeEvents' \in Seq(Event) /\ usedEvents' \subseteq Event
         /\ eventHeap' \subseteq Event
         /\ EventPoolInv'
         /\ Unowned(e) /\ e \notin usedEvents /\ usedEvents' = usedEvents \cup {e}
         /\ \A x : Unowned(x)' <=> Unowned(x) /\ x # e
<1>1. usedEvents' = usedEvents \cup {e}
  BY DEF GetOneFreeEvent
<1>2. CASE /\ freeEvents # <<>> /\ e = Head(freeEvents)
           /\ freeEvents' = Tail(freeEvents) /\ eventHeap' = eventHeap
  <2>1. /\ e \in Range(freeEvents) /\ freeEvents' \in Seq(Event)
        /\ Range(freeEvents') = Range(freeEvents) \ {e} /\ IsInjective(freeEvents')
    BY <1>2, TailRange DEF PoolsTyped, EventPoolInv
  <2> QED BY <1>1, <1>2, <2>1 DEF PoolsTyped, EventPoolInv, Unowned
<1>3. CASE NewEvent(e) /\ freeEvents' = freeEvents
  BY <1>1, <1>3 DEF PoolsTyped, EventPoolInv, Unowned, NewEvent
<1> QED BY <1>2, <1>3 DEF GetOneFreeEvent

LEMMA FreeEvent ==
  ASSUME PoolsTyped, EventPoolInv, NEW e \in Event, FreeOneUsedEvent(e)
  PROVE  /\ freeEvents' \in Seq(Event) /\ usedEvents' \subseteq Event
         /\ eventHeap' \subseteq Event
         /\ EventPoolInv'
         /\ usedEvents' = usedEvents \ {e}
         /\ \A x : x # e => (Unowned(x)' <=> Unowned(x))
<1>1. usedEvents' = usedEvents \ {e} /\ eventHeap' = eventHeap
  BY DEF FreeOneUsedEvent
<1>2. CASE e \in usedEvents
  <2>1. freeEvents' = Append(freeEvents, e) /\ e \notin Range(freeEvents)
    BY <1>2 DEF FreeOneUsedEvent, EventPoolInv, Unowned
  <2>2. /\ freeEvents' \in Seq(Event) /\ IsInjective(freeEvents')
        /\ Range(freeEvents') = Range(freeEvents) \cup {e}
    BY <2>1, AppendRange DEF PoolsTyped, EventPoolInv
  <2>3. e \notin eventHeap
    BY <1>2 DEF EventPoolInv, Unowned
  <2> QED BY <1>1, <2>2, <2>3 DEF PoolsTyped, EventPoolInv, Unowned
<1>3. CASE e \notin usedEvents
  BY <1>1, <1>3 DEF PoolsTyped, EventPoolInv, Unowned, FreeOneUsedEvent
<1> QED BY <1>2, <1>3

LEMMA HeapEvent ==
  ASSUME PoolsTyped, EventPoolInv, NEW e \in Event, NewEvent(e),
         UNCHANGED <<freeEvents, usedEvents>>
  PROVE  /\ eventHeap' \subseteq Event
         /\ EventPoolInv'
         /\ Unowned(e) /\ e \notin usedEvents
         /\ \A x : Unowned(x)' <=> Unowned(x) /\ x # e
BY DEF PoolsTyped, EventPoolInv, Unowned, NewEvent

LEMMA GetConn ==
  ASSUME PoolsTyped, ConnPoolInv, NEW k \in Conn, GetOneFreeConn(k)
  PROVE  /\ freeConns' \in Seq(Conn) /\ usedConns' \subseteq Conn
         /\ connHeap' \subseteq Conn
         /\ ConnPoolInv'
         /\ k \notin usedConns /\ usedConns' = usedConns \cup {k}
<1>1. usedConns' = usedConns \cup {k}
  BY DEF GetOneFreeConn
<1>2. CASE /\ freeConns # <<>> /\ k = Head(freeConns)
           /\ freeConns' = Tail(freeConns) /\ connHeap' = connHeap
  <2>1. /\ k \in Range(freeConns) /\ freeConns' \in Seq(Conn)
        /\ Range(freeConns') = Range(freeConns) \ {k} /\ IsInjective(freeConns')
    BY <1>2, TailRange DEF PoolsTyped, ConnPoolInv
  <2> QED BY <1>1, <1>2, <2>1 DEF PoolsTyped, ConnPoolInv
<1>3. CASE k \in connHeap /\ connHeap' = connHeap \ {k} /\ freeConns' = freeConns
  BY <1>1, <1>3 DEF PoolsTyped, ConnPoolInv
<1> QED BY <1>2, <1>3 DEF GetOneFreeConn

LEMMA FreeConn ==
  ASSUME PoolsTyped, ConnPoolInv, NEW k \in usedConns, FreeOneUsedConn(k)
  PROVE  /\ freeConns' \in Seq(Conn) /\ usedConns' \subseteq Conn
         /\ connHeap' \subseteq Conn
         /\ ConnPoolInv'
         /\ usedConns' = usedConns \ {k}
<1>1. /\ usedConns' = usedConns \ {k} /\ connHeap' = connHeap
      /\ freeConns' = Append(freeConns, k) /\ k \in Conn
      /\ k \notin Range(freeConns) /\ k \notin connHeap
  BY DEF FreeOneUsedConn, ConnPoolInv, PoolsTyped
<1>2. /\ freeConns' \in Seq(Conn) /\ IsInjective(freeConns')
      /\ Range(freeConns') = Range(freeConns) \cup {k}
  BY <1>1, AppendRange DEF PoolsTyped, ConnPoolInv
<1> QED BY <1>1, <1>2 DEF PoolsTyped, ConnPoolInv

-----------------------------------------------------------------------------
(* Consequences of the invariant that the steps use.                       *)

LEMMA Typed == ASSUME IInv PROVE PoolsTyped
BY DEF IInv, TypeOK, PoolsTyped

LEMMA HandEvent ==
  ASSUME IInv, NEW t \in Thread, at[t] # "idle"
  PROVE  EventOf(t) \in Event /\ hand[t] = <<EventOf(t)>>
<1>1. hand[t] # <<>> /\ hand[t] \in {<<>>} \cup {<<e>> : e \in Event}
  BY DEF IInv, TypeOK, HandInv
<1>2. PICK e \in Event : hand[t] = <<e>>
  BY <1>1
<1> QED BY <1>2 DEF EventOf

LEMMA PushEvent ==
  ASSUME IInv, push # <<>>
  PROVE  Head(push) \in Event /\ push = <<Head(push)>>
<1>1. PICK e \in Event : push = <<e>>
  BY DEF IInv, TypeOK
<1> QED BY <1>1

(* An event the pool or the heap gives away is nobody's.                   *)
LEMMA UnownedIsNobodys ==
  ASSUME IInv, NEW e \in Event, Unowned(e)
  PROVE  /\ e \notin usedEvents
         /\ e \notin KernelEvents
         /\ \A t \in Thread : e \notin Range(queue[t])
         /\ \A t \in Holders : EventOf(t) # e
         /\ push # <<>> => Head(push) # e
BY DEF IInv, EventPoolInv, KernelInv, QueueInv, HandInv, PushInv, KernelEvents

-----------------------------------------------------------------------------
(* The event loop's steps keep the invariant.                              *)

LEMMA AcceptInvariant ==
  ASSUME IInv, UNCHANGED providerVars,
         NEW fd \in Fd \cup {NULL}, NEW p \in Peer \cup {NULL}, OnAccept(fd, p),
         file' \in [Fd -> Peer \cup {NULL}],
         peer' \in [Peer -> {"new", "connected", "closed", "reset"}],
         fd = NULL => p = NULL /\ file' = file,
         fd # NULL => /\ file[fd] = NULL /\ p # NULL
                      /\ file' = [file EXCEPT ![fd] = p]
  PROVE  IInv'
<1> USE DEF IInv
<1>1. PICK k \in Conn, e \in Event :
        /\ GetOneFreeConn(k)
        /\ connfd' = [connfd EXCEPT ![k] = fd]
        /\ GetOneFreeEvent(e)
        /\ ReadEvent(e, k)
        /\ evtype' = [evtype EXCEPT ![e] = "READ_EV"]
        /\ LoopSubmits(inflight, [op |-> "recv", event |-> e, file |-> p])
  BY DEF OnAccept
<1>2. UNCHANGED <<queue, hand, indexThread, sending, at, call, userConn, push>>
      /\ accepting' \in BOOLEAN
  BY DEF OnAccept, threadPoolVars, providerVars
<1> DEFINE new == [op |-> "recv", event |-> e, file |-> p]
<1>3. new \in Operation /\ new.op = "recv" /\ new.event = e /\ new.file = p
  BY DEF Operation
<1>4. inflight' \subseteq inflight \cup {new}
  BY <1>1 DEF LoopSubmits
<1> HIDE DEF new
<1>5. /\ freeEvents' \in Seq(Event) /\ usedEvents' \subseteq Event
      /\ eventHeap' \subseteq Event /\ EventPoolInv'
      /\ Unowned(e) /\ usedEvents' = usedEvents \cup {e}
      /\ \A x : Unowned(x)' <=> Unowned(x) /\ x # e
  BY <1>1, Typed, GetEvent
<1>6. /\ freeConns' \in Seq(Conn) /\ usedConns' \subseteq Conn
      /\ connHeap' \subseteq Conn /\ ConnPoolInv'
      /\ k \notin usedConns /\ usedConns' = usedConns \cup {k}
  BY <1>1, Typed, GetConn
<1>7. /\ e \notin usedEvents
      /\ \A q \in inflight : q.event # e
      /\ \A t \in Thread : e \notin Range(queue[t])
      /\ \A t \in Holders : EventOf(t) # e
      /\ push # <<>> => Head(push) # e
  BY <1>5, UnownedIsNobodys DEF KernelEvents
<1>8. /\ conn' = [conn EXCEPT ![e] = k] /\ evbuf' = [evbuf EXCEPT ![e] = NULL]
  BY <1>1 DEF ReadEvent
<1>9. TypeOK'
  BY <1>1, <1>2, <1>3, <1>4, <1>5, <1>6, <1>8 DEF TypeOK
<1>10. KernelInv'
  BY <1>3, <1>4, <1>5, <1>7 DEF KernelInv
<1>11. KernelEvents' \subseteq KernelEvents \cup {e}
  BY <1>3, <1>4 DEF KernelEvents
<1>12. QueueInv'
  BY <1>2, <1>5, <1>7, <1>11 DEF QueueInv
<1>13. HandInv'
  BY <1>2, <1>5, <1>7, <1>11 DEF HandInv, Holders, EventOf
<1>14. PushInv'
  BY <1>2, <1>5, <1>7, <1>11 DEF PushInv
<1>15. OpenInv'
  BY <1>1, <1>6 DEF OpenInv, TypeOK
<1>16. DispatchMatches'
  <2>1. \A q \in inflight : q.event \in Event /\ evtype'[q.event] = evtype[q.event]
    BY <1>1, <1>7 DEF TypeOK, Operation
  <2>2. evtype'[e] = "READ_EV"
    BY <1>1 DEF TypeOK
  <2> QED BY <1>3, <1>4, <2>1, <2>2 DEF DispatchMatches
<1>17. OneReadPerConnection'
  <2>1. \A q \in inflight : q.op = "recv" =>
          /\ conn'[q.event] = conn[q.event] /\ conn[q.event] \in usedConns
          /\ conn[q.event] # k /\ q.file = FileOf(conn[q.event])
    BY <1>6, <1>7, <1>8 DEF OneReadPerConnection, TypeOK, Operation
  <2>2. \A j \in usedConns : FileOf(j)' = FileOf(j)
    BY <1>1, <1>6 DEF FileOf, OpenInv, TypeOK
  <2>3. conn'[e] = k /\ FileOf(k)' = p
    BY <1>1, <1>8 DEF FileOf, TypeOK
  <2>4. \A q \in inflight' : q.op = "recv" => q.file = FileOf(conn[q.event])'
    BY <1>3, <1>4, <2>1, <2>2, <2>3 DEF FileOf
  <2>5. \A q \in inflight' : q.op = "recv" => conn'[q.event] \in usedConns'
    BY <1>3, <1>4, <1>6, <2>1, <2>3
  <2>6. \A a, b \in inflight' :
          a.op = "recv" /\ b.op = "recv" /\ conn'[a.event] = conn'[b.event] => a = b
    BY <1>3, <1>4, <2>1, <2>3 DEF OneReadPerConnection
  <2> QED BY <2>4, <2>5, <2>6 DEF OneReadPerConnection
<1>18. DescriptorsNotShared'
  BY <1>1, <1>6 DEF DescriptorsNotShared, OpenInv, TypeOK
<1>19. SendInv'
  BY <1>1, <1>2, <1>7, HandEvent, PushEvent DEF SendInv, EventOf, Holders, TypeOK
<1>20. ConnInv'
  BY <1>1, <1>5, <1>8 DEF ConnInv, TypeOK
<1> QED BY <1>5, <1>6, <1>9, <1>10, <1>12, <1>13, <1>14, <1>15, <1>16, <1>17, <1>18,
           <1>19, <1>20

LEMMA ReadSomeInvariant ==
  ASSUME IInv, UNCHANGED providerVars, NEW q \in inflight, ReadSome(q)
  PROVE  IInv'
<1> USE DEF IInv
<1> DEFINE e == q.event
<1>1. PICK n \in Event :
        /\ GetOneFreeEvent(n)
        /\ conn' = [conn EXCEPT ![n] = conn[e]]
        /\ evbuf' = [evbuf EXCEPT ![e] = q.file, ![n] = NULL]
        /\ evtype' = [evtype EXCEPT ![e] = "WRITE_EV", ![n] = "READ_EV"]
        /\ LoopSubmits(inflight \ {q},
             [op |-> "recv", event |-> n, file |-> FileOf(conn[e])])
  BY DEF ReadSome
<1>2. /\ UNCHANGED <<freeConns, usedConns, connHeap, connfd, file, peer, accepting>>
      /\ UNCHANGED <<hand, sending, at, call, userConn, push>>
      /\ AddEvent(e) /\ evtype[e] = "READ_EV"
  BY DEF ReadSome, connPoolVars, providerVars, AddEvent
<1> DEFINE new == [op |-> "recv", event |-> n, file |-> FileOf(conn[e])]
<1>3. /\ q \in Operation /\ e \in Event /\ q.op = "recv" /\ e \in usedEvents
      /\ conn[e] \in usedConns /\ conn[e] \in Conn
  BY <1>2 DEF TypeOK, Operation, DispatchMatches, KernelInv, OneReadPerConnection
<1>4. new \in Operation /\ new.op = "recv" /\ new.event = n /\ new.file = FileOf(conn[e])
  BY <1>3 DEF Operation, FileOf, TypeOK
<1>5. inflight' \subseteq (inflight \ {q}) \cup {new}
  BY <1>1 DEF LoopSubmits
<1> HIDE DEF new, e
<1>6. /\ freeEvents' \in Seq(Event) /\ usedEvents' \subseteq Event
      /\ eventHeap' \subseteq Event /\ EventPoolInv'
      /\ Unowned(n) /\ usedEvents' = usedEvents \cup {n}
      /\ \A x : Unowned(x)' <=> Unowned(x) /\ x # n
  BY <1>1, Typed, GetEvent
<1>7. /\ n \notin usedEvents
      /\ \A a \in inflight : a.event # n
      /\ \A t \in Thread : n \notin Range(queue[t])
      /\ \A t \in Holders : EventOf(t) # n
      /\ push # <<>> => Head(push) # n
  BY <1>6, UnownedIsNobodys DEF KernelEvents
<1>8. e \in KernelEvents /\ \A a \in inflight \ {q} : a.event # e
  BY DEF KernelInv, KernelEvents, e
<1>9. indexThread \in Thread /\ indexThread' \in Thread
      /\ queue' = [queue EXCEPT ![indexThread] = Append(queue[indexThread], e)]
  BY <1>2, ThreadNumAssumption DEF AddEvent, Thread, TypeOK
<1>10. \A t \in Thread : e \notin Range(queue[t])
  BY <1>8 DEF QueueInv
<1>11. /\ queue' \in [Thread -> Seq(Event)]
       /\ \A t \in Thread : /\ Range(queue'[t]) \subseteq Range(queue[t]) \cup {e}
                            /\ t # indexThread => queue'[t] = queue[t]
                            /\ IsInjective(queue'[t])
  <2>1. queue \in [Thread -> Seq(Event)]
    BY DEF TypeOK
  <2>2. /\ Append(queue[indexThread], e) \in Seq(Event)
        /\ Range(Append(queue[indexThread], e)) = Range(queue[indexThread]) \cup {e}
        /\ IsInjective(Append(queue[indexThread], e))
    BY <1>3, <1>9, <1>10, <2>1, AppendRange DEF QueueInv
  <2> QED BY <1>9, <2>1, <2>2 DEF QueueInv
<1>12. TypeOK'
  BY <1>1, <1>2, <1>3, <1>4, <1>5, <1>6, <1>9, <1>11 DEF TypeOK, Operation
<1>13. KernelInv'
  BY <1>4, <1>5, <1>6, <1>7 DEF KernelInv
<1>14. KernelEvents' \subseteq (KernelEvents \ {e}) \cup {n}
  BY <1>4, <1>5, <1>8 DEF KernelEvents
<1>15. n # e
  BY <1>3, <1>7
<1>16. QueueInv'
  <2>1. \A t \in Thread : Range(queue'[t]) \subseteq usedEvents' \ KernelEvents'
    BY <1>3, <1>6, <1>7, <1>11, <1>14, <1>15 DEF QueueInv
  <2>2. \A t, u \in Thread : t # u => Range(queue'[t]) \cap Range(queue'[u]) = {}
    BY <1>10, <1>11 DEF QueueInv
  <2> QED BY <1>11, <2>1, <2>2 DEF QueueInv
<1>17. HandInv'
  BY <1>2, <1>6, <1>7, <1>8, <1>11, <1>14 DEF HandInv, Holders, EventOf
<1>18. PushInv'
  BY <1>2, <1>6, <1>7, <1>14 DEF PushInv
<1>19. ConnPoolInv' /\ OpenInv' /\ DescriptorsNotShared'
  BY <1>2 DEF ConnPoolInv, OpenInv, DescriptorsNotShared
<1>20. DispatchMatches'
  BY <1>1, <1>4, <1>5, <1>7, <1>8, <1>15, SMTT(30) DEF DispatchMatches, TypeOK, Operation
<1>21. OneReadPerConnection'
  <2>1. \A a \in inflight \ {q} : a.op = "recv" =>
          /\ conn'[a.event] = conn[a.event] /\ conn[a.event] \in usedConns
          /\ conn[a.event] # conn[e] /\ a.file = FileOf(conn[a.event])
    BY <1>1, <1>3, <1>7 DEF OneReadPerConnection, TypeOK, Operation, e
  <2>2. \A j : FileOf(j)' = FileOf(j)
    BY <1>2 DEF FileOf
  <2>3. conn'[n] = conn[e]
    BY <1>1 DEF TypeOK
  <2>4. \A a \in inflight' : a.op = "recv" => a.file = FileOf(conn[a.event])'
    BY <1>4, <1>5, <2>1, <2>2, <2>3, <1>2 DEF FileOf
  <2>5. \A a \in inflight' : a.op = "recv" => conn'[a.event] \in usedConns'
    BY <1>2, <1>3, <1>4, <1>5, <2>1, <2>3
  <2>6. \A a, b \in inflight' :
          a.op = "recv" /\ b.op = "recv" /\ conn'[a.event] = conn'[b.event] => a = b
    BY <1>4, <1>5, <2>1, <2>3 DEF OneReadPerConnection
  <2> QED BY <2>4, <2>5, <2>6 DEF OneReadPerConnection
<1>22. SendInv'
  <2>1. /\ \A t \in Thread : at[t] = "sending" => EventOf(t) \notin {e, n}
        /\ push # <<>> => Head(push) \notin {e, n}
    BY <1>7, <1>8 DEF HandInv, PushInv, Holders
  <2> QED BY <1>1, <1>2, <2>1, HandEvent, PushEvent DEF SendInv, EventOf, TypeOK
<1>23. ConnInv'
  BY <1>1, <1>3, <1>6 DEF ConnInv, TypeOK
<1> QED BY <1>6, <1>12, <1>13, <1>16, <1>17, <1>18, <1>19, <1>20, <1>21, <1>22,
           <1>23

LEMMA ReadEndInvariant ==
  ASSUME IInv, UNCHANGED providerVars, NEW q \in inflight, ReadEnd(q)
  PROVE  IInv'
<1> USE DEF IInv
<1> DEFINE e == q.event
           k == conn[e]
<1>1. /\ file' = [file EXCEPT ![connfd[k]] = NULL]
      /\ FreeOneUsedConn(k) /\ FreeOneUsedEvent(e)
      /\ inflight' = inflight \ {q}
      /\ evtype[e] = "READ_EV" /\ "end" \in Results(q)
      /\ UNCHANGED <<connfd, queue, hand, indexThread, evtype, conn, evbuf, peer,
                     accepting, sending, at, call, userConn, push>>
  BY DEF ReadEnd, threadPoolVars, eventVars, providerVars
<1>2. /\ q \in Operation /\ e \in Event /\ q.op = "recv" /\ e \in usedEvents
      /\ k \in usedConns /\ k \in Conn
  BY <1>1 DEF TypeOK, Operation, DispatchMatches, KernelInv, OneReadPerConnection
<1>3. connfd[k] # NULL /\ connfd[k] \in Fd
  <2>1. q.file # NULL /\ q.file = FileOf(k)
    BY <1>1, <1>2 DEF Results, OneReadPerConnection
  <2> QED BY <1>2, <2>1 DEF FileOf, TypeOK
<1>4. \A a \in inflight \ {q} : a.event # e
  BY DEF KernelInv
<1> HIDE DEF e
<1>5. /\ freeEvents' \in Seq(Event) /\ usedEvents' \subseteq Event
      /\ eventHeap' \subseteq Event /\ EventPoolInv'
      /\ usedEvents' = usedEvents \ {e}
      /\ \A x : x # e => (Unowned(x)' <=> Unowned(x))
  BY <1>1, <1>2, Typed, FreeEvent
<1>6. /\ freeConns' \in Seq(Conn) /\ usedConns' \subseteq Conn
      /\ connHeap' \subseteq Conn /\ ConnPoolInv'
      /\ usedConns' = usedConns \ {k}
  BY <1>1, <1>2, Typed, FreeConn
<1>7. TypeOK'
  BY <1>1, <1>3, <1>5, <1>6 DEF TypeOK
<1>8. KernelInv'
  BY <1>1, <1>4, <1>5 DEF KernelInv
<1>9. KernelEvents' \subseteq KernelEvents \ {e} /\ e \in KernelEvents
  BY <1>1, <1>4 DEF KernelEvents, e
<1>10. QueueInv'
  BY <1>1, <1>5, <1>9 DEF QueueInv
<1>11. HandInv'
  BY <1>1, <1>5, <1>9 DEF HandInv, Holders, EventOf
<1>12. PushInv'
  BY <1>1, <1>5, <1>9 DEF PushInv
<1>13. \A j \in usedConns' : /\ j \in usedConns /\ j \in Conn /\ j # k
                             /\ connfd[j] # NULL => connfd[j] # connfd[k]
  BY <1>2, <1>3, <1>6 DEF DescriptorsNotShared, TypeOK
<1>14. \A j \in usedConns' : FileOf(j)' = FileOf(j)
  BY <1>1, <1>3, <1>13 DEF FileOf, TypeOK
<1>15. OpenInv'
  BY <1>1, <1>3, <1>13 DEF OpenInv, TypeOK
<1>16. DispatchMatches'
  BY <1>1 DEF DispatchMatches
<1>17. OneReadPerConnection'
  <2>1. \A a \in inflight' : a.op = "recv" => conn[a.event] \in usedConns'
    BY <1>1, <1>2, <1>6 DEF OneReadPerConnection, e
  <2>2. \A a \in inflight' : a.op = "recv" => a.file = FileOf(conn[a.event])'
    <3> TAKE a \in inflight'
    <3> HAVE a.op = "recv"
    <3>1. a.file = FileOf(conn[a.event]) /\ a \in inflight
      BY <1>1 DEF OneReadPerConnection
    <3>2. conn[a.event] \in usedConns'
      BY <2>1
    <3> QED BY <1>1, <1>14, <3>1, <3>2 DEF FileOf
  <2>3. \A a, b \in inflight' :
          a.op = "recv" /\ b.op = "recv" /\ conn'[a.event] = conn'[b.event] => a = b
    BY <1>1 DEF OneReadPerConnection
  <2> QED BY <1>1, <2>1, <2>2, <2>3 DEF OneReadPerConnection
<1>18. DescriptorsNotShared'
  BY <1>1, <1>6 DEF DescriptorsNotShared
<1>19. SendInv'
  BY <1>1 DEF SendInv, EventOf
<1>20. ConnInv'
  BY <1>1, <1>2, <1>5 DEF ConnInv, TypeOK
<1> QED BY <1>5, <1>6, <1>7, <1>8, <1>10, <1>11, <1>12, <1>15, <1>16, <1>17, <1>18,
           <1>19, <1>20

(* What is left when an operation is no longer in flight and nothing else  *)
(* of the server changes but the event pool.                               *)
LEMMA KernelShrinks ==
  ASSUME IInv, inflight' \subseteq inflight,
         UNCHANGED <<connPoolVars, connfd, threadPoolVars, eventVars, file,
                     sending, providerVars>>
  PROVE  /\ ConnPoolInv' /\ OpenInv' /\ DispatchMatches'
         /\ OneReadPerConnection' /\ DescriptorsNotShared' /\ SendInv'
<1> USE DEF IInv, connPoolVars, eventVars
<1>1. ConnPoolInv' /\ OpenInv' /\ DescriptorsNotShared'
  BY DEF ConnPoolInv, OpenInv, DescriptorsNotShared
<1>2. DispatchMatches'
  BY DEF DispatchMatches
<1>3. OneReadPerConnection'
  BY DEF OneReadPerConnection, FileOf
<1>4. SendInv'
  BY DEF SendInv, EventOf, threadPoolVars, providerVars
<1> QED BY <1>1, <1>2, <1>3, <1>4

LEMMA ReadErrorInvariant ==
  ASSUME IInv, UNCHANGED providerVars, NEW q \in inflight, ReadError(q)
  PROVE  IInv'
<1> USE DEF IInv
<1>1. /\ inflight' = inflight \ {q}
      /\ UNCHANGED <<poolVars, threadPoolVars, eventVars, file, peer, accepting, sending>>
  BY DEF ReadError
<1>2. TypeOK'
  BY <1>1 DEF TypeOK, poolVars, eventPoolVars, connPoolVars, threadPoolVars,
              eventVars, providerVars
<1>3. EventPoolInv' /\ ConnInv' /\ KernelInv' /\ QueueInv' /\ HandInv' /\ PushInv'
  BY <1>1 DEF EventPoolInv, ConnInv, KernelInv, QueueInv, HandInv, PushInv, Unowned,
              KernelEvents, Holders, EventOf, poolVars, eventPoolVars, eventVars,
              threadPoolVars, providerVars
<1> QED BY <1>1, <1>2, <1>3, KernelShrinks DEF poolVars

LEMMA WriteDoneInvariant ==
  ASSUME IInv, UNCHANGED providerVars, NEW q \in inflight, WriteDone(q)
  PROVE  IInv'
<1> USE DEF IInv
<1> DEFINE e == q.event
<1>1. /\ inflight' = inflight \ {q} /\ FreeOneUsedEvent(e)
      /\ UNCHANGED <<connPoolVars, connfd, threadPoolVars, eventVars, file, peer,
                     accepting, sending>>
  BY DEF WriteDone
<1>2. e \in Event /\ evtype[e] = "WRITE_EV" /\ conn[e] \in Conn
  BY DEF TypeOK, Operation, WriteDone, KernelInv, ConnInv
<1>3. \A a \in inflight \ {q} : a.event # e
  BY DEF KernelInv
<1>4. /\ freeEvents' \in Seq(Event) /\ usedEvents' \subseteq Event
      /\ eventHeap' \subseteq Event /\ EventPoolInv'
      /\ usedEvents' = usedEvents \ {e}
      /\ \A x : x # e => (Unowned(x)' <=> Unowned(x))
  BY <1>1, <1>2, Typed, FreeEvent
<1>5. KernelEvents' \subseteq KernelEvents \ {e} /\ e \in KernelEvents
  BY <1>1, <1>3 DEF KernelEvents
<1> HIDE DEF e
<1>6. TypeOK'
  BY <1>1, <1>4 DEF TypeOK, connPoolVars, threadPoolVars, eventVars, providerVars
<1>7. KernelInv'
  BY <1>1, <1>3, <1>4 DEF KernelInv
<1>8. QueueInv' /\ HandInv' /\ PushInv'
  BY <1>1, <1>4, <1>5 DEF QueueInv, HandInv, PushInv, Holders, EventOf,
                          threadPoolVars, providerVars
<1>9. ConnInv'
  BY <1>1, <1>2, <1>4 DEF ConnInv, eventVars
<1> QED BY <1>1, <1>4, <1>6, <1>7, <1>8, <1>9, KernelShrinks

LEMMA ClientsInvariant ==
  ASSUME IInv, UNCHANGED providerVars, Clients
  PROVE  IInv'
<1> USE DEF IInv
<1>1. /\ UNCHANGED <<poolVars, threadPoolVars, eventVars, file, inflight,
                     accepting, sending>>
      /\ peer' \in [Peer -> {"new", "connected", "closed", "reset"}]
  BY DEF Clients, PeerCloses, PeerResets, TypeOK
<1>2. TypeOK'
  BY <1>1 DEF TypeOK, poolVars, eventPoolVars, connPoolVars, threadPoolVars,
              eventVars, providerVars
<1>3. EventPoolInv' /\ ConnInv' /\ KernelInv' /\ QueueInv' /\ HandInv' /\ PushInv'
  BY <1>1 DEF EventPoolInv, ConnInv, KernelInv, QueueInv, HandInv, PushInv, Unowned,
              KernelEvents, Holders, EventOf, poolVars, eventPoolVars, eventVars,
              threadPoolVars, providerVars
<1> QED BY <1>1, <1>2, <1>3, KernelShrinks DEF poolVars

-----------------------------------------------------------------------------
(* The steps of the threads and of the observer keep the invariant.        *)

(* A step that leaves pools, kernel and the events' fields alone.          *)
LEMMA ServerStays ==
  ASSUME IInv, UNCHANGED <<poolVars, eventVars, kernelVars, sending>>
  PROVE  /\ EventPoolInv' /\ KernelInv' /\ ConnInv' /\ ConnPoolInv' /\ OpenInv'
         /\ DispatchMatches' /\ OneReadPerConnection' /\ DescriptorsNotShared'
         /\ KernelEvents' = KernelEvents
         /\ \A x : Unowned(x)' <=> Unowned(x)
<1> USE DEF IInv, poolVars, eventPoolVars, connPoolVars, eventVars, kernelVars
<1>1. EventPoolInv' /\ KernelInv' /\ ConnInv' /\ \A x : Unowned(x)' <=> Unowned(x)
  BY DEF EventPoolInv, KernelInv, ConnInv, Unowned
<1>2. ConnPoolInv' /\ OpenInv' /\ DispatchMatches' /\ DescriptorsNotShared'
  BY DEF ConnPoolInv, OpenInv, DispatchMatches, DescriptorsNotShared
<1>3. OneReadPerConnection' /\ KernelEvents' = KernelEvents
  BY DEF OneReadPerConnection, FileOf, KernelEvents
<1> QED BY <1>1, <1>2, <1>3

LEMMA ReceiveInvariant ==
  ASSUME IInv, NEW t \in Thread, Receive(t)
  PROVE  IInv'
<1> USE DEF IInv
<1> DEFINE h == Head(queue[t])
<1>1. /\ at[t] = "idle" /\ hand[t] = <<>> /\ queue[t] # <<>>
      /\ hand' = [hand EXCEPT ![t] = <<h>>]
      /\ queue' = [queue EXCEPT ![t] = Tail(queue[t])]
      /\ at' = [at EXCEPT ![t] = "parsing"]
      /\ UNCHANGED <<poolVars, eventVars, kernelVars, sending, call, userConn, push,
                     indexThread>>
  BY DEF Receive, Take
<1>2. /\ EventPoolInv' /\ KernelInv' /\ ConnInv' /\ ConnPoolInv' /\ OpenInv'
      /\ DispatchMatches' /\ OneReadPerConnection' /\ DescriptorsNotShared'
      /\ KernelEvents' = KernelEvents
      /\ \A x : Unowned(x)' <=> Unowned(x)
      /\ usedEvents' = usedEvents /\ evtype' = evtype
  BY <1>1, ServerStays DEF poolVars, eventPoolVars, eventVars
<1>3. /\ queue[t] \in Seq(Event) /\ hand \in [Thread -> {<<>>} \cup {<<e>> : e \in Event}]
      /\ queue \in [Thread -> Seq(Event)]
      /\ at \in [Thread -> {"idle", "parsing", "sending", "managing"}]
  BY DEF TypeOK
<1>4. /\ h \in Event /\ h \in Range(queue[t])
      /\ Tail(queue[t]) \in Seq(Event) /\ IsInjective(Tail(queue[t]))
      /\ Range(Tail(queue[t])) = Range(queue[t]) \ {h}
  BY <1>1, <1>3, TailRange DEF QueueInv
<1> HIDE DEF h
<1>5. TypeOK'
  <2>1. queue' \in [Thread -> Seq(Event)]
    BY <1>1, <1>3, <1>4
  <2>2. hand' \in [Thread -> {<<>>} \cup {<<e>> : e \in Event}]
    BY <1>1, <1>3, <1>4
  <2>3. at' \in [Thread -> {"idle", "parsing", "sending", "managing"}]
    BY <1>1, <1>3
  <2> QED BY <1>1, <2>1, <2>2, <2>3
          DEF TypeOK, poolVars, eventPoolVars, connPoolVars, eventVars, kernelVars
<1>6. QueueInv'
  BY <1>1, <1>2, <1>3, <1>4 DEF QueueInv
<1>7. /\ Holders' \subseteq Holders \cup {t} /\ t \notin Holders
      /\ \A u \in Thread : EventOf(u)' = IF u = t THEN h ELSE EventOf(u)
  BY <1>1, <1>3 DEF Holders, EventOf
<1>8. HandInv'
  <2>1. \A u \in Thread : hand'[u] = <<>> <=> at'[u] = "idle"
    BY <1>1, <1>3 DEF HandInv
  <2>2. h \in usedEvents \ KernelEvents
    BY <1>4 DEF QueueInv
  <2>3. \A u \in Holders : EventOf(u) # h
    BY <1>4 DEF HandInv
  <2>4. \A u \in Holders' : EventOf(u)' \in usedEvents' \ KernelEvents'
    BY <1>2, <1>7, <2>2 DEF HandInv, Holders
  <2>5. \A u, v \in Holders' : u # v => EventOf(u)' # EventOf(v)'
    BY <1>7, <2>3 DEF HandInv, Holders
  <2>6. \A u \in Thread : Range(queue'[u]) \subseteq Range(queue[u]) \ {h}
    BY <1>1, <1>3, <1>4 DEF QueueInv
  <2>7. \A u \in Holders', v \in Thread : EventOf(u)' \notin Range(queue'[v])
    BY <1>7, <2>6 DEF HandInv, Holders
  <2> QED BY <2>1, <2>4, <2>5, <2>7 DEF HandInv
<1>9. PushInv'
  BY <1>1, <1>2 DEF PushInv
<1>10. SendInv'
  BY <1>1, <1>2, <1>3, <1>7 DEF SendInv
<1> QED BY <1>2, <1>5, <1>6, <1>8, <1>9, <1>10

(* Both ends of OnMessageCallback.                                         *)
LEMMA FinishInvariant ==
  ASSUME IInv, NEW t \in Thread, Reject(t) \/ ManageConnection(t)
  PROVE  IInv'
<1> USE DEF IInv
<1>1. /\ hand' = [hand EXCEPT ![t] = <<>>]
      /\ at' = [at EXCEPT ![t] = "idle"]
      /\ UNCHANGED <<poolVars, eventVars, kernelVars, sending, push, queue, indexThread>>
  BY DEF Reject, ManageConnection, Finish
<1>2. /\ EventPoolInv' /\ KernelInv' /\ ConnInv' /\ ConnPoolInv' /\ OpenInv'
      /\ DispatchMatches' /\ OneReadPerConnection' /\ DescriptorsNotShared'
      /\ KernelEvents' = KernelEvents
      /\ \A x : Unowned(x)' <=> Unowned(x)
      /\ usedEvents' = usedEvents /\ evtype' = evtype
  BY <1>1, ServerStays DEF poolVars, eventPoolVars, eventVars
<1>3. /\ hand \in [Thread -> {<<>>} \cup {<<e>> : e \in Event}]
      /\ at \in [Thread -> {"idle", "parsing", "sending", "managing"}]
      /\ call \in [Thread -> Call] /\ userConn \in [User -> Conn \cup {NULL}]
      /\ conn \in [Event -> Conn \cup {NULL}]
  BY DEF TypeOK
<1>4. call' \in [Thread -> Call] /\ userConn' \in [User -> Conn \cup {NULL}]
  <2>1. CASE Reject(t)
    BY <1>3, <2>1 DEF Reject
  <2>2. CASE ManageConnection(t)
    <3>1. call' = [call EXCEPT ![t] = NoCall] /\ at[t] # "idle"
      BY <2>2 DEF ManageConnection
    <3>2. EventOf(t) \in Event
      BY <3>1, HandEvent
    <3>3. call' \in [Thread -> Call]
      BY <1>3, <3>1 DEF Call
    <3>4. CASE userConn' = userConn
      BY <1>3, <3>3, <3>4
    <3>5. CASE \E u \in User, k \in Conn \cup {NULL} :
                 userConn' = [userConn EXCEPT ![u] = k]
      BY <1>3, <3>3, <3>5
    <3>6. call[t].method # "Other" => call[t].user \in User
      BY <1>3 DEF Call, NoCall
    <3> QED BY <1>3, <2>2, <3>2, <3>4, <3>5, <3>6 DEF ManageConnection
  <2> QED BY <2>1, <2>2
<1>5. TypeOK'
  <2>1. hand' \in [Thread -> {<<>>} \cup {<<e>> : e \in Event}]
    BY <1>1, <1>3
  <2>2. at' \in [Thread -> {"idle", "parsing", "sending", "managing"}]
    BY <1>1, <1>3
  <2> QED BY <1>1, <1>4, <2>1, <2>2
          DEF TypeOK, poolVars, eventPoolVars, connPoolVars, eventVars, kernelVars
<1>6. QueueInv'
  BY <1>1, <1>2 DEF QueueInv
<1>7. /\ Holders' \subseteq Holders \ {t}
      /\ \A u \in Holders' : EventOf(u)' = EventOf(u)
  BY <1>1, <1>3 DEF Holders, EventOf
<1>8. HandInv'
  <2>1. \A u \in Thread : hand'[u] = <<>> <=> at'[u] = "idle"
    BY <1>1, <1>3 DEF HandInv
  <2> QED BY <1>1, <1>2, <1>7, <2>1 DEF HandInv
<1>9. PushInv'
  BY <1>1, <1>2 DEF PushInv
<1>10. SendInv'
  BY <1>1, <1>2, <1>3 DEF SendInv, EventOf
<1> QED BY <1>2, <1>5, <1>6, <1>8, <1>9, <1>10

LEMMA CallMethodInvariant ==
  ASSUME IInv, NEW t \in Thread, CallMethod(t)
  PROVE  IInv'
<1> USE DEF IInv
<1> DEFINE e == EventOf(t)
<1>1. /\ at[t] = "parsing" /\ at' = [at EXCEPT ![t] = "sending"]
      /\ evtype' = [evtype EXCEPT ![e] = "WRITE_EV"]
      /\ sending' = sending \cup {e}
      /\ UNCHANGED <<poolVars, threadPoolVars, conn, evbuf, kernelVars, userConn, push>>
  BY DEF CallMethod, SetWriteType
<1>2. /\ at \in [Thread -> {"idle", "parsing", "sending", "managing"}]
      /\ call \in [Thread -> Call] /\ conn \in [Event -> Conn \cup {NULL}]
      /\ evtype \in [Event -> {"UNKNOWN_EV", "READ_EV", "WRITE_EV"}]
      /\ inflight \subseteq Operation
  BY DEF TypeOK
<1>3. /\ e \in Event /\ t \in Holders /\ e \notin KernelEvents
      /\ e \in usedEvents
  BY <1>1, HandEvent DEF Holders, HandInv
<1>4. call' \in [Thread -> Call]
  <2>1. PICK m \in {"Login", "Logout"}, u \in User :
          call' \in {[call EXCEPT ![t] = NoCall],
                     [call EXCEPT ![t] = [method |-> m, user |-> u, conn |-> conn[e]]]}
    BY DEF CallMethod
  <2>2. [method |-> m, user |-> u, conn |-> conn[e]] \in Call /\ NoCall \in Call
    BY <1>2, <1>3 DEF Call
  <2> QED BY <1>2, <2>1, <2>2
<1>5. \A u \in Thread : EventOf(u)' = EventOf(u)
  BY <1>1 DEF EventOf, threadPoolVars
<1>6. Holders' = Holders
  BY <1>1, <1>2 DEF Holders
<1>7. \A u \in Thread : at'[u] = "idle" <=> at[u] = "idle"
  BY <1>1, <1>2
<1> HIDE DEF e
<1>8. TypeOK'
  BY <1>1, <1>2, <1>3, <1>4 DEF TypeOK, poolVars, eventPoolVars, connPoolVars,
                                threadPoolVars, kernelVars
<1>9. /\ EventPoolInv' /\ KernelInv' /\ ConnInv' /\ ConnPoolInv' /\ OpenInv'
      /\ DescriptorsNotShared' /\ KernelEvents' = KernelEvents
      /\ \A x : Unowned(x)' <=> Unowned(x)
  BY <1>1 DEF EventPoolInv, KernelInv, ConnInv, ConnPoolInv, OpenInv, DescriptorsNotShared,
              KernelEvents, Unowned, poolVars, eventPoolVars, connPoolVars, kernelVars
<1>10. DispatchMatches'
  BY <1>1, <1>2, <1>3 DEF DispatchMatches, KernelEvents, Operation, kernelVars
<1>11. OneReadPerConnection'
  BY <1>1 DEF OneReadPerConnection, FileOf, poolVars, connPoolVars, kernelVars
<1>12. QueueInv'
  BY <1>1, <1>9 DEF QueueInv, threadPoolVars, poolVars, eventPoolVars
<1>13. HandInv'
  <2>1. \A u \in Holders' : EventOf(u)' \in usedEvents' \ KernelEvents'
    BY <1>1, <1>5, <1>6, <1>9 DEF HandInv, Holders, poolVars, eventPoolVars
  <2>2. \A u, v \in Holders' : u # v => EventOf(u)' # EventOf(v)'
    BY <1>5, <1>6 DEF HandInv, Holders
  <2>3. \A u \in Holders', v \in Thread : EventOf(u)' \notin Range(queue'[v])
    BY <1>1, <1>5, <1>6 DEF HandInv, Holders, threadPoolVars
  <2>4. \A u \in Thread : hand'[u] = <<>> <=> at'[u] = "idle"
    BY <1>1, <1>7 DEF HandInv, threadPoolVars
  <2> QED BY <2>1, <2>2, <2>3, <2>4 DEF HandInv
<1>14. PushInv'
  BY <1>1, <1>9 DEF PushInv, poolVars, eventPoolVars
<1>15. SendInv'
  <2>1. \A u \in Thread : at'[u] = "sending" => evtype'[EventOf(u)'] = "WRITE_EV"
    <3> TAKE u \in Thread
    <3> HAVE at'[u] = "sending"
    <3>1. CASE u = t
      BY <1>1, <1>2, <1>3, <1>5, <3>1 DEF e
    <3>2. CASE u # t
      <4>1. at[u] = "sending" /\ EventOf(u) \in Event
        BY <1>1, <1>2, <3>2, HandEvent
      <4> QED BY <1>1, <1>2, <1>5, <4>1 DEF SendInv
    <3> QED BY <3>1, <3>2
  <2>2. push' # <<>> => evtype'[Head(push')] = "WRITE_EV"
    BY <1>1, <1>2, PushEvent DEF SendInv
  <2> QED BY <2>1, <2>2 DEF SendInv
<1> QED BY <1>8, <1>9, <1>10, <1>11, <1>12, <1>13, <1>14, <1>15

(* sendMessage's submission of an event that nobody else has.              *)
LEMMA SubmitWriteKeeps ==
  ASSUME IInv, NEW e \in Event, SubmitWrite(e),
         e \notin KernelEvents, ~Unowned(e), evtype[e] = "WRITE_EV"
  PROVE  /\ EventPoolInv' /\ KernelInv' /\ ConnInv' /\ ConnPoolInv' /\ OpenInv'
         /\ DispatchMatches' /\ OneReadPerConnection' /\ DescriptorsNotShared'
         /\ inflight' \subseteq Operation /\ sending' \subseteq Event
         /\ KernelEvents' \subseteq KernelEvents \cup {e}
         /\ \A x : Unowned(x)' <=> Unowned(x)
         /\ UNCHANGED <<poolVars, threadPoolVars, eventVars, file, peer, accepting>>
<1> USE DEF IInv
<1> DEFINE new == [op |-> "send", event |-> e, file |-> FileOf(conn[e])]
<1>1. /\ sending' = sending \ {e}
      /\ inflight' \in {inflight, inflight \cup {new}}
      /\ UNCHANGED <<poolVars, threadPoolVars, eventVars, file, peer, accepting>>
  BY DEF SubmitWrite
<1>2. FileOf(conn[e]) \in Peer \cup {NULL}
  <2>1. conn[e] \in Conn
    BY DEF ConnInv
  <2> QED BY <2>1 DEF FileOf, TypeOK
<1>3. new \in Operation /\ new.op = "send" /\ new.event = e
  BY <1>2 DEF Operation
<1> HIDE DEF new
<1>4. inflight' \subseteq inflight \cup {new}
  BY <1>1
<1>5. inflight' \subseteq Operation /\ sending' \subseteq Event
  BY <1>1, <1>3, <1>4 DEF TypeOK
<1>6. EventPoolInv' /\ ConnInv' /\ \A x : Unowned(x)' <=> Unowned(x)
  BY <1>1 DEF EventPoolInv, ConnInv, Unowned, poolVars, eventPoolVars, eventVars
<1>7. ConnPoolInv' /\ OpenInv' /\ DescriptorsNotShared'
  BY <1>1 DEF ConnPoolInv, OpenInv, DescriptorsNotShared, poolVars, connPoolVars
<1>8. KernelInv'
  BY <1>1, <1>3, <1>4, <1>6 DEF KernelInv, KernelEvents, poolVars, eventPoolVars
<1>9. DispatchMatches'
  BY <1>1, <1>3, <1>4 DEF DispatchMatches, eventVars
<1>10. OneReadPerConnection'
  <2>1. \A q \in inflight' : q.op = "recv" => q \in inflight
    BY <1>3, <1>4
  <2> QED BY <1>1, <2>1 DEF OneReadPerConnection, FileOf, eventVars, poolVars, connPoolVars
<1>11. KernelEvents' \subseteq KernelEvents \cup {e}
  BY <1>3, <1>4 DEF KernelEvents
<1> QED BY <1>1, <1>5, <1>6, <1>7, <1>8, <1>9, <1>10, <1>11

LEMMA SendResponseInvariant ==
  ASSUME IInv, NEW t \in Thread, SendResponse(t)
  PROVE  IInv'
<1> USE DEF IInv
<1> DEFINE e == EventOf(t)
<1>1. /\ at[t] = "sending" /\ SubmitWrite(e)
      /\ at' = [at EXCEPT ![t] = "managing"]
      /\ UNCHANGED <<call, userConn, push>>
  BY DEF SendResponse
<1>2. at \in [Thread -> {"idle", "parsing", "sending", "managing"}]
  BY DEF TypeOK
<1>3. /\ e \in Event /\ t \in Holders /\ e \notin KernelEvents /\ e \in usedEvents
      /\ ~Unowned(e) /\ evtype[e] = "WRITE_EV"
  BY <1>1, HandEvent DEF Holders, HandInv, EventPoolInv, SendInv
<1>4. /\ EventPoolInv' /\ KernelInv' /\ ConnInv' /\ ConnPoolInv' /\ OpenInv'
      /\ DispatchMatches' /\ OneReadPerConnection' /\ DescriptorsNotShared'
      /\ inflight' \subseteq Operation /\ sending' \subseteq Event
      /\ KernelEvents' \subseteq KernelEvents \cup {e}
      /\ \A x : Unowned(x)' <=> Unowned(x)
      /\ UNCHANGED <<poolVars, threadPoolVars, eventVars, file, peer, accepting>>
  BY <1>1, <1>3, SubmitWriteKeeps
<1>5. /\ Holders' = Holders \ {t}
      /\ \A u \in Thread : EventOf(u)' = EventOf(u)
      /\ \A u \in Thread : at'[u] = "idle" <=> at[u] = "idle"
      /\ \A u \in Thread : at'[u] = "sending" => at[u] = "sending"
      /\ UNCHANGED <<queue, hand, usedEvents, evtype>>
  BY <1>1, <1>2, <1>4 DEF Holders, EventOf, threadPoolVars, poolVars, eventPoolVars,
                          eventVars
<1>6. \A u \in Holders' : EventOf(u) # e
  BY <1>3, <1>5 DEF HandInv
<1>7. \A u \in Thread : e \notin Range(queue[u])
  BY <1>3 DEF HandInv
<1>8. push # <<>> => Head(push) # e
  BY <1>3 DEF PushInv
<1> HIDE DEF e
<1>9. TypeOK'
  BY <1>1, <1>2, <1>4 DEF TypeOK, poolVars, eventPoolVars, connPoolVars,
                          threadPoolVars, eventVars
<1>10. QueueInv'
  BY <1>4, <1>5, <1>7 DEF QueueInv
<1>11. HandInv'
  <2>1. \A u \in Thread : hand'[u] = <<>> <=> at'[u] = "idle"
    BY <1>5 DEF HandInv
  <2>2. \A u \in Holders' : EventOf(u)' \in usedEvents' \ KernelEvents'
    BY <1>4, <1>5, <1>6 DEF HandInv, Holders
  <2>3. \A u, v \in Holders' : u # v => EventOf(u)' # EventOf(v)'
    BY <1>5 DEF HandInv, Holders
  <2>4. \A u \in Holders', v \in Thread : EventOf(u)' \notin Range(queue'[v])
    BY <1>5 DEF HandInv, Holders
  <2> QED BY <2>1, <2>2, <2>3, <2>4 DEF HandInv
<1>12. PushInv'
  BY <1>1, <1>4, <1>5, <1>8 DEF PushInv
<1>13. SendInv'
  BY <1>1, <1>5 DEF SendInv
<1> QED BY <1>4, <1>9, <1>10, <1>11, <1>12, <1>13

LEMMA SubmitPushInvariant ==
  ASSUME IInv, SubmitPush
  PROVE  IInv'
<1> USE DEF IInv
<1> DEFINE e == Head(push)
<1>1. /\ push # <<>> /\ SubmitWrite(e) /\ push' = <<>>
      /\ UNCHANGED <<at, call, userConn>>
  BY DEF SubmitPush
<1>2. /\ e \in Event /\ e \notin KernelEvents /\ e \notin usedEvents
      /\ ~Unowned(e) /\ evtype[e] = "WRITE_EV"
  BY <1>1, PushEvent DEF PushInv, SendInv
<1>3. /\ EventPoolInv' /\ KernelInv' /\ ConnInv' /\ ConnPoolInv' /\ OpenInv'
      /\ DispatchMatches' /\ OneReadPerConnection' /\ DescriptorsNotShared'
      /\ inflight' \subseteq Operation /\ sending' \subseteq Event
      /\ KernelEvents' \subseteq KernelEvents \cup {e}
      /\ UNCHANGED <<poolVars, threadPoolVars, eventVars, file, peer, accepting>>
  BY <1>1, <1>2, SubmitWriteKeeps
<1>4. /\ Holders' = Holders
      /\ \A u \in Thread : EventOf(u)' = EventOf(u)
      /\ UNCHANGED <<queue, hand, usedEvents, evtype>>
  BY <1>1, <1>3 DEF Holders, EventOf, threadPoolVars, poolVars, eventPoolVars,
                    eventVars
<1> HIDE DEF e
<1>5. TypeOK'
  BY <1>1, <1>3 DEF TypeOK, poolVars, eventPoolVars, connPoolVars,
                    threadPoolVars, eventVars
<1>6. QueueInv'
  BY <1>2, <1>3, <1>4 DEF QueueInv
<1>7. HandInv'
  <2>1. \A u \in Thread : hand'[u] = <<>> <=> at'[u] = "idle"
    BY <1>1, <1>3 DEF HandInv, threadPoolVars
  <2>2. \A u \in Holders' : EventOf(u)' \in usedEvents' \ KernelEvents'
    BY <1>2, <1>3, <1>4 DEF HandInv, Holders
  <2>3. \A u, v \in Holders' : u # v => EventOf(u)' # EventOf(v)'
    BY <1>4 DEF HandInv, Holders
  <2>4. \A u \in Holders', v \in Thread : EventOf(u)' \notin Range(queue'[v])
    BY <1>4 DEF HandInv, Holders
  <2> QED BY <2>1, <2>2, <2>3, <2>4 DEF HandInv
<1>8. PushInv' /\ SendInv'
  BY <1>1, <1>4 DEF PushInv, SendInv
<1> QED BY <1>3, <1>5, <1>6, <1>7, <1>8

LEMMA PushMessageInvariant ==
  ASSUME IInv, NEW u \in User, PushMessage(u)
  PROVE  IInv'
<1> USE DEF IInv
<1>1. PICK e \in Event : /\ NewEvent(e)
                         /\ conn' = [conn EXCEPT ![e] = userConn[u]]
                         /\ SetWriteType(e)
                         /\ push' = <<e>>
  BY DEF PushMessage
<1>2. UNCHANGED <<freeEvents, usedEvents, connPoolVars, connfd, threadPoolVars,
                  evbuf, kernelVars, at, call, userConn>>
  BY DEF PushMessage
<1>3. /\ eventHeap' \subseteq Event /\ EventPoolInv' /\ Unowned(e)
      /\ \A x : Unowned(x)' <=> Unowned(x) /\ x # e
  BY <1>1, <1>2, Typed, HeapEvent
<1>4. /\ e \notin usedEvents /\ e \notin KernelEvents
      /\ \A t \in Thread : e \notin Range(queue[t])
      /\ \A t \in Holders : EventOf(t) # e
  BY <1>3, UnownedIsNobodys
<1>5. evtype' = [evtype EXCEPT ![e] = "WRITE_EV"] /\ sending' = sending \cup {e}
  BY <1>1 DEF SetWriteType
<1>6. TypeOK'
  BY <1>1, <1>2, <1>3, <1>5 DEF TypeOK, connPoolVars, threadPoolVars, kernelVars
<1>7. KernelInv'
  BY <1>2, <1>3, <1>4 DEF KernelInv, KernelEvents, kernelVars
<1>8. KernelEvents' = KernelEvents
  BY <1>2 DEF KernelEvents, kernelVars
<1>9. QueueInv' /\ HandInv'
  BY <1>2, <1>8 DEF QueueInv, HandInv, Holders, EventOf, threadPoolVars
<1>10. PushInv'
  BY <1>1, <1>2, <1>3, <1>4, <1>8 DEF PushInv
<1>11. ConnPoolInv' /\ OpenInv' /\ DescriptorsNotShared'
  BY <1>2 DEF ConnPoolInv, OpenInv, DescriptorsNotShared, connPoolVars, kernelVars
<1>12. \A q \in inflight : q.event \in Event /\ q.event # e
  BY <1>4 DEF TypeOK, Operation, KernelEvents
<1>13. DispatchMatches'
  BY <1>2, <1>5, <1>12 DEF DispatchMatches, kernelVars, TypeOK
<1>14. OneReadPerConnection'
  <2>1. \A q \in inflight : conn'[q.event] = conn[q.event]
    BY <1>1, <1>12 DEF TypeOK
  <2> QED BY <1>2, <2>1 DEF OneReadPerConnection, FileOf, connPoolVars, kernelVars
<1>15. SendInv'
  <2>1. \A t \in Thread : at'[t] = "sending" => evtype'[EventOf(t)'] = "WRITE_EV"
    <3> TAKE t \in Thread
    <3> HAVE at'[t] = "sending"
    <3>1. at[t] = "sending" /\ EventOf(t)' = EventOf(t) /\ EventOf(t) # e
      BY <1>2, <1>4 DEF EventOf, Holders, threadPoolVars
    <3>2. EventOf(t) \in Event
      BY <3>1, HandEvent
    <3> QED BY <1>5, <3>1, <3>2 DEF SendInv, TypeOK
  <2>2. evtype'[Head(push')] = "WRITE_EV"
    BY <1>1, <1>5 DEF TypeOK
  <2> QED BY <2>1, <2>2 DEF SendInv
<1>16. ConnInv'
  <2>1. userConn[u] \in Conn
    BY DEF PushMessage, TypeOK
  <2> QED BY <1>1, <1>3, <2>1 DEF ConnInv, TypeOK
<1> QED BY <1>3, <1>6, <1>7, <1>9, <1>10, <1>11, <1>13, <1>14, <1>15,
           <1>16

-----------------------------------------------------------------------------
(* The invariant holds in every reachable state.                           *)

LEMMA InitInvariant == Init => IInv
<1> SUFFICES ASSUME Init PROVE IInv
  OBVIOUS
<1> USE DEF Init, InitTcpServer, InitEventPool, InitConnPool, InitThreadPool
<1>1. /\ freeEvents \in Seq(Event) /\ freeConns \in Seq(Conn)
      /\ Range(freeEvents) \subseteq Event /\ Range(freeConns) \subseteq Conn
  <2>1. ASSUME NEW S, NEW n \in Nat, NEW s \in [1 .. n -> S]
        PROVE  s \in Seq(S) /\ Range(s) \subseteq S
    <3>1. s \in Seq(S)
      BY SeqDef, Zenon
    <3>2. Range(s) \subseteq S
      BY DEF Range
    <3> QED BY <3>1, <3>2
  <2>2. freeEvents \in [1 .. EventNum -> Event] /\ freeConns \in [1 .. ConnNum -> Conn]
    OBVIOUS
  <2> QED BY <2>1, <2>2, EventNumAssumption, ConnNumAssumption
<1>2. 0 \in Thread
  BY ThreadNumAssumption DEF Thread
<1>3. TypeOK
  BY <1>1, <1>2 DEF TypeOK, Call, Operation
<1>4. \A t \in Thread : Range(queue[t]) = {} /\ IsInjective(queue[t])
  BY DEF Range, IsInjective
<1>5. EventPoolInv /\ KernelInv /\ QueueInv /\ KernelEvents = {}
  BY <1>4 DEF EventPoolInv, KernelInv, QueueInv, Unowned, KernelEvents
<1>6. HandInv /\ PushInv /\ SendInv
  BY DEF HandInv, PushInv, SendInv, Holders
<1>7. ConnInv /\ ConnPoolInv /\ OpenInv
  BY DEF ConnInv, Unowned, ConnPoolInv, OpenInv
<1>8. DispatchMatches /\ OneReadPerConnection /\ DescriptorsNotShared
  BY DEF DispatchMatches, OneReadPerConnection, DescriptorsNotShared
<1> QED BY <1>3, <1>5, <1>6, <1>7, <1>8 DEF IInv

LEMMA StutterInvariant ==
  ASSUME IInv, UNCHANGED vars
  PROVE  IInv'
<1> USE DEF IInv, vars, serverVars, providerVars
<1>1. UNCHANGED <<poolVars, threadPoolVars, eventVars, kernelVars, sending>>
  OBVIOUS
<1>2. TypeOK'
  BY DEF TypeOK, poolVars, eventPoolVars, connPoolVars, threadPoolVars, eventVars,
         kernelVars
<1>3. QueueInv' /\ HandInv' /\ PushInv' /\ SendInv'
  BY DEF QueueInv, HandInv, PushInv, SendInv, Holders, EventOf, KernelEvents,
         Unowned, poolVars, eventPoolVars, threadPoolVars, eventVars, kernelVars
<1> QED BY <1>1, <1>2, <1>3, ServerStays

LEMMA EventLoopInvariant ==
  ASSUME IInv, UNCHANGED providerVars, EventLoop
  PROVE  IInv'
<1>1. CASE \E fd \in Fd, p \in Peer : Accept(fd, p)
  <2>1. PICK fd \in Fd, p \in Peer : Accept(fd, p)
    BY <1>1
  <2>2. /\ file' = [file EXCEPT ![fd] = p] /\ file[fd] = NULL /\ OnAccept(fd, p)
        /\ peer' = [peer EXCEPT ![p] = "connected"]
        /\ fd # NULL /\ p # NULL
    BY <2>1, TcpServerAssumption DEF Accept
  <2>3. /\ file' \in [Fd -> Peer \cup {NULL}]
        /\ peer' \in [Peer -> {"new", "connected", "closed", "reset"}]
    BY <2>2 DEF IInv, TypeOK
  <2> QED BY <2>2, <2>3, AcceptInvariant
<1>2. CASE AcceptFails
  <2>1. OnAccept(NULL, NULL) /\ file' = file /\ peer' = peer
    BY <1>2 DEF AcceptFails
  <2>2. /\ file' \in [Fd -> Peer \cup {NULL}]
        /\ peer' \in [Peer -> {"new", "connected", "closed", "reset"}]
    BY <2>1 DEF IInv, TypeOK
  <2> QED BY <2>1, <2>2, AcceptInvariant
<1>3. CASE \E q \in inflight : ReadSome(q) \/ ReadEnd(q) \/ ReadError(q) \/ WriteDone(q)
  BY <1>3, ReadSomeInvariant, ReadEndInvariant, ReadErrorInvariant, WriteDoneInvariant
<1> QED BY <1>1, <1>2, <1>3 DEF EventLoop

LEMMA NextInvariant == IInv /\ [Next]_vars => IInv'
BY EventLoopInvariant, ClientsInvariant, ReceiveInvariant, FinishInvariant,
   CallMethodInvariant, SendResponseInvariant, PushMessageInvariant,
   SubmitPushInvariant, StutterInvariant DEF Next, OnMessage, Observer

LEMMA Invariant == Spec => []IInv
BY InitInvariant, NextInvariant, PTL DEF Spec

-----------------------------------------------------------------------------
(* Theorems about every behaviour.                                         *)

(* Every variable has its type.                                            *)
THEOREM TypeCorrect == Spec => []TypeOK
BY Invariant, PTL DEF IInv

(* The kernel's buffers are its own: an event is never freed, reused or    *)
(* worked on while an operation on it is in flight, lost submissions and   *)
(* dropped requests notwithstanding.                                       *)
THEOREM KernelBuffers == Spec => []BuffersNotShared
<1>1. IInv => BuffersNotShared
  BY DEF IInv, BuffersNotShared, KernelInv, QueueInv, HandInv, PushInv, Unowned,
         KernelEvents
<1> QED BY <1>1, Invariant, PTL

(* No two threads work on one event, and none on a free one.               *)
THEOREM ThreadEvents == Spec => []EventsNotShared
<1>1. IInv => EventsNotShared
  BY DEF IInv, EventsNotShared, EventPoolInv, HandInv, Unowned
<1> QED BY <1>1, Invariant, PTL

(* A completion is dispatched by the operation that completed.             *)
THEOREM Dispatch == Spec => []DispatchMatches
BY Invariant, PTL DEF IInv

(* A connection has one read in flight at most and none when it is free,   *)
(* so startLoop frees each connection once.                                *)
THEOREM ConnectionReads == Spec => []OneReadPerConnection
BY Invariant, PTL DEF IInv

(* Connections in use have descriptors of their own.                       *)
THEOREM ConnectionDescriptors == Spec => []DescriptorsNotShared
BY Invariant, PTL DEF IInv

=============================================================================
