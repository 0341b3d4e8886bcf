---------------------------- MODULE RpcProvider -----------------------------
(***************************************************************************)
(* RpcProvider (src/rpcprovider.cc) on its TCP server: each thread of the  *)
(* pool runs OnMessageCallback for a request, the Redis observer's thread  *)
(* runs handleRedisSubscribeMessage, and both call sendMessage.            *)
(*                                                                         *)
(* The service behind CallMethod answers anything here.                    *)
(***************************************************************************)
EXTENDS TcpServer

CONSTANT User

VARIABLES
  at,         \* where each thread is in OnMessageCallback
  call,       \* its local variables, and the connection the request came on
  userConn,   \* _userConnMap; NULL for a user it has no entry for
  push        \* the observer's event, in handleRedisSubscribeMessage: <<e>>

providerVars == <<at, call, userConn, push>>
vars == <<serverVars, providerVars>>

(* What a thread remembers of its request: a login or logout that the      *)
(* service accepted, and the connection it came on; or anything else.      *)
NoCall == [method |-> "Other"]

Call ==
  [method : {"Login", "Logout"}, user : User, conn : Conn \cup {NULL}] \cup {NoCall}

Init ==
  /\ InitTcpServer
  /\ at = [t \in Thread |-> "idle"]
  /\ call = [t \in Thread |-> NoCall]
  /\ userConn = [u \in User |-> NULL]
  /\ push = <<>>

EventOf(t) == Head(hand[t])

-----------------------------------------------------------------------------
(* OnMessageCallback *)

Receive(t) ==
  /\ at[t] = "idle"
  /\ Take(t)
  /\ at' = [at EXCEPT ![t] = "parsing"]
  /\ UNCHANGED <<poolVars, eventVars, kernelVars, sending, call, userConn, push>>

(* The returns for what cannot be parsed or is not a method of a service:  *)
(* the event is neither sent nor freed.                                    *)
Reject(t) ==
  /\ at[t] = "parsing"
  /\ Finish(t)
  /\ at' = [at EXCEPT ![t] = "idle"]
  /\ UNCHANGED <<poolVars, eventVars, kernelVars, sending, call, userConn, push>>

(* CallMethod, at whose end SendRpcResponse calls sendMessage.             *)
CallMethod(t) ==
  /\ at[t] = "parsing"
  /\ \E m \in {"Login", "Logout"}, u \in User :
       call' \in {[call EXCEPT ![t] = NoCall],
                  [call EXCEPT ![t] = [method |-> m, user |-> u,
                                       conn |-> conn[EventOf(t)]]]}
  /\ SetWriteType(EventOf(t))
  /\ at' = [at EXCEPT ![t] = "sending"]
  /\ UNCHANGED <<poolVars, threadPoolVars, conn, evbuf, kernelVars, userConn, push>>

SendResponse(t) ==
  /\ at[t] = "sending"
  /\ SubmitWrite(EventOf(t))
  /\ at' = [at EXCEPT ![t] = "managing"]
  /\ UNCHANGED <<call, userConn, push>>

(* The connection management after CallMethod.  It reads the event's       *)
(* connection now.  insert leaves an entry that is there as it is.  There  *)
(* is no lock: of two threads that change the map one may be overwritten.  *)
ManageConnection(t) ==
  /\ at[t] = "managing"
  /\ \/ /\ call[t].method = "Login"
        /\ LET u == call[t].user
               new == IF userConn[u] = NULL THEN conn[EventOf(t)] ELSE userConn[u]
           IN  userConn' = [userConn EXCEPT ![u] = new]
     \/ /\ call[t].method = "Logout"
        /\ userConn' = [userConn EXCEPT ![call[t].user] = NULL]
     \/ /\ \/ call[t].method = "Other"
           \/ \E t2 \in Thread \ {t} :
                at[t2] = "managing" /\ call[t2].method # "Other"
        /\ UNCHANGED userConn
  /\ call' = [call EXCEPT ![t] = NoCall]
  /\ at' = [at EXCEPT ![t] = "idle"]
  /\ Finish(t)
  /\ UNCHANGED <<poolVars, eventVars, kernelVars, sending, push>>

-----------------------------------------------------------------------------
(* handleRedisSubscribeMessage: a message for a user without an entry is   *)
(* dropped, which changes nothing.  The event is not one of the pool's.    *)
PushMessage(u) ==
  /\ push = <<>>
  /\ userConn[u] # NULL
  /\ \E e \in Event :
       /\ NewEvent(e)
       /\ conn' = [conn EXCEPT ![e] = userConn[u]]
       /\ SetWriteType(e)
       /\ push' = <<e>>
  /\ UNCHANGED <<freeEvents, usedEvents, connPoolVars, connfd, threadPoolVars,
                 evbuf, kernelVars, at, call, userConn>>

SubmitPush ==
  /\ push # <<>>
  /\ SubmitWrite(Head(push))
  /\ push' = <<>>
  /\ UNCHANGED <<at, call, userConn>>

-----------------------------------------------------------------------------
OnMessage(t) ==
  Receive(t) \/ Reject(t) \/ CallMethod(t) \/ SendResponse(t) \/ ManageConnection(t)

Observer == SubmitPush \/ \E u \in User : PushMessage(u)

Next ==
  \/ (EventLoop \/ Clients) /\ UNCHANGED providerVars
  \/ \E t \in Thread : OnMessage(t)
  \/ Observer

Spec == Init /\ [][Next]_vars

-----------------------------------------------------------------------------
(* Properties *)

(* Every variable has its type.                                            *)
TypeOK ==
  /\ freeEvents \in Seq(Event) /\ usedEvents \subseteq Event
  /\ eventHeap \subseteq Event
  /\ freeConns \in Seq(Conn) /\ usedConns \subseteq Conn
  /\ connHeap \subseteq Conn
  /\ queue \in [Thread -> Seq(Event)]
  /\ hand \in [Thread -> {<<>>} \cup {<<e>> : e \in Event}]
  /\ indexThread \in Thread
  /\ evtype \in [Event -> {"UNKNOWN_EV", "READ_EV", "WRITE_EV"}]
  /\ conn \in [Event -> Conn \cup {NULL}]
  /\ evbuf \in [Event -> Peer \cup {NULL}]
  /\ connfd \in [Conn -> Fd \cup {NULL}]
  /\ file \in [Fd -> Peer \cup {NULL}]
  /\ peer \in [Peer -> {"new", "connected", "closed", "reset"}]
  /\ inflight \subseteq Operation
  /\ accepting \in BOOLEAN
  /\ sending \subseteq Event
  /\ at \in [Thread -> {"idle", "parsing", "sending", "managing"}]
  /\ call \in [Thread -> Call]
  /\ userConn \in [User -> Conn \cup {NULL}]
  /\ push \in {<<>>} \cup {<<e>> : e \in Event}

\* The threads that hold an event they have not sent yet.
Holders == {t \in Thread : at[t] \in {"parsing", "sending"}}

\* The events the kernel may read or write the buffer of.
KernelEvents == {q.event : q \in inflight}

(* The kernel never has a buffer that the pool could give to somebody      *)
(* else, or that a thread is parsing or writing, or that waits for one:    *)
(* and it has no event twice, so none is freed twice.                      *)
BuffersNotShared ==
  /\ KernelEvents \cap (Range(freeEvents) \cup eventHeap) = {}
  /\ \A p, q \in inflight : p.event = q.event => p = q
  /\ \A t \in Thread : KernelEvents \cap Range(queue[t]) = {}
  /\ \A t \in Holders : EventOf(t) \notin KernelEvents
  /\ push # <<>> => Head(push) \notin KernelEvents

(* No two threads work on one event, and none works on one that is free.   *)
EventsNotShared ==
  /\ IsInjective(freeEvents)
  /\ \A t, u \in Holders : t # u => EventOf(t) # EventOf(u)
  /\ \A t \in Holders : EventOf(t) \in usedEvents \ Range(freeEvents)

(* The loop tells a completed receive from a completed send by the         *)
(* event's type, which the threads write too: it is never wrong.           *)
DispatchMatches ==
  \A q \in inflight :
    evtype[q.event] = (IF q.op = "recv" THEN "READ_EV" ELSE "WRITE_EV")

(* A connection is read by one operation at most, none when it is free:    *)
(* so it is freed once, and freeOneUsedConn, which does not look, always   *)
(* finds it.  What is read is what its own client sent.                    *)
OneReadPerConnection ==
  /\ \A p, q \in inflight :
       p.op = "recv" /\ q.op = "recv" /\ conn[p.event] = conn[q.event] => p = q
  /\ \A q \in inflight :
       q.op = "recv" => conn[q.event] \in usedConns /\ q.file = FileOf(conn[q.event])

(* Two connections in use never name one open descriptor: closing one does *)
(* not close the other.                                                    *)
DescriptorsNotShared ==
  \A j, k \in usedConns :
    j # k /\ connfd[j] # NULL => connfd[j] # connfd[k]

-----------------------------------------------------------------------------
(* What comments of the code say, and the code does not do *)

(* faster_eventpool.h has a field to identify whether an event has expired *)
(* because its connection was released: a response goes to the client      *)
(* that asked, or to nobody.                                               *)
ResponseReachesRequester ==
  \A q \in inflight :
    q.op = "send" /\ evbuf[q.event] # NULL => q.file \in {NULL, evbuf[q.event]}

=============================================================================
