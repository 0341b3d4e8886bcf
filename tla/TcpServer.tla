----------------------------- MODULE TcpServer ------------------------------
(***************************************************************************)
(* FasterTcpServer (src/faster_tcpserver.cc): the event loop over an       *)
(* io_uring, its pools of events and connections, the threads it hands     *)
(* requests to, and sendMessage, which those threads call.                 *)
(*                                                                         *)
(* One turn of the loop's body for one completion is one step: nothing     *)
(* else touches the pools or the fields of an event in the loop's hands.   *)
(* A completion is taken when the loop handles it.  The kernel resolves a  *)
(* descriptor when the operation is submitted, which is what `file' in an  *)
(* operation stands for.                                                   *)
(*                                                                         *)
(* The submission queue has no lock.  When two threads are in              *)
(* io_uring_get_sqe at a time they may be given the same entry, and one of *)
(* the two operations is lost.                                             *)
(***************************************************************************)
EXTENDS EventPool, ConnPool, FasterThreadPool

CONSTANTS
  Fd,     \* descriptors the kernel can give to connections
  Peer,   \* client sockets: each connects once at most
  NULL    \* no connection, no descriptor, no socket

ASSUME TcpServerAssumption ==
  NULL \notin Event \cup Conn \cup Fd \cup Peer

VARIABLES
  evtype, conn,   \* the fields of events
  evbuf,          \* whose request, or the response to whose, evbuf holds
  connfd,         \* the field of connections
  file,           \* the kernel's descriptor table: the socket of each fd
  peer,           \* what the client at each socket has done
  inflight,       \* recv and send operations submitted and not handled yet
  accepting,      \* whether an accept operation is submitted
  sending         \* the events some thread is in sendMessage with

eventVars == <<evtype, conn, evbuf>>
kernelVars == <<file, peer, inflight, accepting>>
poolVars == <<eventPoolVars, connPoolVars, connfd>>
serverVars == <<poolVars, threadPoolVars, eventVars, kernelVars, sending>>

Operation == [op : {"recv", "send"}, event : Event, file : Peer \cup {NULL}]

InitTcpServer ==
  /\ InitEventPool /\ InitConnPool /\ InitThreadPool
  /\ evtype = [e \in Event |-> "UNKNOWN_EV"]
  /\ conn = [e \in Event |-> NULL]
  /\ evbuf = [e \in Event |-> NULL]
  /\ connfd = [k \in Conn |-> NULL]
  /\ file = [fd \in Fd |-> NULL]
  /\ peer = [p \in Peer |-> "new"]
  /\ inflight = {}
  /\ accepting = TRUE
  /\ sending = {}

\* The socket that the descriptor of a connection names now.
FileOf(k) == IF connfd[k] = NULL THEN NULL ELSE file[connfd[k]]

(* What the loop's submission of an operation leaves in flight of `others' *)
LoopSubmits(others, operation) ==
  inflight' \in {others \cup {operation}}
                \cup (IF sending = {} THEN {} ELSE {others})

\* The event is made ready to receive from connection k.
ReadEvent(e, k) ==
  /\ conn' = [conn EXCEPT ![e] = k]
  /\ evbuf' = [evbuf EXCEPT ![e] = NULL]

-----------------------------------------------------------------------------
(* ACCEPT_EV: fd and its socket p, both NULL when the accept failed, which *)
(* the code does not look at.                                              *)
OnAccept(fd, p) ==
  /\ accepting
  /\ accepting' \in (IF sending = {} THEN {TRUE} ELSE BOOLEAN)
  /\ \E k \in Conn, e \in Event :
       /\ GetOneFreeConn(k)
       /\ connfd' = [connfd EXCEPT ![k] = fd]
       /\ GetOneFreeEvent(e)
       /\ ReadEvent(e, k)
       /\ evtype' = [evtype EXCEPT ![e] = "READ_EV"]
       /\ LoopSubmits(inflight, [op |-> "recv", event |-> e, file |-> p])
  /\ UNCHANGED <<threadPoolVars, sending>>

Accept(fd, p) ==
  /\ file[fd] = NULL
  /\ peer[p] = "new"
  /\ file' = [file EXCEPT ![fd] = p]
  /\ peer' = [peer EXCEPT ![p] = "connected"]
  /\ OnAccept(fd, p)

AcceptFails ==
  /\ OnAccept(NULL, NULL)
  /\ UNCHANGED <<file, peer>>

-----------------------------------------------------------------------------
(* How the kernel can complete an operation: bytes, end of stream, error.  *)
Results(q) ==
  IF q.file = NULL THEN {"error"}
  ELSE IF q.op = "send" THEN {"bytes", "error"}
  ELSE CASE peer[q.file] = "connected" -> {"bytes"}
         [] peer[q.file] = "closed"    -> {"bytes", "end"}
         [] OTHER                      -> {"error"}

\* A bug: the event goes on to the thread as the one that is read next.
ReadSomeSameEvent(q) ==
  LET e == q.event IN
  /\ evtype[e] = "READ_EV"
  /\ "bytes" \in Results(q)
  /\ AddEvent(e)
  /\ evbuf' = [evbuf EXCEPT ![e] = q.file]
  /\ LoopSubmits(inflight \ {q}, [op |-> "recv", event |-> e, file |-> FileOf(conn[e])])
  /\ UNCHANGED <<poolVars, conn, evtype, file, peer, accepting, sending>>

\* A bug: the type is left as it was.
ReadSomeKeepsType(q) ==
  LET e == q.event IN
  /\ evtype[e] = "READ_EV"
  /\ "bytes" \in Results(q)
  /\ AddEvent(e)
  /\ \E new \in Event :
       /\ GetOneFreeEvent(new)
       /\ conn' = [conn EXCEPT ![new] = conn[e]]
       /\ evbuf' = [evbuf EXCEPT ![e] = q.file, ![new] = NULL]
       /\ UNCHANGED evtype
       /\ LoopSubmits(inflight \ {q},
            [op |-> "recv", event |-> new, file |-> FileOf(conn[e])])
  /\ UNCHANGED <<connPoolVars, connfd, file, peer, accepting, sending>>

(* READ_EV with bytes: the event goes to a thread, another one is read     *)
(* into.                                                                   *)
ReadSome(q) ==
  LET e == q.event IN
  /\ evtype[e] = "READ_EV"
  /\ "bytes" \in Results(q)
  /\ AddEvent(e)
  /\ \E new \in Event :
       /\ GetOneFreeEvent(new)
       /\ conn' = [conn EXCEPT ![new] = conn[e]]
       /\ evbuf' = [evbuf EXCEPT ![e] = q.file, ![new] = NULL]
       /\ evtype' = [evtype EXCEPT ![e] = "WRITE_EV", ![new] = "READ_EV"]
       /\ LoopSubmits(inflight \ {q},
            [op |-> "recv", event |-> new, file |-> FileOf(conn[e])])
  /\ UNCHANGED <<connPoolVars, connfd, file, peer, accepting, sending>>

\* A bug: the socket is closed and its connection is kept.
ReadEndKeepsConn(q) ==
  LET e == q.event IN
  /\ evtype[e] = "READ_EV"
  /\ "end" \in Results(q)
  /\ file' = [file EXCEPT ![connfd[conn[e]]] = NULL]
  /\ FreeOneUsedEvent(e)
  /\ inflight' = inflight \ {q}
  /\ UNCHANGED <<connPoolVars, connfd, threadPoolVars, eventVars, peer, accepting, sending>>

(* READ_EV at the end of the stream: close, and both objects are freed.    *)
ReadEnd(q) ==
  LET e == q.event IN
  /\ evtype[e] = "READ_EV"
  /\ "end" \in Results(q)
  /\ file' = [file EXCEPT ![connfd[conn[e]]] = NULL]
  /\ FreeOneUsedConn(conn[e])
  /\ FreeOneUsedEvent(e)
  /\ inflight' = inflight \ {q}
  /\ UNCHANGED <<connfd, threadPoolVars, eventVars, peer, accepting, sending>>

(* READ_EV with an error: a line is printed, and nothing is freed.         *)
ReadError(q) ==
  /\ evtype[q.event] = "READ_EV"
  /\ "error" \in Results(q)
  /\ inflight' = inflight \ {q}
  /\ UNCHANGED <<poolVars, threadPoolVars, eventVars, file, peer, accepting, sending>>

(* WRITE_EV, whatever its result.                                          *)
WriteDone(q) ==
  /\ evtype[q.event] = "WRITE_EV"
  /\ FreeOneUsedEvent(q.event)
  /\ inflight' = inflight \ {q}
  /\ UNCHANGED <<connPoolVars, connfd, threadPoolVars, eventVars, file, peer,
                 accepting, sending>>

-----------------------------------------------------------------------------
(* sendMessage, called by the threads and by the Redis observer: it sets   *)
(* evtype, then submits.  The connection's descriptor is read at the       *)
(* submission, which the loop's own use of the queue may overlap.          *)
SetWriteType(e) ==
  /\ evtype' = [evtype EXCEPT ![e] = "WRITE_EV"]
  /\ sending' = sending \cup {e}

SubmitWrite(e) ==
  /\ sending' = sending \ {e}
  /\ inflight' \in
       {inflight,
        inflight \cup {[op |-> "send", event |-> e, file |-> FileOf(conn[e])]}}
  /\ UNCHANGED <<poolVars, threadPoolVars, eventVars, file, peer, accepting>>

-----------------------------------------------------------------------------
(* The clients *)

PeerCloses(p) ==
  /\ peer[p] = "connected"
  /\ peer' = [peer EXCEPT ![p] = "closed"]
  /\ UNCHANGED <<poolVars, threadPoolVars, eventVars, file, inflight,
                 accepting, sending>>

PeerResets(p) ==
  /\ peer[p] \in {"connected", "closed"}
  /\ peer' = [peer EXCEPT ![p] = "reset"]
  /\ UNCHANGED <<poolVars, threadPoolVars, eventVars, file, inflight,
                 accepting, sending>>

EventLoop ==
  \/ \E fd \in Fd, p \in Peer : Accept(fd, p)
  \/ AcceptFails
  \/ \E q \in inflight :
       ReadSome(q) \/ ReadEnd(q) \/ ReadError(q) \/ WriteDone(q)

Clients == \E p \in Peer : PeerCloses(p) \/ PeerResets(p)

=============================================================================
