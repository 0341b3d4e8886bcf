----------------------------- MODULE RpcChannel -----------------------------
(***************************************************************************)
(* FasterRpcChannel (client/rpcchannel.cc) of a client program, on the     *)
(* registry and the server's starts: a call looks up its method's address, *)
(* connects, sends, and waits for a semaphore.                             *)
(*                                                                         *)
(* The semaphore is posted by the thread that receives, for a descriptor   *)
(* that epoll reports.  No descriptor is ever added to the thread's epoll, *)
(* so that it waits for ever: nothing of its loop's body is here.          *)
(***************************************************************************)
EXTENDS StartService

CONSTANT Fd     \* descriptors the kernel can give to connections

ASSUME RpcChannelAssumption == NULL \notin Fd

VARIABLES
  called,         \* the method of the call
  serviceToConn,  \* _serviceToConn: the descriptor of each method
  connToService,  \* _connToService
  file,           \* the kernel's: the server at the other end of each descriptor
  answered        \* whether the server has sent the response to the call

channelVars == <<called, serviceToConn, connToService, file, answered>>
vars == <<zkVars, startVars, channelVars>>

Init ==
  /\ InitZk /\ InitStart
  /\ called = NULL
  /\ serviceToConn = [m \in Method |-> NULL]
  /\ connToService = [fd \in Fd |-> NULL]
  /\ file = [fd \in Fd |-> NULL]
  /\ answered = FALSE

(* CallMethod's return with the controller's SetFailed: the caller prints  *)
(* the error and goes back to its menu.                                    *)
SetFailed == Goto(Client, "new") /\ called' = NULL

-----------------------------------------------------------------------------
(* openConn *)

\* A connection that is there is used; else the registry is asked.
CallMethod(m) ==
  /\ at[Client] = "new"
  /\ called' = m
  /\ answered' = FALSE
  /\ IF serviceToConn[m] # NULL
     THEN Goto(Client, "send") /\ UNCHANGED <<session, znode, faulted>>
     ELSE Start(Client)
  /\ UNCHANGED <<startVars, serviceToConn, connToService, file>>

StartZk ==
  /\ SetContext(Client) \/ Connected(Client)
  /\ UNCHANGED <<startVars, channelVars>>

\* A bug: it looks again.
FindHostAgain ==
  /\ at[Client] = "started"
  /\ \E found \in BOOLEAN :
       /\ GetData(Client, called, found)
       /\ IF found THEN Goto(Client, "connect") ELSE UNCHANGED at
  /\ UNCHANGED <<session, znode, startVars, channelVars>>

FindHost ==
  /\ at[Client] = "started"
  /\ \E found \in BOOLEAN :
       /\ GetData(Client, called, found)
       /\ IF found
          THEN Goto(Client, "connect") /\ UNCHANGED <<session, called>>
          ELSE SetFailed /\ CloseZk(Client)
  /\ UNCHANGED <<znode, startVars, serviceToConn, connToService, file, answered>>

\* No socket, or nobody who accepts: the descriptor is closed.
ConnectFails ==
  /\ SetFailed
  /\ UNCHANGED <<serviceToConn, connToService, file>>

\* A bug: the descriptor is not kept.
ConnectsOnce(fd, s) ==
  /\ file[fd] = NULL
  /\ at[s] = "serving"
  /\ file' = [file EXCEPT ![fd] = s]
  /\ connToService' = [connToService EXCEPT ![fd] = called]
  /\ Goto(Client, "send")
  /\ UNCHANGED <<called, serviceToConn>>

\* The address is every server's: it leads to the one that listens.
Connects(fd, s) ==
  /\ file[fd] = NULL
  /\ at[s] = "serving"
  /\ file' = [file EXCEPT ![fd] = s]
  /\ serviceToConn' = [serviceToConn EXCEPT ![called] = fd]
  /\ connToService' = [connToService EXCEPT ![fd] = called]
  /\ Goto(Client, "send")
  /\ UNCHANGED called

Connect ==
  /\ at[Client] = "connect"
  /\ ConnectFails \/ \E fd \in Fd, s \in Server : Connects(fd, s)
  /\ CloseZk(Client)
  /\ UNCHANGED <<znode, faulted, startVars, answered>>

-----------------------------------------------------------------------------
\* A bug: one of the two entries is left.
CloseConnByMethod(m) ==
  LET fd == serviceToConn[m] IN
  /\ serviceToConn' = [serviceToConn EXCEPT ![m] = NULL]
  /\ file' = [file EXCEPT ![fd] = NULL]
  /\ UNCHANGED connToService

CloseConn(m) ==
  LET fd == serviceToConn[m] IN
  /\ connToService' = [connToService EXCEPT ![fd] = NULL]
  /\ serviceToConn' = [serviceToConn EXCEPT ![m] = NULL]
  /\ file' = [file EXCEPT ![fd] = NULL]

(* The send succeeds or, if the server is gone, may return an error.       *)
Send ==
  /\ at[Client] = "send"
  /\ \/ Goto(Client, "wait") /\ UNCHANGED <<called, serviceToConn, connToService, file>>
     \/ /\ at[file[serviceToConn[called]]] # "serving"
        /\ CloseConn(called)
        /\ SetFailed
  /\ UNCHANGED <<session, znode, faulted, startVars, answered>>

(* SendRpcResponse, by the server at the other end of the connection.      *)
Respond ==
  /\ at[Client] = "wait"
  /\ ~answered
  /\ at[file[serviceToConn[called]]] = "serving"
  /\ answered' = TRUE
  /\ UNCHANGED <<zkVars, startVars, called, serviceToConn, connToService, file>>

ClientStep == StartZk \/ FindHost \/ Connect \/ Send

Next ==
  \/ \E s \in Server : ServerStep(s) /\ UNCHANGED channelVars
  \/ \E m \in Method : CallMethod(m)
  \/ ClientStep
  \/ Respond
  \/ \E s \in Server : Expire(s) /\ UNCHANGED <<startVars, channelVars>>

Spec == Init /\ [][Next]_vars

(* A process goes on with what it has begun, and ZooKeeper answers.        *)
FairSpec ==
  /\ Spec
  /\ \A s \in Server : WF_vars(StartStep(s) /\ UNCHANGED channelVars)
  /\ WF_vars(ClientStep)

-----------------------------------------------------------------------------
(* Properties *)

(* Every variable has its type, and who sends or waits has a connection.   *)
TypeOK ==
  /\ at \in [Process -> {"new", "context", "waiting", "started", "serving", "deaf",
                         "connect", "send", "wait", "exited", "crashed"}]
  /\ session \in [Process -> {"none", "connecting", "open", "expired"}]
  /\ znode \in [Path -> Server \cup {PERMANENT, NULL}]
  /\ faulted \subseteq Server
  /\ todo \in [Server -> SUBSET Path]
  /\ creating \in [Server -> Path \cup {NULL}]
  /\ older \in [Server -> SUBSET Server]
  /\ beside \in [Server -> SUBSET Server]
  /\ called \in Method \cup {NULL}
  /\ serviceToConn \in [Method -> Fd \cup {NULL}]
  /\ connToService \in [Fd -> Method \cup {NULL}]
  /\ file \in [Fd -> Server \cup {NULL}]
  /\ answered \in BOOLEAN
  /\ at[Client] \in {"send", "wait"} => serviceToConn[called] \in Fd

(* Create exits when it cannot create a node.  A server that starts alone  *)
(* never does so because of nodes that an earlier server left, or that     *)
(* vanish meanwhile: only because a call of ZooKeeper failed.              *)
ExitsOnlyOnFault ==
  \A s \in Server : at[s] = "exited" /\ beside[s] = {} => s \in faulted

(* Create does not create what exists, though it may go with another's     *)
(* session: a server that serves is registered with all methods, unless    *)
(* its own session expired, a call failed, or the session of another that  *)
(* reached into its start has expired since.                               *)
RegisteredUnlessOutlived ==
  \A s \in Server :
    at[s] = "serving" /\ session[s] = "open" /\ s \notin faulted =>
      LET others == older[s] \cup beside[s]
      IN  /\ \A m \in Method : znode[m] \in others \cup {s, NULL}
          /\ (\E m \in Method : znode[m] = NULL) =>
               \E r \in others : session[r] = "expired"

(* _serviceToConn and _connToService say the same, and name what is open:  *)
(* no failure of a call leaves a descriptor that is never closed.          *)
ChannelMapsAgree ==
  \A fd \in Fd :
    /\ file[fd] # NULL <=> connToService[fd] # NULL
    /\ \A m \in Method : serviceToConn[m] = fd <=> connToService[fd] = m

(* A start ends, whenever ZooKeeper's thread calls the watcher: the server *)
(* serves, or hears nobody, or is gone.                                    *)
StartsSettle ==
  \A s \in Server :
    at[s] \in {"context", "waiting", "started"}
      ~> at[s] \in {"serving", "deaf", "exited", "crashed"}

(* A call fails, or its request is sent, or the client is gone.            *)
CallsSettle ==
  at[Client] \in {"context", "waiting", "started", "connect", "send"}
    ~> at[Client] \in {"new", "wait", "exited", "crashed"}

-----------------------------------------------------------------------------
(* What comments of the code say, and the code does not do *)

(* CallMethod says that it is notified when the thread that receives has   *)
(* processed the response: a call that is answered returns, if the server  *)
(* stays.                                                                  *)
AnsweredCallsReturn ==
  answered ~> at[Client] = "new" \/ \A s \in Server : at[s] # "serving"

=============================================================================
