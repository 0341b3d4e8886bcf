---------------------------- MODULE StartService ----------------------------
(***************************************************************************)
(* The start of the server (main of userserver.cc, RpcProvider's           *)
(* StartService): a session with the registry, a node for the service and  *)
(* one for each method, then the TCP server.  All runs of the server have  *)
(* one address, 127.0.0.1:9999; they may overlap.  A run that ends does    *)
(* not close its session.                                                  *)
(***************************************************************************)
EXTENDS ZkClient

VARIABLES
  todo,     \* the nodes each server has still to register
  creating, \* the node it is creating, or NULL
  older,    \* history: the servers whose session was open when it began
  beside    \* history: the servers that ran at a time with it

startVars == <<todo, creating, older, beside>>

InitStart ==
  /\ todo = [s \in Server |-> {}]
  /\ creating = [s \in Server |-> NULL]
  /\ older = [s \in Server |-> {}]
  /\ beside = [s \in Server |-> {}]

Running(s) == at[s] \notin {"new", "exited", "crashed"}

\* main: NotifyService has filled _serviceMap.
Begin(s) ==
  /\ at[s] = "new"
  /\ Start(s)
  /\ todo' = [todo EXCEPT ![s] = Path]
  /\ older' = [older EXCEPT ![s] = {r \in Server : session[r] = "open"}]
  /\ beside' = [r \in Server |->
       IF r = s THEN {o \in Server : Running(o)}
       ELSE IF Running(r) THEN beside[r] \cup {s} ELSE beside[r]]
  /\ UNCHANGED creating

\* The process is gone, and what it had in hand.
Ends(s, place) ==
  /\ Goto(s, place)
  /\ todo' = [todo EXCEPT ![s] = {}]
  /\ creating' = [creating EXCEPT ![s] = NULL]

\* A bug: the methods go first.
NextPathsMethodsFirst(s) ==
  IF todo[s] \cap Method # {} THEN todo[s] \cap Method ELSE todo[s]

\* The node of the service first, then those of its methods in any order.
NextPaths(s) == IF Service \in todo[s] THEN {Service} ELSE todo[s]

\* Create, its first half: whether the node exists.
LookUp(s) ==
  /\ at[s] = "started"
  /\ creating[s] = NULL
  /\ \E q \in NextPaths(s), create \in BOOLEAN :
       /\ Exists(s, q, create)
       /\ todo' = [todo EXCEPT ![s] = @ \ {q}]
       /\ creating' = IF create THEN [creating EXCEPT ![s] = q] ELSE creating
  /\ UNCHANGED <<at, session, znode, older, beside>>

\* A bug: every node is permanent.
OwnerPermanent(s, q) == PERMANENT

Owner(s, q) == IF q = Service THEN PERMANENT ELSE s

\* Create, its second half: the process exits if it cannot create the node.
CreatePath(s) ==
  /\ creating[s] # NULL
  /\ \E created \in BOOLEAN :
       /\ CreateNode(s, creating[s], Owner(s, creating[s]), created)
       /\ IF created
          THEN creating' = [creating EXCEPT ![s] = NULL] /\ UNCHANGED <<at, todo>>
          ELSE Ends(s, "exited")
  /\ UNCHANGED <<session, older, beside>>

(* init fails to bind an address in use, and may fail otherwise, which     *)
(* nobody looks at: the loop then waits for ever on a ring it gave nothing *)
(* to.                                                                     *)
InitServer(s) ==
  /\ at[s] = "started"
  /\ creating[s] = NULL /\ todo[s] = {}
  /\ \/ (\A r \in Server : at[r] # "serving") /\ Goto(s, "serving")
     \/ Goto(s, "deaf")
  /\ UNCHANGED <<session, znode, faulted, startVars>>

Crash(s) ==
  /\ Running(s)
  /\ Ends(s, "crashed")
  /\ UNCHANGED <<session, znode, faulted, older, beside>>

StartStep(s) ==
  \/ (SetContext(s) \/ Connected(s)) /\ UNCHANGED startVars
  \/ LookUp(s) \/ CreatePath(s) \/ InitServer(s)

ServerStep(s) == Begin(s) \/ StartStep(s) \/ Crash(s)

=============================================================================
