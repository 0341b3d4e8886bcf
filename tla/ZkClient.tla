------------------------------ MODULE ZkClient ------------------------------
(***************************************************************************)
(* ZkClient (zk/zookeeperutil.cc, the same file for server and client) and *)
(* what it uses of ZooKeeper: a tree of two levels, the service and its    *)
(* methods, and a session for each process.  A node is permanent or goes   *)
(* with the session that created it.                                       *)
(*                                                                         *)
(* Start waits for a semaphore that the watcher posts, on ZooKeeper's      *)
(* thread.  The watcher is in place before the semaphore is: what it posts *)
(* by then is a null pointer, and the process crashes.                     *)
(***************************************************************************)
EXTENDS Naturals, FiniteSets

CONSTANTS
  Server,       \* runs of the server program
  Client,       \* the client program
  Method,       \* the methods of the service, /UserServiceRpc/Login ...
  Service,      \* the service's own node, /UserServiceRpc
  PERMANENT,    \* what owns a node that is not a session's
  NULL          \* no node

ASSUME ZkClientAssumption ==
  /\ Client \notin Server
  /\ Service \notin Method
  /\ PERMANENT # NULL
  /\ {PERMANENT, NULL} \cap (Server \cup Method \cup {Service, Client}) = {}

VARIABLES
  at,       \* where each process is
  session,  \* its session: "none", "connecting", "open" or "expired"
  znode,    \* the owner of each node
  faulted   \* history: the servers that had a call of ZooKeeper fail

zkVars == <<at, session, znode, faulted>>

Process == Server \cup {Client}
Path == Method \cup {Service}

InitZk ==
  /\ at = [p \in Process |-> "new"]
  /\ session = [p \in Process |-> "none"]
  /\ znode = [q \in Path |-> NULL]
  /\ faulted = {}

Goto(p, place) == at' = [at EXCEPT ![p] = place]

\* A call of ZooKeeper returns an error, or it does what it says.
Fails(p)    == faulted' = faulted \cup ({p} \cap Server)
Succeeds(p) == session[p] = "open" /\ UNCHANGED faulted

-----------------------------------------------------------------------------
(* Start *)

\* zookeeper_init: ZooKeeper's thread connects from now on.
Start(p) ==
  \/ /\ session' = [session EXCEPT ![p] = "connecting"]
     /\ Goto(p, "context")
     /\ UNCHANGED <<znode, faulted>>
  \/ /\ Fails(p)
     /\ Goto(p, "exited")
     /\ UNCHANGED <<session, znode>>

SetContext(p) ==
  /\ at[p] = "context"
  /\ Goto(p, "waiting")
  /\ UNCHANGED <<session, znode, faulted>>

\* A bug: the watcher drops what it cannot post.
ConnectedDrops(p) ==
  /\ session[p] = "connecting"
  /\ session' = [session EXCEPT ![p] = "open"]
  /\ at[p] \in {"context", "waiting"}
  /\ Goto(p, IF at[p] = "context" THEN "context" ELSE "started")
  /\ UNCHANGED <<znode, faulted>>

\* global_watcher, in the connected state.
Connected(p) ==
  /\ session[p] = "connecting"
  /\ at[p] \in {"context", "waiting"}
  /\ session' = [session EXCEPT ![p] = "open"]
  /\ Goto(p, IF at[p] = "context" THEN "crashed" ELSE "started")
  /\ UNCHANGED <<znode, faulted>>

-----------------------------------------------------------------------------
(* Create and GetData: their calls of ZooKeeper *)

(* zoo_exists, and whether Create goes on: only ZNONODE makes it create.   *)
(* An error is taken for a node that is there.                             *)
Exists(p, q, create) ==
  \/ Succeeds(p) /\ create = (znode[q] = NULL)
  \/ Fails(p) /\ ~create

(* zoo_create: a node needs its parent, and must not be there.  A call may *)
(* fail after it was carried out.                                          *)
CanCreate(p, q) ==
  /\ session[p] = "open"
  /\ znode[q] = NULL
  /\ q # Service => znode[Service] # NULL

Creates(q, owner) == znode' = [znode EXCEPT ![q] = owner]

CreateNode(p, q, owner, created) ==
  \/ /\ created /\ CanCreate(p, q)
     /\ Creates(q, owner)
     /\ UNCHANGED faulted
  \/ /\ ~created /\ ~CanCreate(p, q) /\ session[p] = "open"
     /\ UNCHANGED <<znode, faulted>>
  \/ /\ ~created
     /\ Fails(p)
     /\ UNCHANGED znode \/ (CanCreate(p, q) /\ Creates(q, owner))

\* zoo_get, and whether it found the node.
GetData(p, q, found) ==
  \/ Succeeds(p) /\ found = (znode[q] # NULL)
  \/ Fails(p) /\ ~found

(* ~ZkClient.  The sessions of clients own no nodes.                       *)
CloseZk(p) == session' = [session EXCEPT ![p] = "none"]

-----------------------------------------------------------------------------
(* ZooKeeper has not heard of a session for 30 s: its process is gone, or  *)
(* cut off.  The nodes of the session go with it.  (A client's session     *)
(* lasts for one lookup and owns nothing: that its call fails is enough.)  *)
Expire(p) ==
  /\ session[p] = "open"
  /\ session' = [session EXCEPT ![p] = "expired"]
  /\ znode' = [q \in Path |-> IF znode[q] = p THEN NULL ELSE znode[q]]
  /\ UNCHANGED <<at, faulted>>

=============================================================================
