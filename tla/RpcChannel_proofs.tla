------------------------- MODULE RpcChannel_proofs --------------------------
(***************************************************************************)
(* Theorems about servers that register and a client that calls, for every *)
(* number of runs of the server, of methods and of descriptors, whatever   *)
(* fails.                                                                  *)
(***************************************************************************)
EXTENDS RpcChannel, TLAPS

(***************************************************************************)
(* The inductive invariant.                                                *)
(***************************************************************************)

ServerPlace == {"new", "context", "waiting", "started", "serving", "deaf",
                "exited", "crashed"}
ClientPlace == {"new", "context", "waiting", "started", "connect", "send", "wait",
                "exited", "crashed"}

PlacesOK ==
  /\ \A s \in Server : at[s] \in ServerPlace
  /\ at[Client] \in ClientPlace

(* How far a server has come with its nodes.                               *)
StartProgress ==
  \A s \in Server :
    /\ at[s] = "new" => session[s] = "none"
    /\ at[s] \in {"context", "waiting"} => todo[s] = Path
    /\ at[s] = "serving" => todo[s] = {}
    /\ creating[s] # NULL => at[s] = "started" /\ Service \notin todo[s]

(* Servers that run at a time know of each other.                          *)
BesideRunning ==
  \A s, r \in Server : Running(s) /\ Running(r) /\ s # r => r \in beside[s]

(* The service's node stays; the others are of sessions that are open.     *)
OwnersOpen ==
  /\ znode[Service] \in {PERMANENT, NULL}
  /\ \A m \in Method : znode[m] # NULL =>
       znode[m] \in Server /\ session[znode[m]] = "open"

(* Who has done with the service's node has its parent for the others.     *)
ServiceFirst ==
  \A s \in Server :
    at[s] = "started" /\ s \notin faulted /\ Service \notin todo[s]
        /\ creating[s] # Service
      => znode[Service] # NULL

(* What a server that starts alone has not found is not there.             *)
AloneCreates ==
  \A s \in Server :
    creating[s] # NULL /\ beside[s] = {} => znode[creating[s]] = NULL

Others(s) == older[s] \cup beside[s]

(* Nodes that a server found were there when it began, or it has seen      *)
(* their creator.                                                          *)
OwnersKnown ==
  \A s \in Server, m \in Method :
    Running(s) /\ znode[m] # NULL => znode[m] \in Others(s) \cup {s}

(* A node that a server has done with is there, or has gone with another.  *)
DoneStays ==
  \A s \in Server, m \in Method :
    Running(s) /\ session[s] = "open" /\ s \notin faulted
        /\ m \notin todo[s] /\ creating[s] # m /\ znode[m] = NULL
      => \E r \in Others(s) : session[r] = "expired"

RegistryInv ==
  StartProgress /\ BesideRunning /\ OwnersOpen /\ ServiceFirst /\ AloneCreates
    /\ OwnersKnown /\ DoneStays

(* Who asks the registry or connects has no connection for its call.       *)
CallInv ==
  /\ at[Client] \in {"context", "waiting", "started", "connect"} =>
       called \in Method /\ serviceToConn[called] = NULL
  /\ at[Client] \in {"send", "wait"} => called \in Method

IInv == TypeOK /\ PlacesOK /\ RegistryInv /\ ExitsOnlyOnFault /\ CallInv /\ ChannelMapsAgree

-----------------------------------------------------------------------------
(* What the steps of one side leave of the other's invariants.             *)

LEMMA NamesApart ==
  /\ Client \notin Server /\ Service \notin Method
  /\ PERMANENT # NULL /\ PERMANENT \notin Server /\ NULL \notin Server
  /\ NULL \notin Path /\ NULL \notin Fd
BY ZkClientAssumption, RpcChannelAssumption DEF Path

(* A step of the client.                                                   *)
LEMMA RegistryStays ==
  ASSUME TypeOK, RegistryInv, ExitsOnlyOnFault,
         UNCHANGED <<znode, faulted, startVars>>,
         \A s \in Server : at'[s] = at[s] /\ session'[s] = session[s]
  PROVE  RegistryInv' /\ ExitsOnlyOnFault'
<1> USE DEF RegistryInv, startVars
<1>1. StartProgress' /\ BesideRunning' /\ ExitsOnlyOnFault'
  BY DEF StartProgress, BesideRunning, Running, Path, ExitsOnlyOnFault
<1>2. OwnersOpen' /\ ServiceFirst' /\ AloneCreates'
  BY DEF OwnersOpen, ServiceFirst, AloneCreates
<1>3. OwnersKnown'
  BY DEF OwnersKnown, Running, Others
<1>4. DoneStays'
  <2> SUFFICES ASSUME NEW s \in Server, NEW m \in Method,
                      Running(s), session[s] = "open", s \notin faulted,
                      m \notin todo[s], creating[s] # m, znode[m] = NULL
               PROVE  \E r \in Others(s) : session'[r] = "expired"
    BY DEF DoneStays, Running, Others
  <2> QED BY DEF DoneStays, Others, TypeOK
<1> QED BY <1>1, <1>2, <1>3, <1>4

(* A step of a server or of ZooKeeper.                                     *)
LEMMA CallStays ==
  ASSUME CallInv, ChannelMapsAgree, UNCHANGED channelVars, at'[Client] = at[Client]
  PROVE  CallInv' /\ ChannelMapsAgree'
BY DEF CallInv, ChannelMapsAgree, channelVars

-----------------------------------------------------------------------------
(* Each step keeps the invariant.                                          *)

LEMMA BeginInvariant ==
  ASSUME IInv, NEW s \in Server, Begin(s), UNCHANGED channelVars
  PROVE  IInv'
<1> USE NamesApart DEF IInv, TypeOK, RegistryInv, Process, Begin, Start, Goto, Fails
<1>1. /\ at[s] = "new" /\ at' = [at EXCEPT ![s] = at'[s]]
      /\ at'[s] \in {"context", "exited"}
      /\ at'[s] = "exited" => session' = session /\ s \in faulted'
      /\ at'[s] = "context" => session' = [session EXCEPT ![s] = "connecting"]
      /\ faulted \subseteq faulted' /\ faulted' \subseteq Server
      /\ UNCHANGED <<znode, creating>>
      /\ todo' = [todo EXCEPT ![s] = Path]
      /\ \A r \in Server : r # s => /\ r \in faulted' => r \in faulted
                                    /\ older'[r] = older[r]
                                    /\ beside[r] \subseteq beside'[r]
                                    /\ Running(r) => s \in beside'[r]
                                    /\ ~Running(r) => beside'[r] = beside[r]
      /\ beside'[s] = {o \in Server : Running(o)}
      /\ older'[s] = {r \in Server : session[r] = "open"}
  BY DEF Running
<1>2. TypeOK' /\ PlacesOK'
  <2>1. PlacesOK'
    BY <1>1 DEF PlacesOK, ServerPlace
  <2>2. TypeOK'
    BY <1>1 DEF channelVars
  <2> QED BY <2>1, <2>2
<1>3. StartProgress' /\ BesideRunning' /\ ExitsOnlyOnFault'
  <2>1. StartProgress'
    BY <1>1 DEF StartProgress, Running, Path
  <2>2. BesideRunning'
    BY <1>1 DEF BesideRunning, Running
  <2>3. ExitsOnlyOnFault'
    BY <1>1 DEF ExitsOnlyOnFault
  <2> QED BY <2>1, <2>2, <2>3
<1>4. OwnersOpen' /\ ServiceFirst'
  BY <1>1 DEF OwnersOpen, ServiceFirst, StartProgress
<1>5. AloneCreates'
  BY <1>1 DEF AloneCreates, StartProgress
<1>6. OwnersKnown'
  BY <1>1 DEF OwnersKnown, Others, Running, OwnersOpen
<1>7. DoneStays'
  BY <1>1 DEF DoneStays, Others, Running, StartProgress, Path
<1>8. CallInv' /\ ChannelMapsAgree'
  BY <1>1, CallStays
<1> QED BY <1>2, <1>3, <1>4, <1>5, <1>6, <1>7, <1>8

LEMMA ConnectInvariant ==
  ASSUME IInv, NEW s \in Server, SetContext(s) \/ Connected(s),
         UNCHANGED <<startVars, channelVars>>
  PROVE  IInv'
<1> USE NamesApart DEF IInv, TypeOK, RegistryInv, Process, Goto, startVars
<1>1. /\ at[s] \in {"context", "waiting"} /\ at' = [at EXCEPT ![s] = at'[s]]
      /\ at'[s] \in {"waiting", "started", "crashed"}
      /\ at'[s] # "waiting" =>
           session[s] = "connecting" /\ session' = [session EXCEPT ![s] = "open"]
      /\ at'[s] = "waiting" => session' = session
      /\ UNCHANGED <<znode, faulted, todo, creating, older, beside>>
  BY DEF SetContext, Connected
<1>2. TypeOK' /\ PlacesOK'
  BY <1>1 DEF PlacesOK, ServerPlace, channelVars
<1>3. StartProgress' /\ BesideRunning' /\ ExitsOnlyOnFault'
  BY <1>1 DEF StartProgress, BesideRunning, Running, ExitsOnlyOnFault
<1>4. OwnersOpen' /\ ServiceFirst' /\ AloneCreates'
  BY <1>1 DEF OwnersOpen, ServiceFirst, AloneCreates, StartProgress, Path
<1>5. OwnersKnown'
  BY <1>1 DEF OwnersKnown, Others, Running
<1>6. DoneStays'
  BY <1>1 DEF DoneStays, Others, Running, StartProgress, Path
<1>7. CallInv' /\ ChannelMapsAgree'
  BY <1>1, CallStays
<1> QED BY <1>2, <1>3, <1>4, <1>5, <1>6, <1>7

LEMMA LookUpInvariant ==
  ASSUME IInv, NEW s \in Server, LookUp(s), UNCHANGED channelVars
  PROVE  IInv'
<1> USE NamesApart DEF IInv, TypeOK, RegistryInv, Process
<1>1. PICK q \in NextPaths(s), create \in BOOLEAN :
        /\ Exists(s, q, create)
        /\ todo' = [todo EXCEPT ![s] = @ \ {q}]
        /\ creating' = IF create THEN [creating EXCEPT ![s] = q] ELSE creating
  BY DEF LookUp
<1>2. /\ at[s] = "started" /\ creating[s] = NULL
      /\ UNCHANGED <<at, session, znode, older, beside>>
  BY DEF LookUp
<1>3. /\ faulted \subseteq faulted' /\ faulted' \subseteq faulted \cup {s}
      /\ create => znode[q] = NULL
      /\ s \notin faulted' => (create <=> znode[q] = NULL)
      /\ q \in Path /\ q # NULL
      /\ q # Service => Service \notin todo[s]
      /\ create => creating' = [creating EXCEPT ![s] = q]
      /\ ~create => creating' = creating
  BY <1>1 DEF Exists, Succeeds, Fails, NextPaths
<1>4. TypeOK' /\ PlacesOK'
  BY <1>1, <1>2, <1>3 DEF PlacesOK, channelVars
<1>5. StartProgress' /\ BesideRunning' /\ ExitsOnlyOnFault'
  BY <1>1, <1>2, <1>3 DEF StartProgress, BesideRunning, Running, ExitsOnlyOnFault
<1>6. OwnersOpen' /\ OwnersKnown'
  BY <1>2 DEF OwnersOpen, OwnersKnown, Others, Running
<1>7. ServiceFirst'
  BY <1>1, <1>2, <1>3 DEF ServiceFirst, Path
<1>8. AloneCreates'
  BY <1>1, <1>2, <1>3 DEF AloneCreates
<1>9. DoneStays'
  <2> SUFFICES ASSUME NEW r \in Server, NEW m \in Method,
                      Running(r), session[r] = "open", r \notin faulted',
                      m \notin todo'[r], creating'[r] # m, znode[m] = NULL
               PROVE  m \notin todo[r] /\ creating[r] # m /\ r \notin faulted
    BY <1>2 DEF DoneStays, Running, Others
  <2> QED BY <1>1, <1>2, <1>3 DEF Path
<1>10. CallInv' /\ ChannelMapsAgree'
  BY <1>2, CallStays
<1> QED BY <1>4, <1>5, <1>6, <1>7, <1>8, <1>9, <1>10

(* The node is there afterwards, or the process is gone, and not without a *)
(* fault if it runs alone.                                                 *)
LEMMA CreatePathInvariant ==
  ASSUME IInv, NEW s \in Server, CreatePath(s), UNCHANGED channelVars
  PROVE  IInv'
<1> USE NamesApart DEF IInv, TypeOK, RegistryInv, Process
<1>1. PICK q \in Path : q = creating[s] /\ q # NULL
  BY DEF CreatePath
<1>2. PICK created \in BOOLEAN :
        /\ CreateNode(s, q, Owner(s, q), created)
        /\ IF created
           THEN creating' = [creating EXCEPT ![s] = NULL] /\ UNCHANGED <<at, todo>>
           ELSE Ends(s, "exited")
  BY <1>1 DEF CreatePath
<1>3. at[s] = "started" /\ UNCHANGED <<session, older, beside>>
  BY <1>1 DEF CreatePath, StartProgress
<1>4. faulted \subseteq faulted' /\ faulted' \subseteq faulted \cup {s}
  <2>1. faulted' = faulted \/ faulted' = faulted \cup ({s} \cap Server)
    BY <1>2, Zenon DEF CreateNode, Fails
  <2> QED BY <2>1
<1>5. \/ znode' = znode /\ ~created
      \/ znode' = [znode EXCEPT ![q] = Owner(s, q)] /\ CanCreate(s, q)
  BY <1>2, Zenon DEF CreateNode, Creates
<1>6. created \/ s \in faulted' \/ (~CanCreate(s, q) /\ session[s] = "open")
  <2>1. Fails(s) => s \in faulted'
    BY DEF Fails
  <2> QED BY <1>2, <2>1, Zenon DEF CreateNode
<1>7. /\ creating' = [creating EXCEPT ![s] = NULL]
      /\ created => at' = at /\ todo' = todo
      /\ ~created => at' = [at EXCEPT ![s] = "exited"] /\ todo' = [todo EXCEPT ![s] = {}]
  BY <1>2 DEF Ends, Goto
<1>8. Owner(s, q) = (IF q = Service THEN PERMANENT ELSE s)
  BY DEF Owner
<1>9. TypeOK' /\ PlacesOK'
  BY <1>3, <1>4, <1>5, <1>7, <1>8 DEF PlacesOK, ServerPlace, channelVars
<1>10. StartProgress' /\ BesideRunning'
  BY <1>3, <1>7 DEF StartProgress, BesideRunning, Running
<1>11. ExitsOnlyOnFault'
  <2>1. CASE created
    BY <1>3, <1>4, <1>7, <2>1 DEF ExitsOnlyOnFault
  <2>2. CASE ~created
    <3>1. SUFFICES ASSUME beside[s] = {}, s \notin faulted' PROVE FALSE
      BY <1>3, <1>4, <1>7, <2>2 DEF ExitsOnlyOnFault
    <3>2. znode[q] = NULL /\ Service \notin todo[s]
      BY <1>1, <3>1 DEF AloneCreates, StartProgress
    <3> QED BY <1>1, <1>3, <1>4, <1>6, <2>2, <3>1, <3>2 DEF CanCreate, ServiceFirst
  <2> QED BY <2>1, <2>2
<1>12. OwnersOpen' /\ ServiceFirst'
  BY <1>1, <1>3, <1>4, <1>5, <1>7, <1>8 DEF OwnersOpen, ServiceFirst, CanCreate, Path
<1>13. AloneCreates'
  BY <1>1, <1>3, <1>5, <1>7 DEF AloneCreates, BesideRunning, StartProgress, Running
<1>14. OwnersKnown'
  BY <1>3, <1>5, <1>7, <1>8 DEF OwnersKnown, Others, BesideRunning, Running, Path
<1>15. DoneStays'
  <2> SUFFICES ASSUME NEW r \in Server, NEW m \in Method,
                      Running(r)', session[r] = "open", r \notin faulted',
                      m \notin todo'[r], creating'[r] # m, znode'[m] = NULL
               PROVE  \E o \in Others(r) : session[o] = "expired"
    BY <1>3 DEF DoneStays, Others
  <2>1. at'[r] = at[r] /\ todo'[r] = todo[r] /\ (r = s => created)
    BY <1>3, <1>7 DEF Running
  <2>2. creating[r] # m /\ znode[m] = NULL
    BY <1>1, <1>5, <1>7, <1>8, <2>1 DEF Path
  <2> QED BY <1>4, <2>1, <2>2 DEF DoneStays, Running
<1>16. CallInv' /\ ChannelMapsAgree'
  BY <1>3, <1>7, CallStays
<1> QED BY <1>9, <1>10, <1>11, <1>12, <1>13, <1>14, <1>15, <1>16

LEMMA InitServerInvariant ==
  ASSUME IInv, NEW s \in Server, InitServer(s), UNCHANGED channelVars
  PROVE  IInv'
<1> USE NamesApart DEF IInv, TypeOK, RegistryInv, Process, Goto, startVars
<1>1. /\ at[s] = "started" /\ at' = [at EXCEPT ![s] = at'[s]]
      /\ at'[s] \in {"serving", "deaf"} /\ creating[s] = NULL /\ todo[s] = {}
      /\ UNCHANGED <<session, znode, faulted, todo, creating, older, beside>>
  BY DEF InitServer
<1>2. TypeOK' /\ PlacesOK'
  BY <1>1 DEF PlacesOK, ServerPlace, channelVars
<1>3. StartProgress' /\ BesideRunning' /\ ExitsOnlyOnFault'
  BY <1>1 DEF StartProgress, BesideRunning, Running, ExitsOnlyOnFault
<1>4. OwnersOpen' /\ ServiceFirst' /\ AloneCreates'
  BY <1>1 DEF OwnersOpen, ServiceFirst, AloneCreates
<1>5. OwnersKnown' /\ DoneStays'
  <2>1. \A r \in Server : Running(r)' <=> Running(r)
    BY <1>1 DEF Running
  <2>2. OwnersKnown'
    BY <1>1, <2>1 DEF OwnersKnown, Others
  <2>3. DoneStays'
    BY <1>1, <2>1 DEF DoneStays, Others
  <2> QED BY <2>2, <2>3
<1>6. CallInv' /\ ChannelMapsAgree'
  BY <1>1, CallStays
<1> QED BY <1>2, <1>3, <1>4, <1>5, <1>6

LEMMA CrashInvariant ==
  ASSUME IInv, NEW s \in Server, Crash(s), UNCHANGED channelVars
  PROVE  IInv'
<1> USE NamesApart DEF IInv, TypeOK, RegistryInv, Process
<1>1. /\ at' = [at EXCEPT ![s] = "crashed"]
      /\ todo' = [todo EXCEPT ![s] = {}] /\ creating' = [creating EXCEPT ![s] = NULL]
      /\ UNCHANGED <<session, znode, faulted, older, beside>>
  BY DEF Crash, Ends, Goto
<1>2. TypeOK' /\ PlacesOK'
  BY <1>1 DEF PlacesOK, ServerPlace, channelVars
<1>3. StartProgress' /\ BesideRunning' /\ ExitsOnlyOnFault'
  BY <1>1 DEF StartProgress, BesideRunning, Running, ExitsOnlyOnFault
<1>4. OwnersOpen' /\ ServiceFirst' /\ AloneCreates'
  BY <1>1 DEF OwnersOpen, ServiceFirst, AloneCreates
<1>5. OwnersKnown' /\ DoneStays'
  BY <1>1 DEF OwnersKnown, DoneStays, Others, Running
<1>6. CallInv' /\ ChannelMapsAgree'
  BY <1>1, CallStays
<1> QED BY <1>2, <1>3, <1>4, <1>5, <1>6

(* The nodes that go with a session were of one that its servers know.     *)
LEMMA ExpireInvariant ==
  ASSUME IInv, NEW s \in Server, Expire(s), UNCHANGED <<startVars, channelVars>>
  PROVE  IInv'
<1> USE NamesApart DEF IInv, TypeOK, RegistryInv, Process, startVars
<1>1. /\ session[s] = "open" /\ session' = [session EXCEPT ![s] = "expired"]
      /\ znode' = [q \in Path |-> IF znode[q] = s THEN NULL ELSE znode[q]]
      /\ UNCHANGED <<at, faulted, todo, creating, older, beside>>
  BY DEF Expire
<1>2. TypeOK' /\ PlacesOK'
  BY <1>1 DEF PlacesOK, channelVars
<1>3. StartProgress' /\ BesideRunning' /\ ExitsOnlyOnFault'
  BY <1>1 DEF StartProgress, BesideRunning, Running, ExitsOnlyOnFault
<1>4. OwnersOpen' /\ ServiceFirst' /\ AloneCreates' /\ OwnersKnown'
  BY <1>1 DEF OwnersOpen, ServiceFirst, AloneCreates, OwnersKnown, Others, Running, Path
<1>5. DoneStays'
  <2> SUFFICES ASSUME NEW r \in Server, NEW m \in Method,
                      Running(r), session'[r] = "open", r \notin faulted,
                      m \notin todo[r], creating[r] # m, znode'[m] = NULL
               PROVE  \E o \in Others(r) : session'[o] = "expired"
    BY <1>1 DEF DoneStays, Running, Others
  <2>1. r # s /\ session[r] = "open"
    BY <1>1
  <2>2. CASE znode[m] = s
    BY <1>1, <2>1, <2>2 DEF OwnersKnown
  <2>3. CASE znode[m] # s
    <3>1. PICK o \in Others(r) : session[o] = "expired"
      BY <1>1, <2>1, <2>3 DEF DoneStays, Path
    <3> QED BY <1>1, <3>1
  <2> QED BY <2>2, <2>3
<1>6. CallInv' /\ ChannelMapsAgree'
  BY <1>1, CallStays
<1> QED BY <1>2, <1>3, <1>4, <1>5, <1>6

(* The client's steps leave the servers and their nodes alone.             *)
LEMMA ClientInvariant ==
  ASSUME IInv,
         UNCHANGED <<znode, faulted, startVars>>,
         at' = [at EXCEPT ![Client] = at'[Client]], at'[Client] \in ClientPlace,
         session' = [session EXCEPT ![Client] = session'[Client]],
         session'[Client] \in {"none", "connecting", "open", "expired"},
         called' \in Method \cup {NULL},
         serviceToConn' \in [Method -> Fd \cup {NULL}],
         connToService' \in [Fd -> Method \cup {NULL}],
         file' \in [Fd -> Server \cup {NULL}],
         answered' \in BOOLEAN,
         at'[Client] \in {"send", "wait"} => serviceToConn'[called'] \in Fd,
         CallInv', ChannelMapsAgree'
  PROVE  IInv'
<1> USE NamesApart DEF IInv, Process
<1>1. \A s \in Server : at'[s] = at[s] /\ session'[s] = session[s]
  BY DEF TypeOK
<1>2. TypeOK' /\ PlacesOK'
  BY <1>1 DEF TypeOK, PlacesOK, startVars, ClientPlace
<1> QED BY <1>1, <1>2, RegistryStays

LEMMA ClientFails == Fails(Client) => faulted' = faulted
<1>1. {Client} \cap Server = {}
  BY NamesApart
<1> QED BY <1>1 DEF Fails

LEMMA CallMethodInvariant ==
  ASSUME IInv, NEW m \in Method, CallMethod(m)
  PROVE  IInv'
<1> USE NamesApart DEF IInv, TypeOK, Process, ClientPlace
<1>1. /\ called' = m /\ answered' = FALSE /\ at[Client] = "new"
      /\ UNCHANGED <<znode, faulted, startVars, serviceToConn, connToService, file>>
      /\ at' = [at EXCEPT ![Client] = at'[Client]]
      /\ \/ serviceToConn[m] # NULL /\ at'[Client] = "send"
         \/ serviceToConn[m] = NULL /\ at'[Client] \in {"context", "exited"}
      /\ session' = [session EXCEPT ![Client] = session'[Client]]
      /\ session'[Client] \in {"none", "connecting", "open", "expired"}
  BY ClientFails DEF CallMethod, Start, Goto
<1>2. CallInv' /\ ChannelMapsAgree'
  BY <1>1 DEF CallInv, ChannelMapsAgree
<1>3. /\ at'[Client] \in ClientPlace /\ called' \in Method
      /\ serviceToConn' \in [Method -> Fd \cup {NULL}]
      /\ connToService' \in [Fd -> Method \cup {NULL}]
      /\ file' \in [Fd -> Server \cup {NULL}]
      /\ answered' \in BOOLEAN
  BY <1>1
<1>4. at'[Client] \in {"send", "wait"} => serviceToConn'[called'] \in Fd
  <2>1. serviceToConn[m] \in Fd \cup {NULL}
    OBVIOUS
  <2> QED BY <1>1, <2>1
<1> HIDE DEF IInv, TypeOK, Process, ClientPlace
<1> QED BY <1>1, <1>2, <1>3, <1>4, ClientInvariant

LEMMA StartZkInvariant ==
  ASSUME IInv, StartZk
  PROVE  IInv'
<1> USE NamesApart DEF IInv, TypeOK, Process, ClientPlace, channelVars
<1>1. /\ at[Client] \in {"context", "waiting"}
      /\ at' = [at EXCEPT ![Client] = at'[Client]]
      /\ at'[Client] \in {"waiting", "started", "crashed"}
      /\ session' = [session EXCEPT ![Client] = session'[Client]]
      /\ session'[Client] \in {"none", "connecting", "open", "expired"}
      /\ UNCHANGED <<znode, faulted, startVars, channelVars>>
  BY DEF StartZk, SetContext, Connected, Goto
<1>2. CallInv' /\ ChannelMapsAgree'
  BY <1>1 DEF CallInv, ChannelMapsAgree
<1> QED BY <1>1, <1>2, ClientInvariant

LEMMA FindHostInvariant ==
  ASSUME IInv, FindHost
  PROVE  IInv'
<1> USE NamesApart DEF IInv, TypeOK, Process, ClientPlace
<1>1. PICK found \in BOOLEAN :
        /\ GetData(Client, called, found)
        /\ IF found
           THEN Goto(Client, "connect") /\ UNCHANGED <<session, called>>
           ELSE SetFailed /\ CloseZk(Client)
  BY DEF FindHost
<1>2. faulted' = faulted
  BY <1>1, ClientFails, Zenon DEF GetData, Succeeds
<1>3. /\ at[Client] = "started"
      /\ UNCHANGED <<znode, faulted, startVars, serviceToConn, connToService, file, answered>>
      /\ at' = [at EXCEPT ![Client] = at'[Client]]
      /\ \/ at'[Client] = "connect" /\ called' = called
         \/ at'[Client] = "new" /\ called' = NULL
      /\ session' = [session EXCEPT ![Client] = session'[Client]]
      /\ session'[Client] \in {"none", "connecting", "open", "expired"}
  BY <1>1, <1>2 DEF FindHost, SetFailed, CloseZk, Goto
<1>4. CallInv' /\ ChannelMapsAgree'
  BY <1>3 DEF CallInv, ChannelMapsAgree
<1> QED BY <1>3, <1>4, ClientInvariant

(* The two maps and the descriptors change together.                       *)
LEMMA ConnectsInvariant ==
  ASSUME IInv, Connect
  PROVE  IInv'
<1> USE NamesApart DEF IInv, TypeOK, Process, ClientPlace
<1>1. /\ at[Client] = "connect" /\ called \in Method /\ serviceToConn[called] = NULL
      /\ UNCHANGED <<znode, faulted, startVars, answered>>
      /\ session' = [session EXCEPT ![Client] = session'[Client]]
      /\ session'[Client] = "none"
  BY DEF Connect, CloseZk, CallInv
<1>2. CASE ConnectFails
  <2>1. /\ at' = [at EXCEPT ![Client] = at'[Client]] /\ at'[Client] = "new"
        /\ called' = NULL /\ UNCHANGED <<serviceToConn, connToService, file>>
    BY <1>2 DEF ConnectFails, SetFailed, Goto
  <2>2. CallInv' /\ ChannelMapsAgree'
    BY <2>1 DEF CallInv, ChannelMapsAgree
  <2> QED BY <1>1, <2>1, <2>2, ClientInvariant
<1>3. CASE \E fd \in Fd, s \in Server : Connects(fd, s)
  <2>1. PICK fd \in Fd, s \in Server : Connects(fd, s)
    BY <1>3
  <2>2. /\ at' = [at EXCEPT ![Client] = at'[Client]] /\ at'[Client] = "send"
        /\ called' = called /\ file[fd] = NULL
        /\ file' = [file EXCEPT ![fd] = s]
        /\ serviceToConn' = [serviceToConn EXCEPT ![called] = fd]
        /\ connToService' = [connToService EXCEPT ![fd] = called]
    BY <2>1 DEF Connects, Goto
  <2>3. CallInv' /\ ChannelMapsAgree'
    BY <1>1, <2>2, ZkClientAssumption DEF CallInv, ChannelMapsAgree
  <2> QED BY <1>1, <2>2, <2>3, ClientInvariant
<1> QED BY <1>2, <1>3 DEF Connect

LEMMA SendInvariant ==
  ASSUME IInv, Send
  PROVE  IInv'
<1> USE NamesApart DEF IInv, TypeOK, Process, ClientPlace
<1>1. /\ at[Client] = "send" /\ called \in Method /\ serviceToConn[called] \in Fd
      /\ UNCHANGED <<session, znode, faulted, startVars, answered>>
  BY DEF Send, CallInv
<1>2. CASE /\ Goto(Client, "wait")
           /\ UNCHANGED <<called, serviceToConn, connToService, file>>
  <2>1. at' = [at EXCEPT ![Client] = at'[Client]] /\ at'[Client] = "wait"
    BY <1>2 DEF Goto
  <2>2. CallInv' /\ ChannelMapsAgree'
    BY <1>1, <1>2, <2>1 DEF CallInv, ChannelMapsAgree
  <2> QED BY <1>1, <1>2, <2>1, <2>2, ClientInvariant
<1>3. CASE CloseConn(called) /\ SetFailed
  <2> DEFINE fd == serviceToConn[called]
  <2>1. /\ at' = [at EXCEPT ![Client] = at'[Client]] /\ at'[Client] = "new"
        /\ called' = NULL
        /\ connToService' = [connToService EXCEPT ![fd] = NULL]
        /\ serviceToConn' = [serviceToConn EXCEPT ![called] = NULL]
        /\ file' = [file EXCEPT ![fd] = NULL]
    BY <1>3 DEF SetFailed, Goto, CloseConn
  <2>2. CallInv' /\ ChannelMapsAgree'
    BY <1>1, <2>1, ZkClientAssumption DEF CallInv, ChannelMapsAgree
  <2> QED BY <1>1, <2>1, <2>2, ClientInvariant
<1> QED BY <1>2, <1>3 DEF Send

LEMMA RespondInvariant ==
  ASSUME IInv, Respond
  PROVE  IInv'
<1>1. answered' = TRUE /\ UNCHANGED <<at, session, znode, faulted, startVars,
                                      called, serviceToConn, connToService, file>>
  BY DEF Respond, zkVars
<1>2. CallInv' /\ ChannelMapsAgree'
  BY <1>1 DEF IInv, CallInv, ChannelMapsAgree
<1> QED BY <1>1, <1>2, ClientInvariant DEF IInv, TypeOK, PlacesOK, Process

-----------------------------------------------------------------------------
(* The invariant holds in every reachable state.                           *)

LEMMA InitInvariant == Init => IInv
<1> SUFFICES ASSUME Init PROVE IInv
  OBVIOUS
<1> USE NamesApart DEF Init, InitZk, InitStart, Process
<1>1. TypeOK /\ PlacesOK /\ ExitsOnlyOnFault
  BY DEF TypeOK, PlacesOK, ServerPlace, ClientPlace, ExitsOnlyOnFault
<1>2. RegistryInv
  BY DEF RegistryInv, StartProgress, BesideRunning, Running, OwnersOpen, ServiceFirst,
         AloneCreates, OwnersKnown, DoneStays, Path
<1>3. CallInv /\ ChannelMapsAgree
  BY ZkClientAssumption DEF CallInv, ChannelMapsAgree
<1> QED BY <1>1, <1>2, <1>3 DEF IInv

LEMMA NextInvariant == IInv /\ [Next]_vars => IInv'
<1> SUFFICES ASSUME IInv, [Next]_vars PROVE IInv'
  OBVIOUS
<1>1. ASSUME NEW s \in Server, ServerStep(s), UNCHANGED channelVars PROVE IInv'
  BY <1>1, BeginInvariant, ConnectInvariant, LookUpInvariant, CreatePathInvariant,
     InitServerInvariant, CrashInvariant DEF ServerStep, StartStep
<1>2. CASE ClientStep
  BY <1>2, StartZkInvariant, FindHostInvariant, ConnectsInvariant, SendInvariant
     DEF ClientStep
<1>3. CASE UNCHANGED vars
  BY <1>3, ClientInvariant
     DEF vars, zkVars, channelVars, IInv, TypeOK, PlacesOK, Process, CallInv, ChannelMapsAgree
<1> QED BY <1>1, <1>2, <1>3, CallMethodInvariant, RespondInvariant, ExpireInvariant DEF Next

LEMMA Invariant == Spec => []IInv
BY InitInvariant, NextInvariant, PTL DEF Spec

-----------------------------------------------------------------------------
(* Theorems about every behaviour.                                         *)

(* Every variable has its type, and who sends or waits has a connection.   *)
THEOREM TypeCorrect == Spec => []TypeOK
BY Invariant, PTL DEF IInv

(* A server that starts alone exits only because a call of ZooKeeper       *)
(* failed: neither nodes that are left nor nodes that vanish make it.      *)
THEOREM ExitNeedsFault == Spec => []ExitsOnlyOnFault
BY Invariant, PTL DEF IInv

(* A server that serves is registered with all methods, unless its session *)
(* expired, a call failed, or another's session expired that reached into  *)
(* its start.                                                              *)
THEOREM ServesRegistered == Spec => []RegisteredUnlessOutlived
<1>1. IInv => RegisteredUnlessOutlived
  <2> SUFFICES ASSUME IInv, NEW s \in Server,
                      at[s] = "serving", session[s] = "open", s \notin faulted
               PROVE  /\ \A m \in Method : znode[m] \in Others(s) \cup {s, NULL}
                      /\ (\E m \in Method : znode[m] = NULL) =>
                           \E r \in Others(s) : session[r] = "expired"
    BY DEF RegisteredUnlessOutlived, Others
  <2>1. Running(s) /\ todo[s] = {} /\ creating[s] = NULL
    BY DEF IInv, RegistryInv, StartProgress, Running
  <2>2. \A m \in Method : m # NULL
    BY NamesApart DEF Path
  <2> QED BY <2>1, <2>2 DEF IInv, RegistryInv, OwnersKnown, DoneStays
<1> QED BY <1>1, Invariant, PTL

(* Whatever fails in a call, the maps say the same and name what is open.  *)
THEOREM MapsAgree == Spec => []ChannelMapsAgree
BY Invariant, PTL DEF IInv

=============================================================================
