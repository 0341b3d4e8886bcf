------------------------------ MODULE ConnPool ------------------------------
(***************************************************************************)
(* FasterConnPool (src/faster_connpool.cc): faster_conn_t objects kept for *)
(* reuse, oldest first, and allocated when there is none.                  *)
(***************************************************************************)
EXTENDS Naturals, Sequences, Functions

CONSTANTS
  Conn,     \* the addresses at which a connection object can be allocated
  ConnNum   \* connNum, the connections initConnPool allocates

ASSUME ConnNumAssumption == ConnNum \in Nat

VARIABLES
  freeConns,   \* _freeConnQue
  usedConns,   \* _usedConnQue, and the keys of _addrToIter
  connHeap     \* the addresses not allocated yet

connPoolVars == <<freeConns, usedConns, connHeap>>

InitConnPool ==
  /\ freeConns \in {s \in [1 .. ConnNum -> Conn] : IsInjective(s)}
  /\ usedConns = {}
  /\ connHeap = Conn \ Range(freeConns)

\* A bug: the connection stays in the free list.
GetConnKeepsFree(k) ==
  /\ usedConns' = usedConns \cup {k}
  /\ UNCHANGED freeConns
  /\ \/ /\ freeConns # <<>>
        /\ k = Head(freeConns)
        /\ UNCHANGED connHeap
     \/ /\ freeConns = <<>>
        /\ k \in connHeap
        /\ connHeap' = connHeap \ {k}

GetOneFreeConn(k) ==
  /\ usedConns' = usedConns \cup {k}
  /\ \/ /\ freeConns # <<>>
        /\ k = Head(freeConns)
        /\ freeConns' = Tail(freeConns)
        /\ UNCHANGED connHeap
     \/ /\ freeConns = <<>>
        /\ k \in connHeap
        /\ connHeap' = connHeap \ {k}
        /\ UNCHANGED freeConns

(* The code does not check that k is used: it splices k in all cases.      *)
FreeOneUsedConn(k) ==
  /\ freeConns' = Append(freeConns, k)
  /\ usedConns' = usedConns \ {k}
  /\ UNCHANGED connHeap

=============================================================================
