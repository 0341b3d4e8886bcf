\* Two threads, one client: events are shared out, recycled, leaked and pushed.
SPECIFICATION Spec
CONSTANTS
  Event = {e1, e2, e3, e4}
  EventNum = 1
  Conn = {k1}
  ConnNum = 1
  Fd = {fd1}
  Peer = {p1}
  User = {u1}
  ThreadNum = 2
  NULL = NULL
SYMMETRY Symmetry
INVARIANTS
  TypeOK
  
  EventsNotShared
  
\* The model stops when all clients are gone or all addresses are used up.
CHECK_DEADLOCK FALSE
