SPECIFICATION Spec
CONSTANTS
  Event = {e1, e2, e3}
  EventNum = 1
  Conn = {k1, k2}
  ConnNum = 1
  Fd = {fd1, fd2}
  Peer = {p1, p2}
  User = {u1}
  ThreadNum = 1
  NULL = NULL
SYMMETRY Symmetry
INVARIANTS
  ResponseReachesRequester
CHECK_DEADLOCK FALSE
