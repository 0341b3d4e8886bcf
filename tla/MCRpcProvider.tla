--------------------------- MODULE MCRpcProvider ----------------------------
(* Instances of RpcProvider for TLC. *)
EXTENDS RpcProvider, TLC

\* Addresses, descriptors, clients and users are compared for equality only.
Symmetry ==
  Permutations(Event) \cup Permutations(Conn) \cup Permutations(Fd)
    \cup Permutations(Peer) \cup Permutations(User)

=============================================================================
