--------------------------- MODULE MCFasterThread ---------------------------
(* Instances of FasterThread for TLC. *)
EXTENDS FasterThread, TLC

\* Chunks are compared for equality only, and so are events.
Symmetry == Permutations(Chunk)

\* Both as one symmetry group; not for runs that check liveness.
SafetySymmetry == Permutations(Chunk) \cup Permutations(Event)

=============================================================================
