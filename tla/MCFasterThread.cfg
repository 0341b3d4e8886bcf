\* Chunks of two values: every second event changes chunk, chunks are recycled.
SPECIFICATION Spec
CONSTANTS
  Event = {e1, e2}
  Chunk = {k1, k2, k3, k4}
  N = 2
  NULL = NULL
  MaxEvents = 6
SYMMETRY SafetySymmetry
INVARIANTS
  TypeOK
  ChunksDisjoint
  ReadsOnlyFlushed
  SwapMeansAwake
PROPERTIES
  FlushedNeverRetreats
  ImplementsEventQueue
\* stop() may be called: then the system does stop.
CHECK_DEADLOCK FALSE
