\* Recycled chunks, and events enough for a flush to be skipped and then rescued.
SPECIFICATION FairSpec
CONSTANTS
  Event = {e1}
  Chunk = {k1, k2, k3}
  N = 2
  NULL = NULL
  MaxEvents = 7
PROPERTIES
  MoreEventsWakeWaiting
  StopReturnsUnlessReading
CHECK_DEADLOCK FALSE
