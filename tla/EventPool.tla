----------------------------- MODULE EventPool ------------------------------
(***************************************************************************)
(* FasterEventPool (src/faster_eventpool.cc): faster_event_t objects kept  *)
(* for reuse, oldest first, and allocated when there is none.  No event is *)
(* deleted while the server runs.                                          *)
(***************************************************************************)
EXTENDS Naturals, Sequences, Functions

CONSTANTS
  Event,     \* the addresses at which an event can be allocated
  EventNum   \* eventNum, the events initEventPool allocates

ASSUME EventNumAssumption == EventNum \in Nat

VARIABLES
  freeEvents,   \* _freeEvents
  usedEvents,   \* _usedEvents, and the keys of _addrToIter
  eventHeap     \* the addresses not allocated yet

eventPoolVars == <<freeEvents, usedEvents, eventHeap>>

InitEventPool ==
  /\ freeEvents \in {s \in [1 .. EventNum -> Event] : IsInjective(s)}
  /\ usedEvents = {}
  /\ eventHeap = Event \ Range(freeEvents)

\* new faster_event_t()
NewEvent(e) ==
  /\ e \in eventHeap
  /\ eventHeap' = eventHeap \ {e}

\* A bug: the event stays in the free list.
GetEventKeepsFree(e) ==
  /\ usedEvents' = usedEvents \cup {e}
  /\ \/ /\ freeEvents # <<>>
        /\ e = Head(freeEvents)
        /\ UNCHANGED <<freeEvents, eventHeap>>
     \/ /\ freeEvents = <<>>
        /\ NewEvent(e)
        /\ UNCHANGED freeEvents

GetOneFreeEvent(e) ==
  /\ usedEvents' = usedEvents \cup {e}
  /\ \/ /\ freeEvents # <<>>
        /\ e = Head(freeEvents)
        /\ freeEvents' = Tail(freeEvents)
        /\ UNCHANGED eventHeap
     \/ /\ freeEvents = <<>>
        /\ NewEvent(e)
        /\ UNCHANGED freeEvents

(* An event the pool does not know is not kept: its address is lost.       *)
FreeOneUsedEvent(e) ==
  /\ freeEvents' = IF e \in usedEvents THEN Append(freeEvents, e) ELSE freeEvents
  /\ usedEvents' = usedEvents \ {e}
  /\ UNCHANGED eventHeap

=============================================================================
