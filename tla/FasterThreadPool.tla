-------------------------- MODULE FasterThreadPool --------------------------
(***************************************************************************)
(* FasterThreadPool (src/faster_threadpool.cc): ThreadNum workers, to      *)
(* which events are added in turn.  Each worker is the EventQueue that     *)
(* FasterThread implements.                                                *)
(***************************************************************************)
EXTENDS Naturals, Sequences

CONSTANT ThreadNum   \* _threadNum

ASSUME ThreadNumAssumption == ThreadNum \in Nat \ {0}

Thread == 0 .. ThreadNum - 1

VARIABLES
  queue,        \* the events in each thread's pipe
  hand,         \* the event each thread is working on: <<e>>, or <<>>
  indexThread   \* _indexThread

threadPoolVars == <<queue, hand, indexThread>>

InitThreadPool ==
  /\ queue = [t \in Thread |-> <<>>]
  /\ hand = [t \in Thread |-> <<>>]
  /\ indexThread = 0

\* A bug: the index runs on past the last thread.
AddEventNoWrap(e) ==
  /\ queue' = [queue EXCEPT ![indexThread] = Append(@, e)]
  /\ indexThread' = indexThread + 1
  /\ UNCHANGED hand

(* addEvent, with the addEvent of the thread it picks.                     *)
AddEvent(e) ==
  /\ queue' = [queue EXCEPT ![indexThread] = Append(@, e)]
  /\ indexThread' = (indexThread + 1) % ThreadNum
  /\ UNCHANGED hand

(* threadFunc of a thread: it takes an event, and is done with it.         *)
Take(t) ==
  /\ hand[t] = <<>>
  /\ queue[t] # <<>>
  /\ hand' = [hand EXCEPT ![t] = <<Head(queue[t])>>]
  /\ queue' = [queue EXCEPT ![t] = Tail(@)]
  /\ UNCHANGED indexThread

Finish(t) ==
  /\ hand[t] # <<>>
  /\ hand' = [hand EXCEPT ![t] = <<>>]
  /\ UNCHANGED <<queue, indexThread>>

=============================================================================
