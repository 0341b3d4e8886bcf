----------------------------- MODULE EventQueue -----------------------------
(***************************************************************************)
(* What FasterThread promises the event loop: events added to a thread are *)
(* handed to onMessage one at a time, each once, in the order of addEvent. *)
(***************************************************************************)
EXTENDS Sequences

CONSTANT Event

VARIABLES
  queue,   \* the events added and not yet taken
  hand     \* the event the thread is working on: <<e>>, or <<>>

Init == queue = <<>> /\ hand = <<>>

Add(e) ==
  /\ queue' = Append(queue, e)
  /\ UNCHANGED hand

Take ==
  /\ hand = <<>>
  /\ queue # <<>>
  /\ hand' = <<Head(queue)>>
  /\ queue' = Tail(queue)

Finish ==
  /\ hand # <<>>
  /\ hand' = <<>>
  /\ UNCHANGED queue

Next == (\E e \in Event : Add(e)) \/ Take \/ Finish

vars == <<queue, hand>>

Spec == Init /\ [][Next]_vars

=============================================================================
