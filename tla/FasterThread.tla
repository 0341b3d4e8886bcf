---------------------------- MODULE FasterThread ----------------------------
(***************************************************************************)
(* One worker of FasterThreadPool (src/faster_threadpool.cc): the event    *)
(* loop adds events and may stop the thread; the thread reads the pipe,    *)
(* calls onMessage, and waits on a condition variable when it read         *)
(* nothing.  The wait has no predicate: notify_one finds a waiting thread  *)
(* or is lost, and the wait may end for no reason.                         *)
(*                                                                         *)
(* Locking the mutex and starting to wait is one step: the only other      *)
(* holder of the mutex is notify_one, which comes before or after it.      *)
(***************************************************************************)
EXTENDS YPipe

CONSTANT MaxEvents   \* bound: how many events are added in all

ASSUME MaxEventsAssumption == MaxEvents \in Nat

VARIABLES
  caller,    \* where addEvent or stop is, in the thread that calls them
  thread,    \* where threadFunc is
  event,     \* threadFunc's local variable
  isRunning  \* _isRunning

threadVars == <<caller, thread, event, isRunning>>
vars == <<queueVars, pipeVars, threadVars>>

CallerAt == {"idle", "flush", "set", "notify", "stopping", "joining", "stopped"}
ThreadAt == {"read", "pop", "onMessage", "lock", "waiting", "test", "exited"}

Init ==
  /\ PipeInit
  /\ caller = "idle"
  /\ thread = "read"
  /\ event = NULL
  /\ isRunning = TRUE

(* notify_one(): the thread leaves its wait, if it is waiting.             *)
NotifyOne == thread' = IF thread = "waiting" THEN "test" ELSE thread

-----------------------------------------------------------------------------
(* addEvent *)

AddEvent(e) ==
  /\ caller = "idle"
  /\ back < MaxEvents
  /\ Write(e)
  /\ caller' = "flush"
  /\ UNCHANGED <<thread, event, isRunning>>

FlushTrue ==
  /\ caller = "flush"
  /\ FlushNothing \/ FlushSwap
  /\ caller' = "idle"
  /\ UNCHANGED <<thread, event, isRunning>>

FlushFalse ==
  /\ caller = "flush"
  /\ FlushMiss
  /\ caller' = "set"
  /\ UNCHANGED <<thread, event, isRunning>>

SetC ==
  /\ caller = "set"
  /\ FlushSet
  /\ caller' = "notify"
  /\ UNCHANGED <<thread, event, isRunning>>

Notify ==
  /\ caller = "notify"
  /\ NotifyOne
  /\ caller' = "idle"
  /\ UNCHANGED <<queueVars, pipeVars, event, isRunning>>

-----------------------------------------------------------------------------
(* stop *)

Stop ==
  /\ caller = "idle"
  /\ isRunning' = FALSE
  /\ caller' = "stopping"
  /\ UNCHANGED <<queueVars, pipeVars, thread, event>>

\* A bug: nobody is woken.
StopOnly ==
  /\ caller = "stopping"
  /\ caller' = "joining"
  /\ UNCHANGED <<queueVars, pipeVars, thread, event, isRunning>>

StopNotify ==
  /\ caller = "stopping"
  /\ NotifyOne
  /\ caller' = "joining"
  /\ UNCHANGED <<queueVars, pipeVars, event, isRunning>>

Join ==
  /\ caller = "joining"
  /\ thread = "exited"
  /\ caller' = "stopped"
  /\ UNCHANGED <<queueVars, pipeVars, thread, event, isRunning>>

-----------------------------------------------------------------------------
(* threadFunc *)

ReadTrue ==
  /\ thread = "read"
  /\ HasPrefetched \/ Prefetch
  /\ thread' = "pop"
  /\ UNCHANGED <<caller, event, isRunning>>

\* A bug: the front is popped before it is copied.
PopThenCopy ==
  /\ thread = "pop"
  /\ event' = mem[Addr(front + 1)]
  /\ Pop
  /\ thread' = "onMessage"
  /\ UNCHANGED <<pipeVars, caller, isRunning>>

PopFront ==
  /\ thread = "pop"
  /\ event' = mem[Addr(front)]
  /\ Pop
  /\ thread' = "onMessage"
  /\ UNCHANGED <<pipeVars, caller, isRunning>>

OnMessage ==
  /\ thread = "onMessage"
  /\ thread' = "test"
  /\ UNCHANGED <<queueVars, pipeVars, caller, event, isRunning>>

ReadFalse ==
  /\ thread = "read"
  /\ FindsNothing
  /\ thread' = "lock"
  /\ UNCHANGED <<caller, event, isRunning>>

Wait ==
  /\ thread = "lock"
  /\ thread' = "waiting"
  /\ UNCHANGED <<queueVars, pipeVars, caller, event, isRunning>>

SpuriousWakeup ==
  /\ thread = "waiting"
  /\ thread' = "test"
  /\ UNCHANGED <<queueVars, pipeVars, caller, event, isRunning>>

TestRunning ==
  /\ thread = "test"
  /\ thread' = IF isRunning THEN "read" ELSE "exited"
  /\ UNCHANGED <<queueVars, pipeVars, caller, event, isRunning>>

-----------------------------------------------------------------------------
CallerStep == FlushTrue \/ FlushFalse \/ SetC \/ Notify \/ StopNotify \/ Join

ThreadStep ==
  ReadTrue \/ PopFront \/ OnMessage \/ ReadFalse \/ Wait \/ TestRunning

Next ==
  \/ \E e \in Event : AddEvent(e)
  \/ Stop
  \/ CallerStep
  \/ ThreadStep
  \/ SpuriousWakeup

Spec == Init /\ [][Next]_vars

(* Both threads keep running, onMessage returns; nobody has to add an      *)
(* event or to stop the thread, and no wait has to end by itself.          *)
FairSpec == Spec /\ WF_vars(CallerStep) /\ WF_vars(ThreadStep)

-----------------------------------------------------------------------------
(* Properties *)

(* Every variable has its type, and onMessage is given an event, never     *)
(* what a slot holds before it is written.                                 *)
TypeOK ==
  /\ mem \in [Address -> Event \cup {NULL}]
  /\ chunk \in Seq(Chunk)
  /\ spare \in Chunk \cup {NULL}
  /\ front \in Nat /\ back \in Nat
  /\ w \in Nat /\ f \in Nat
  /\ r \in Nat \cup {NULL} /\ c \in Nat \cup {NULL}
  /\ caller \in CallerAt /\ thread \in ThreadAt
  /\ event \in Event \cup {NULL}
  /\ thread = "onMessage" => event \in Event
  /\ isRunning \in BOOLEAN

(* The thread reads only what was flushed to it, and never the slot the    *)
(* event loop is writing: the condition yqueue.h puts on its user, that    *)
(* both threads do not access one element without synchronisation.         *)
ReadsOnlyFlushed ==
  thread = "pop" => front < Flushed /\ Addr(front) # Addr(back)

(* When flush swaps c and so tells addEvent that no notify is needed, the  *)
(* thread is not waiting and not about to wait: no event is left to a      *)
(* thread that nobody will wake ever again.                                *)
SwapMeansAwake ==
  caller = "flush" /\ ~SameAddress(w, f) /\ SameAddress(c, w)
    => thread \notin {"lock", "waiting"}

(* No step of either thread takes back an event that was flushed.          *)
FlushedNeverRetreats == [][Flushed' >= Flushed]_vars

(* The thread hands out exactly the events added, once each and in order,  *)
(* whatever the two threads' interleaving and however chunks are recycled. *)
EQ == INSTANCE EventQueue WITH
        queue <- Contents,
        hand  <- IF thread = "onMessage" THEN <<event>> ELSE <<>>

ImplementsEventQueue == EQ!Spec

(* A thread may be left waiting with events in its pipe: a notify was lost *)
(* because the thread was not waiting yet, or a flush was skipped.  The    *)
(* event added to a waiting thread wakes it, or, if that flush is skipped  *)
(* too, the one after it does: it keeps waiting only if no event is ever   *)
(* added again.                                                            *)
MoreEventsWakeWaiting ==
  \A i \in 1 .. MaxEvents :
    caller = "flush" /\ thread = "waiting" /\ back = i
      ~> (thread # "waiting" \/ [](back = i))

(* stop returns, unless its flag is set while the thread reads, or has     *)
(* found nothing and is about to wait: then the notify may be lost too,    *)
(* and stop joins a thread that waits.                                     *)
StopReturnsUnlessReading ==
  caller = "stopping" /\ thread \notin {"read", "lock"} ~> caller = "stopped"

=============================================================================
