------------------------------- MODULE YPipe --------------------------------
(***************************************************************************)
(* The lock-free pipe between the event loop and one worker thread:        *)
(* ypipe_t of include/zmq/ypipe.h.  Its pointers w, r, f and c point at    *)
(* slots of the yqueue_t.  Here a pointer is the number of the slot it was *)
(* made from; the code compares addresses, so two pointers are equal when  *)
(* Addr of their slots is.                                                 *)
(***************************************************************************)
EXTENDS YQueue

VARIABLES
  w,   \* the writer's: the value of f at the last flush that swapped c
  f,   \* the writer's: first slot not to be flushed
  r,   \* the reader's: first slot not prefetched, or NULL
  c    \* shared: one past the last flushed slot, or NULL: the reader sleeps

pipeVars == <<w, f, r, c>>

SameAddress(p, q) ==
  /\ p # NULL
  /\ q # NULL
  /\ Addr(p) = Addr(q)

PipeInit ==
  /\ QueueInit
  /\ w = 0 /\ f = 0 /\ r = 0 /\ c = 0

(* write(e, false): the value goes into the terminator's slot, a new       *)
(* terminator is pushed, and f moves up to it.                             *)
Write(e) ==
  /\ mem' = [mem EXCEPT ![Addr(back)] = e]
  /\ Push
  /\ f' = back + 1
  /\ UNCHANGED <<front, w, r, c>>

(* flush() has four ends; each is one atomic access to c or none.          *)
FlushNothing ==           \* w == f: it returns true
  /\ SameAddress(w, f)
  /\ UNCHANGED <<queueVars, pipeVars>>

FlushSwap ==              \* c.cas(w, f) found w: it returns true
  /\ ~SameAddress(w, f)
  /\ SameAddress(c, w)
  /\ c' = f
  /\ w' = f
  /\ UNCHANGED <<queueVars, f, r>>

FlushMiss ==              \* c.cas(w, f) found something else
  /\ ~SameAddress(w, f)
  /\ ~SameAddress(c, w)
  /\ UNCHANGED <<queueVars, pipeVars>>

\* The statement upstream's ypipe_t has here and this copy lacks, w = f.
FlushSetAndW == c' = f /\ w' = f /\ UNCHANGED <<queueVars, f, r>>

FlushSet ==               \* c.set(f), after which it returns false
  /\ c' = f
  /\ UNCHANGED <<queueVars, w, f, r>>

(* check_read(): a value is there if one was prefetched; otherwise         *)
(* c.cas(&queue.front(), NULL) fetches c into r, or puts NULL into c.      *)
HasPrefetched ==
  /\ r # NULL
  /\ ~SameAddress(front, r)
  /\ UNCHANGED <<queueVars, pipeVars>>

\* A bug: an empty pipe is not told from one with values.
PrefetchEmpty ==
  /\ r = NULL \/ SameAddress(front, r)
  /\ c # NULL
  /\ r' = c
  /\ UNCHANGED <<queueVars, w, f, c>>

\* A bug: what is written is taken for flushed.
PrefetchUnflushed ==
  /\ r = NULL \/ SameAddress(front, r)
  /\ c # NULL
  /\ ~SameAddress(f, front)
  /\ r' = f
  /\ UNCHANGED <<queueVars, w, f, c>>

Prefetch ==
  /\ r = NULL \/ SameAddress(front, r)
  /\ c # NULL
  /\ ~SameAddress(c, front)
  /\ r' = c
  /\ UNCHANGED <<queueVars, w, f, c>>

\* A bug: NULL is stored whatever c is, not compared and swapped.
FindsNothingStores ==
  /\ r = NULL \/ SameAddress(front, r)
  /\ r' = c
  /\ c' = NULL
  /\ UNCHANGED <<queueVars, w, f>>

FindsNothing ==
  /\ r = NULL \/ SameAddress(front, r)
  /\ c = NULL \/ SameAddress(c, front)
  /\ r' = c
  /\ c' = NULL
  /\ UNCHANGED <<queueVars, w, f>>

(* What the reader may read: when c is NULL it has read all that was       *)
(* flushed.                                                                *)
Flushed == IF c = NULL THEN front ELSE c

\* What is written and not yet read, oldest first.
Contents == [i \in 1 .. (back - front) |-> mem[Addr(front + i - 1)]]

=============================================================================
