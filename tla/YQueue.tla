------------------------------- MODULE YQueue -------------------------------
(***************************************************************************)
(* The storage of a worker's event queue: yqueue_t<T, N> of                *)
(* include/zmq/yqueue.h, a linked list of chunks of N values with one      *)
(* chunk kept as a spare.                                                  *)
(*                                                                         *)
(* Slots are numbered in the order they are used, from 0.  Page p is the   *)
(* p-th chunk ever linked into the list and holds the slots p*N .. p*N+N-1;*)
(* chunk[p+1] is its address.  A page keeps its address for ever, but an   *)
(* address serves many pages one after the other, through the spare chunk  *)
(* or through malloc: two slots may have one address.                      *)
(***************************************************************************)
EXTENDS Naturals, Sequences

CONSTANTS
  Event,   \* the values the queue stores: pointers to faster_event_t
  Chunk,   \* the addresses malloc can return for a chunk_t
  N,       \* values per chunk (QUEUE_CHUNK_SIZE, 100 in the code)
  NULL     \* the null pointer

ASSUME YQueueAssumption ==
  /\ N \in Nat /\ N > 1
  /\ NULL \notin Nat
  /\ NULL \notin Chunk
  /\ NULL \notin Event

VARIABLES
  mem,     \* what each address holds
  chunk,   \* the address of each page, in the order the pages were linked
  spare,   \* spare_chunk
  front,   \* the slot of begin_chunk and begin_pos
  back     \* the slot of back_chunk and back_pos; end is the slot after it

queueVars == <<mem, chunk, spare, front, back>>

Address == Chunk \X (0 .. N-1)

PageOf(slot) == slot \div N

Addr(slot) == <<chunk[PageOf(slot) + 1], slot % N>>

\* The pages of the list: from begin_chunk to end_chunk.
LivePages == PageOf(front) .. PageOf(back + 1)

Allocated == {chunk[p + 1] : p \in LivePages} \cup {spare}

-----------------------------------------------------------------------------
(* The state after the constructors of yqueue_t and ypipe_t: one chunk, in *)
(* which ypipe_t has pushed the terminator, slot 0.                        *)
QueueInit ==
  /\ mem = [a \in Address |-> NULL]
  /\ chunk \in {<<k>> : k \in Chunk}
  /\ spare = NULL
  /\ front = 0
  /\ back = 0

(* push(): end becomes back and moves on by one.  When it leaves its chunk *)
(* the next one is the spare, taken with xchg, or a new one from malloc.   *)
Push ==
  /\ back' = back + 1
  /\ \/ /\ (back + 2) % N # 0
        /\ UNCHANGED <<chunk, spare>>
     \/ /\ (back + 2) % N = 0
        /\ spare # NULL
        /\ chunk' = Append(chunk, spare)
        /\ spare' = NULL
     \/ /\ (back + 2) % N = 0
        /\ spare = NULL
        /\ \E k \in Chunk \ Allocated : chunk' = Append(chunk, k)
        /\ UNCHANGED spare

\* A bug: the chunk is given away with its last value still in it.
PopOneEarly ==
  /\ front' = front + 1
  /\ spare' = IF (front + 2) % N = 0 THEN chunk[PageOf(front) + 1] ELSE spare
  /\ UNCHANGED <<mem, chunk, back>>

(* pop(): a chunk whose last value is gone becomes the spare, and what was *)
(* the spare is freed (it leaves Allocated).                               *)
Pop ==
  /\ front' = front + 1
  /\ spare' = IF (front + 1) % N = 0 THEN chunk[PageOf(front) + 1] ELSE spare
  /\ UNCHANGED <<mem, chunk, back>>

-----------------------------------------------------------------------------
(* The list and the spare never share a chunk, and no chunk is in the list *)
(* twice: what pop recycles is out of the writer's way until the writer    *)
(* takes it, so every live slot has an address of its own.                 *)
ChunksDisjoint ==
  /\ \A p, q \in LivePages : p # q => chunk[p + 1] # chunk[q + 1]
  /\ \A p \in LivePages : chunk[p + 1] # spare

=============================================================================
