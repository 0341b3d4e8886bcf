------------------------ MODULE FasterThread_proofs -------------------------
(***************************************************************************)
(* Theorems about one worker thread and its pipe, for every chunk size N,  *)
(* every set of chunks and every number of events.                         *)
(***************************************************************************)
EXTENDS FasterThread, SequenceTheorems, TLAPS

(***************************************************************************)
(* The inductive invariant.                                                *)
(***************************************************************************)

(* The pointers' order: read so far, prefetched, flushed, written.         *)
PointerOrder ==
  /\ f = back
  /\ w <= back
  /\ front <= Flushed /\ Flushed <= back
  /\ r # NULL => front <= r /\ r <= Flushed
  /\ thread = "pop" => r # NULL /\ front < r

(* The list reaches to the chunk of end, one slot after back.              *)
ListReachesEnd == Len(chunk) = PageOf(back + 1) + 1

(* What is between front and back are events.                              *)
WrittenAreEvents == \A i \in front .. back - 1 : mem[Addr(i)] \in Event

(* flush stores f into c only when w is at another address; so once w is   *)
(* out of date, c never comes back to the address of w.                    *)
MissKeepsApart ==
  /\ caller = "set" => ~SameAddress(w, f)
  /\ SameAddress(c, w) => thread \notin {"lock", "waiting"}

IInv ==
  /\ TypeOK
  /\ PointerOrder
  /\ ListReachesEnd
  /\ ChunksDisjoint
  /\ WrittenAreEvents
  /\ MissKeepsApart

-----------------------------------------------------------------------------
(* Pages and positions of slots.                                           *)

LEMMA SlotPlace ==
  ASSUME NEW i \in Nat
  PROVE  /\ PageOf(i) \in Nat
         /\ i % N \in 0 .. N-1
         /\ i = N * PageOf(i) + (i % N)
BY YQueueAssumption, Z3 DEF PageOf

(* A page and a position determine the slot.                               *)
LEMMA SlotUnique ==
  ASSUME NEW i \in Nat, NEW j \in Nat, PageOf(i) = PageOf(j), i % N = j % N
  PROVE  i = j
<1>1. i = N * PageOf(i) + (i % N) /\ j = N * PageOf(j) + (j % N)
  BY SlotPlace
<1> QED BY <1>1

(* Later slots are on later pages.                                         *)
LEMMA PageMonotone ==
  ASSUME NEW i \in Nat, NEW j \in Nat, i <= j
  PROVE  PageOf(i) <= PageOf(j)
<1> DEFINE p == PageOf(i)   q == i % N
           k == PageOf(j)   m == j % N
<1>1. N \in Nat /\ N > 1
  BY YQueueAssumption
<1>2. /\ p \in Nat /\ k \in Nat
      /\ q \in 0 .. N-1 /\ m \in 0 .. N-1
      /\ i = N * p + q /\ j = N * k + m
  BY SlotPlace
<1> HIDE DEF p, q, k, m
<1>3. SUFFICES ASSUME p > k PROVE FALSE
  BY <1>2 DEF p, k
<1>4. p - k - 1 \in Nat /\ N * (p - k - 1) \in Nat /\ N * k \in Nat
  BY <1>1, <1>2, <1>3
<1>5. N * p = N * k + N + N * (p - k - 1)
  BY <1>1, <1>2, <1>3
<1> QED BY <1>1, <1>2, <1>4, <1>5

(* The next slot is on the same page, or it is the first of the next page. *)
LEMMA NextSlot ==
  ASSUME NEW i \in Nat
  PROVE  /\ (i + 1) % N # 0 => PageOf(i + 1) = PageOf(i)
         /\ (i + 1) % N = 0 => PageOf(i + 1) = PageOf(i) + 1
<1> DEFINE p == PageOf(i)        q == i % N
           pp == PageOf(i + 1)   qq == (i + 1) % N
<1>1. N \in Nat /\ N > 1
  BY YQueueAssumption
<1>2. /\ p \in Nat /\ pp \in Nat
      /\ q \in 0 .. N-1 /\ qq \in 0 .. N-1
      /\ i = N * p + q /\ i + 1 = N * pp + qq
  BY SlotPlace
<1>3. p <= pp
  BY PageMonotone
<1> HIDE DEF p, q, pp, qq
<1>4. PICK d \in Nat : pp = p + d
  <2>1. pp - p \in Nat /\ pp = p + (pp - p)
    BY <1>2, <1>3
  <2> QED BY <2>1
<1>5. N * pp = N * p + N * d /\ N * p \in Nat /\ N * d \in Nat
  BY <1>1, <1>2, <1>4
<1>6. N * d + qq = q + 1
  BY <1>1, <1>2, <1>5
<1>7. d < 2
  <2>1. SUFFICES ASSUME d >= 2 PROVE FALSE
    BY <1>4
  <2>2. N * d >= N * 2
    <3>1. d - 2 \in Nat /\ N * (d - 2) \in Nat
      BY <1>1, <1>4, <2>1
    <3>2. N * d = N * 2 + N * (d - 2)
      BY <1>1, <1>4, <2>1
    <3> QED BY <3>1, <3>2, <1>1
  <2> QED BY <1>1, <1>2, <1>6, <2>2
<1>8. CASE d = 0
  <2>1. qq = q + 1 /\ pp = p
    BY <1>1, <1>2, <1>4, <1>6, <1>8
  <2> QED BY <1>2, <2>1 DEF p, q, pp, qq
<1>9. CASE d = 1
  <2>1. qq = 0 /\ pp = p + 1
    BY <1>1, <1>2, <1>4, <1>6, <1>9
  <2> QED BY <2>1 DEF p, pp, qq
<1> QED BY <1>4, <1>7, <1>8, <1>9

(* The slots from front to end are on the pages of the list.               *)
LEMMA LiveSlotPage ==
  ASSUME TypeOK, NEW i \in front .. back + 1
  PROVE  PageOf(i) \in LivePages
<1>1. front \in Nat /\ back + 1 \in Nat /\ i \in Nat
  BY DEF TypeOK
<1>2. PageOf(front) \in Nat /\ PageOf(i) \in Nat /\ PageOf(back + 1) \in Nat
  BY <1>1, SlotPlace
<1>3. PageOf(front) <= PageOf(i) /\ PageOf(i) <= PageOf(back + 1)
  BY <1>1, PageMonotone
<1> QED BY <1>2, <1>3 DEF LivePages

(* Live slots have addresses of their own.                                 *)
LEMMA LiveSlotsApart ==
  ASSUME TypeOK, ChunksDisjoint,
         NEW i \in front .. back + 1, NEW j \in front .. back + 1,
         Addr(i) = Addr(j)
  PROVE  i = j
<1>1. i \in Nat /\ j \in Nat
  BY DEF TypeOK
<1>2. PageOf(i) \in LivePages /\ PageOf(j) \in LivePages
  BY LiveSlotPage
<1>3. PageOf(i) = PageOf(j)
  BY <1>2 DEF ChunksDisjoint, Addr
<1>4. i % N = j % N
  BY DEF Addr
<1> QED BY <1>1, <1>3, <1>4, SlotUnique

(* Every slot up to end has an address.                                    *)
LEMMA AddrIsAddress ==
  ASSUME TypeOK, ListReachesEnd, NEW i \in 0 .. back + 1
  PROVE  /\ PageOf(i) + 1 \in 1 .. Len(chunk)
         /\ Addr(i) \in Address
<1>1. i \in Nat /\ back + 1 \in Nat /\ i <= back + 1
  BY DEF TypeOK
<1>4. PageOf(i) \in Nat /\ PageOf(back + 1) \in Nat /\ PageOf(i) <= PageOf(back + 1)
  BY <1>1, PageMonotone, SlotPlace
<1>2. PageOf(i) + 1 \in 1 .. Len(chunk)
  BY <1>4 DEF ListReachesEnd
<1>3. chunk[PageOf(i) + 1] \in Chunk
  BY <1>2 DEF TypeOK
<1> QED BY <1>1, <1>2, <1>3, SlotPlace DEF Addr, Address

-----------------------------------------------------------------------------
(* What push() and pop() do to the list.                                   *)

LEMMA PushList ==
  ASSUME IInv, Push
  PROVE  /\ back' = back + 1
         /\ spare' \in {spare, NULL}
         /\ chunk' \in Seq(Chunk)
         /\ Len(chunk') = PageOf(back' + 1) + 1
         /\ \A p \in 1 .. Len(chunk) : chunk'[p] = chunk[p]
         /\ Len(chunk') # Len(chunk) =>
              /\ Len(chunk') = Len(chunk) + 1
              /\ chunk'[Len(chunk) + 1] # NULL
              /\ chunk'[Len(chunk) + 1] # spare'
              /\ \A p \in LivePages : chunk[p + 1] # chunk'[Len(chunk) + 1]
<1> USE DEF IInv, TypeOK, ListReachesEnd
<1>0. back + 1 \in Nat /\ back' = back + 1 /\ back' + 1 = back + 2
      /\ back + 2 = (back + 1) + 1
  BY DEF Push
<1>1. CASE (back + 2) % N # 0
  <2>1. UNCHANGED <<chunk, spare>>
    BY <1>1 DEF Push
  <2>2. PageOf(back' + 1) = PageOf(back + 1)
    BY <1>0, <1>1, NextSlot
  <2> QED BY <1>0, <2>1, <2>2
<1>2. CASE (back + 2) % N = 0
  <2>1. PageOf(back' + 1) = PageOf(back + 1) + 1
    BY <1>0, <1>2, NextSlot
  <2>2. CASE spare # NULL
    <3>1. chunk' = Append(chunk, spare) /\ spare' = NULL
      BY <1>2, <2>2 DEF Push
    <3>2. spare \in Chunk
      BY <2>2
    <3>3. \A p \in LivePages : chunk[p + 1] # spare
      BY DEF ChunksDisjoint
    <3> QED BY <1>0, <2>1, <2>2, <3>1, <3>2, <3>3, YQueueAssumption
  <2>3. CASE spare = NULL
    <3>1. PICK k \in Chunk \ Allocated : chunk' = Append(chunk, k)
      BY <1>2, <2>3 DEF Push
    <3>2. spare' = NULL
      BY <1>2, <2>3 DEF Push
    <3>3. \A p \in LivePages : chunk[p + 1] # k
      BY <3>1 DEF Allocated
    <3> QED BY <1>0, <2>1, <3>1, <3>2, <3>3, YQueueAssumption
  <2> QED BY <2>2, <2>3
<1> QED BY <1>1, <1>2

(* push() moves no slot that had an address before.                        *)
LEMMA PushKeepsAddr ==
  ASSUME IInv, Push, NEW i \in 0 .. back + 1
  PROVE  Addr(i)' = Addr(i)
<1>1. PageOf(i) + 1 \in 1 .. Len(chunk)
  BY AddrIsAddress DEF IInv
<1>2. chunk'[PageOf(i) + 1] = chunk[PageOf(i) + 1]
  BY <1>1, PushList
<1> QED BY <1>2 DEF Addr, PageOf

LEMMA PushKeepsDisjoint ==
  ASSUME IInv, Push, front' = front
  PROVE  ChunksDisjoint'
<1> USE DEF IInv, TypeOK, ListReachesEnd
<1>0. back + 1 \in Nat /\ back' + 1 \in Nat
  BY PushList
<1>1. /\ PageOf(front) \in Nat /\ PageOf(back + 1) \in Nat
      /\ PageOf(back' + 1) \in Nat
  BY <1>0, SlotPlace
<1>2. LivePages' = PageOf(front) .. (Len(chunk') - 1)
  <2>1. LivePages' = PageOf(front) .. PageOf(back' + 1)
    BY DEF LivePages, PageOf
  <2>2. Len(chunk') - 1 = PageOf(back' + 1)
    BY <1>1, PushList
  <2> QED BY <2>1, <2>2
<1>3. LivePages = PageOf(front) .. (Len(chunk) - 1)
  BY <1>1 DEF LivePages
<1>4. CASE Len(chunk') = Len(chunk)
  <2>1. \A p \in LivePages : p + 1 \in 1 .. Len(chunk)
    BY <1>1, <1>3
  <2>2. \A p \in LivePages : chunk'[p + 1] = chunk[p + 1]
    BY <2>1, PushList
  <2>3. \A p \in LivePages : chunk[p + 1] \in Chunk
    BY <2>1
  <2> QED BY <1>2, <1>3, <1>4, <2>2, <2>3, PushList, YQueueAssumption
          DEF ChunksDisjoint
<1>5. CASE Len(chunk') # Len(chunk)
  <2>1. Len(chunk') = Len(chunk) + 1
    BY <1>5, PushList
  <2>2. \A p \in LivePages' : p \in LivePages \/ p = Len(chunk)
    BY <1>1, <1>2, <1>3, <2>1
  <2>3. \A p \in LivePages : p + 1 \in 1 .. Len(chunk)
    BY <1>1, <1>3
  <2>4. \A p \in LivePages : /\ chunk'[p + 1] = chunk[p + 1]
                             /\ chunk[p + 1] \in Chunk
                             /\ chunk[p + 1] # spare'
    BY <2>3, PushList, YQueueAssumption DEF ChunksDisjoint
  <2>5. \A p \in LivePages : chunk[p + 1] # chunk'[Len(chunk) + 1]
    BY <1>5, PushList
  <2>6. chunk'[Len(chunk) + 1] # spare'
    BY <1>5, PushList
  <2>7. \A p, q \in LivePages' : p # q => chunk'[p + 1] # chunk'[q + 1]
    BY <2>2, <2>4, <2>5 DEF ChunksDisjoint
  <2>8. \A p \in LivePages' : chunk'[p + 1] # spare'
    BY <2>2, <2>4, <2>6
  <2> QED BY <2>7, <2>8 DEF ChunksDisjoint
<1> QED BY <1>4, <1>5

LEMMA PopKeepsDisjoint ==
  ASSUME IInv, Pop, front < back
  PROVE  ChunksDisjoint'
<1> USE DEF IInv, TypeOK
<1>1. front + 1 \in Nat /\ back + 1 \in Nat /\ front' = front + 1
  BY DEF Pop
<1>2. PageOf(front) \in Nat /\ PageOf(front + 1) \in Nat /\ PageOf(back + 1) \in Nat
  BY <1>1, SlotPlace
<1>3. LivePages' = PageOf(front + 1) .. PageOf(back + 1)
  BY <1>1 DEF LivePages, PageOf, Pop
<1>4. PageOf(front) <= PageOf(back + 1)
  BY <1>1, PageMonotone
<1>5. CASE (front + 1) % N # 0
  BY <1>1, <1>3, <1>5, NextSlot DEF Pop, ChunksDisjoint, LivePages
<1>6. CASE (front + 1) % N = 0
  <2>1. spare' = chunk[PageOf(front) + 1] /\ chunk' = chunk
    BY <1>6 DEF Pop
  <2>2. PageOf(front + 1) = PageOf(front) + 1
    BY <1>6, NextSlot
  <2>4. LivePages' = PageOf(front) + 1 .. PageOf(back + 1)
    BY <1>3, <2>2
  <2>5. LivePages = PageOf(front) .. PageOf(back + 1)
    BY DEF LivePages
  <2>3. \A p \in LivePages' : p \in LivePages /\ p # PageOf(front)
    BY <1>2, <2>4, <2>5
  <2>6. PageOf(front) \in LivePages
    BY <1>2, <1>4 DEF LivePages
  <2> QED BY <2>1, <2>3, <2>6 DEF ChunksDisjoint
<1> QED BY <1>5, <1>6

-----------------------------------------------------------------------------
(* The invariant holds at the start.                                       *)
LEMMA InitInvariant == Init => IInv
<1> SUFFICES ASSUME Init PROVE IInv
  OBVIOUS
<1> USE DEF Init, PipeInit, QueueInit
<1>1. PICK k \in Chunk : chunk = <<k>>
  OBVIOUS
<1>2. PageOf(0) = 0 /\ PageOf(1) = 0
  BY YQueueAssumption, Z3 DEF PageOf
<1>3. LivePages = {0}
  BY <1>2 DEF LivePages
<1>4. TypeOK
  BY <1>1, YQueueAssumption DEF TypeOK, CallerAt, ThreadAt
<1>5. PointerOrder
  BY YQueueAssumption DEF PointerOrder, Flushed
<1>6. ListReachesEnd
  BY <1>1, <1>2 DEF ListReachesEnd
<1>7. ChunksDisjoint
  BY <1>1, <1>3, YQueueAssumption DEF ChunksDisjoint
<1>8. WrittenAreEvents
  BY DEF WrittenAreEvents
<1>9. MissKeepsApart
  BY DEF MissKeepsApart
<1> QED BY <1>4, <1>5, <1>6, <1>7, <1>8, <1>9 DEF IInv

(* A step that leaves the queue alone keeps what is said of the queue.     *)
LEMMA QueueStays ==
  ASSUME IInv, UNCHANGED queueVars
  PROVE  ListReachesEnd' /\ ChunksDisjoint' /\ WrittenAreEvents'
BY DEF IInv, queueVars, ListReachesEnd, ChunksDisjoint, WrittenAreEvents,
       LivePages, PageOf, Addr

(* Equal addresses of unread pointers are equal pointers.                  *)
LEMMA SameAddressSame ==
  ASSUME IInv, NEW p \in front .. back, SameAddress(p, front) \/ SameAddress(front, p)
  PROVE  p = front
<1>1. Addr(p) = Addr(front)
  BY DEF SameAddress
<1>2. p \in front .. back + 1 /\ front \in front .. back + 1
  BY DEF IInv, TypeOK
<1> QED BY <1>1, <1>2, LiveSlotsApart DEF IInv

-----------------------------------------------------------------------------
(* Every step keeps the invariant.                                         *)

LEMMA AddEventInvariant ==
  ASSUME IInv, NEW e \in Event, AddEvent(e)
  PROVE  IInv'
<1> USE DEF IInv
<1>1. Push /\ UNCHANGED <<front, w, r, c, thread, event, isRunning>>
      /\ f' = back + 1 /\ mem' = [mem EXCEPT ![Addr(back)] = e] /\ caller' = "flush"
  BY DEF AddEvent, Write
<1>2. back \in Nat /\ front \in Nat /\ back' = back + 1 /\ front <= back
  BY <1>1, PushList DEF TypeOK, PointerOrder, Flushed
<1>3. TypeOK'
  <2>1. mem' \in [Address -> Event \cup {NULL}]
    BY <1>1 DEF TypeOK
  <2>2. chunk' \in Seq(Chunk) /\ spare' \in Chunk \cup {NULL}
    BY <1>1, PushList DEF TypeOK
  <2>3. f' \in Nat /\ back' \in Nat /\ caller' \in CallerAt
    BY <1>1, <1>2 DEF CallerAt
  <2> QED BY <1>1, <2>1, <2>2, <2>3 DEF TypeOK
<1>4. PointerOrder'
  BY <1>1, <1>2 DEF PointerOrder, Flushed, TypeOK
<1>5. ListReachesEnd'
  BY PushList, <1>1 DEF ListReachesEnd, PageOf
<1>6. ChunksDisjoint'
  BY <1>1, PushKeepsDisjoint
<1>7. WrittenAreEvents'
  <2> SUFFICES ASSUME NEW i \in front .. back PROVE mem'[Addr(i)'] \in Event
    BY <1>1, <1>2 DEF WrittenAreEvents
  <2>1. Addr(i)' = Addr(i)
    BY <1>1, <1>2, PushKeepsAddr
  <2>2. Addr(back) \in Address /\ mem \in [Address -> Event \cup {NULL}]
    BY <1>2, AddrIsAddress DEF TypeOK
  <2>3. CASE i = back
    BY <1>1, <2>1, <2>2, <2>3
  <2>4. CASE i # back
    <3>1. Addr(i) # Addr(back)
      BY <1>2, <2>4, LiveSlotsApart
    <3>2. mem[Addr(i)] \in Event
      BY <1>2, <2>4 DEF WrittenAreEvents
    <3>3. Addr(i) \in Address
      BY <1>2, AddrIsAddress
    <3> QED BY <1>1, <2>1, <2>2, <3>1, <3>2, <3>3
  <2> QED BY <2>3, <2>4
<1>8. MissKeepsApart'
  <2>1. w \in 0 .. back + 1 /\ (c # NULL => c \in 0 .. back + 1)
    BY <1>2 DEF PointerOrder, Flushed, TypeOK
  <2>2. /\ Addr(w)' = Addr(w)
        /\ c # NULL => Addr(c)' = Addr(c)
    <3>1. \A i \in 0 .. back + 1 : Addr(i)' = Addr(i)
      BY <1>1, PushKeepsAddr
    <3> QED BY <1>1, <2>1, <3>1 DEF Addr, PageOf
  <2> QED BY <1>1, <2>2 DEF MissKeepsApart, SameAddress
<1> QED BY <1>3, <1>4, <1>5, <1>6, <1>7, <1>8

(* What flush does to c, in whichever way it ends.                         *)
LEMMA FlushInvariant ==
  ASSUME IInv, FlushTrue \/ FlushFalse \/ SetC
  PROVE  IInv'
<1> USE DEF IInv
<1>1. UNCHANGED queueVars /\ UNCHANGED <<f, r, thread, event, isRunning>>
  BY DEF FlushTrue, FlushFalse, SetC, FlushNothing, FlushSwap, FlushMiss,
         FlushSet, pipeVars
<1>2. ListReachesEnd' /\ ChunksDisjoint' /\ WrittenAreEvents'
  BY <1>1, QueueStays
<1>3. c' \in {c, f} /\ w' \in {w, f} /\ caller' \in CallerAt
  BY DEF FlushTrue, FlushFalse, SetC, FlushNothing, FlushSwap, FlushMiss,
         FlushSet, pipeVars, CallerAt
<1>4. TypeOK'
  BY <1>1, <1>3 DEF TypeOK, queueVars
<1>5. PointerOrder'
  BY <1>1, <1>3, YQueueAssumption DEF PointerOrder, Flushed, TypeOK, queueVars
<1>6. MissKeepsApart'
  <2>1. CASE FlushTrue
    BY <2>1, <1>1 DEF FlushTrue, FlushNothing, FlushSwap, pipeVars, queueVars,
                      MissKeepsApart, SameAddress, Addr, PageOf
  <2>2. CASE FlushFalse
    BY <2>2, <1>1 DEF FlushFalse, FlushMiss, pipeVars, queueVars,
                      MissKeepsApart, SameAddress, Addr, PageOf
  <2>3. CASE SetC
    BY <2>3, <1>1 DEF SetC, FlushSet, queueVars,
                      MissKeepsApart, SameAddress, Addr, PageOf
  <2> QED BY <2>1, <2>2, <2>3
<1> QED BY <1>2, <1>4, <1>5, <1>6

LEMMA ReadTrueInvariant ==
  ASSUME IInv, ReadTrue
  PROVE  IInv'
<1> USE DEF IInv
<1>1. /\ UNCHANGED queueVars /\ UNCHANGED <<w, f, c, caller, event, isRunning>>
      /\ thread = "read" /\ thread' = "pop" /\ r' \in {r, c}
  BY DEF ReadTrue, HasPrefetched, Prefetch, pipeVars
<1>2. ListReachesEnd' /\ ChunksDisjoint' /\ WrittenAreEvents'
  BY <1>1, QueueStays
<1>3. TypeOK'
  BY <1>1 DEF TypeOK, queueVars, ThreadAt
<1>4. r' # NULL /\ front < r' /\ r' <= Flushed
  <2>1. CASE HasPrefetched
    <3>1. r # NULL /\ r' = r /\ ~SameAddress(front, r)
      BY <2>1 DEF HasPrefetched, pipeVars
    <3>2. front # r
      BY <3>1, YQueueAssumption DEF SameAddress, TypeOK
    <3> QED BY <3>1, <3>2 DEF PointerOrder, Flushed, TypeOK
  <2>2. CASE Prefetch
    <3>1. c # NULL /\ r' = c /\ ~SameAddress(c, front)
      BY <2>2 DEF Prefetch
    <3>2. front # c
      BY <3>1, YQueueAssumption DEF SameAddress, TypeOK
    <3> QED BY <3>1, <3>2 DEF PointerOrder, Flushed, TypeOK
  <2> QED BY <2>1, <2>2 DEF ReadTrue
<1>5. PointerOrder'
  BY <1>1, <1>4 DEF PointerOrder, Flushed, TypeOK, queueVars
<1>6. MissKeepsApart'
  BY <1>1 DEF MissKeepsApart, SameAddress, Addr, PageOf, queueVars
<1> QED BY <1>2, <1>3, <1>5, <1>6

LEMMA PopFrontInvariant ==
  ASSUME IInv, PopFront
  PROVE  IInv'
<1> USE DEF IInv
<1>1. /\ Pop /\ UNCHANGED <<w, f, r, c, mem, chunk, back, caller, isRunning>>
      /\ thread = "pop" /\ thread' = "onMessage" /\ event' = mem[Addr(front)]
      /\ front' = front + 1
  BY DEF PopFront, Pop, pipeVars
<1>2. front \in Nat /\ back \in Nat /\ c # NULL /\ c \in Nat
      /\ front < r /\ r \in Nat /\ r <= c /\ c <= back
  BY <1>1 DEF PointerOrder, Flushed, TypeOK
<1>3. event' \in Event
  BY <1>1, <1>2 DEF WrittenAreEvents
<1>4. PageOf(front) + 1 \in 1 .. Len(chunk)
  BY <1>2, AddrIsAddress
<1>5. spare' \in Chunk \cup {NULL}
  BY <1>1, <1>4 DEF Pop, TypeOK
<1>6. TypeOK'
  BY <1>1, <1>2, <1>3, <1>5 DEF TypeOK, ThreadAt
<1>7. PointerOrder'
  BY <1>1, <1>2 DEF PointerOrder, Flushed, TypeOK
<1>8. ListReachesEnd'
  BY <1>1 DEF ListReachesEnd, PageOf
<1>9. ChunksDisjoint'
  BY <1>1, <1>2, PopKeepsDisjoint
<1>10. WrittenAreEvents'
  BY <1>1, <1>2 DEF WrittenAreEvents, Addr, PageOf
<1>11. MissKeepsApart'
  BY <1>1 DEF MissKeepsApart, SameAddress, Addr, PageOf
<1> QED BY <1>6, <1>7, <1>8, <1>9, <1>10, <1>11

LEMMA ReadFalseInvariant ==
  ASSUME IInv, ReadFalse
  PROVE  IInv'
<1> USE DEF IInv
<1>1. /\ UNCHANGED queueVars /\ UNCHANGED <<w, f, caller, event, isRunning>>
      /\ thread = "read" /\ thread' = "lock" /\ r' = c /\ c' = NULL
      /\ c = NULL \/ SameAddress(c, front)
  BY DEF ReadFalse, FindsNothing
<1>2. ListReachesEnd' /\ ChunksDisjoint' /\ WrittenAreEvents'
  BY <1>1, QueueStays
<1>3. TypeOK'
  BY <1>1 DEF TypeOK, queueVars, ThreadAt
<1>4. c = NULL \/ c = front
  BY <1>1, SameAddressSame DEF PointerOrder, Flushed, TypeOK
<1>5. PointerOrder'
  BY <1>1, <1>4 DEF PointerOrder, Flushed, TypeOK, queueVars
<1>6. MissKeepsApart'
  BY <1>1 DEF MissKeepsApart, SameAddress, Addr, PageOf, queueVars
<1> QED BY <1>2, <1>3, <1>5, <1>6

(* The other steps move only the two threads' positions.                   *)
LEMMA PositionsInvariant ==
  ASSUME IInv,
         \/ Notify \/ Stop \/ StopNotify \/ Join
         \/ OnMessage \/ Wait \/ SpuriousWakeup \/ TestRunning
         \/ UNCHANGED vars
  PROVE  IInv'
<1> USE DEF IInv
<1>1. UNCHANGED queueVars /\ UNCHANGED pipeVars /\ UNCHANGED event
  BY DEF Notify, Stop, StopNotify, Join, OnMessage, Wait, SpuriousWakeup,
         TestRunning, vars, threadVars
<1>2. ListReachesEnd' /\ ChunksDisjoint' /\ WrittenAreEvents'
  BY <1>1, QueueStays
<1>3. /\ caller' \in CallerAt /\ thread' \in ThreadAt /\ isRunning' \in BOOLEAN
      /\ thread' = "onMessage" => thread = "onMessage"
      /\ thread' = "pop" => thread = "pop"
      /\ thread' \in {"lock", "waiting"} => thread \in {"lock", "waiting"}
      /\ caller' = "set" => caller = "set"
  BY DEF Notify, Stop, StopNotify, Join, OnMessage, Wait, SpuriousWakeup,
         TestRunning, NotifyOne, vars, threadVars, TypeOK, CallerAt, ThreadAt
<1>4. TypeOK'
  BY <1>1, <1>3 DEF TypeOK, queueVars, pipeVars
<1>5. PointerOrder'
  BY <1>1, <1>3 DEF PointerOrder, Flushed, queueVars, pipeVars
<1>6. MissKeepsApart'
  BY <1>1, <1>3 DEF MissKeepsApart, SameAddress, Addr, PageOf, queueVars, pipeVars
<1> QED BY <1>2, <1>4, <1>5, <1>6

LEMMA NextInvariant == IInv /\ [Next]_vars => IInv'
BY AddEventInvariant, FlushInvariant, ReadTrueInvariant, PopFrontInvariant,
   ReadFalseInvariant, PositionsInvariant DEF Next, CallerStep, ThreadStep

LEMMA Invariant == Spec => []IInv
BY InitInvariant, NextInvariant, PTL DEF Spec

-----------------------------------------------------------------------------
(* Theorems about every behaviour.                                         *)

(* Every variable has its type: threadFunc gives onMessage events only.    *)
THEOREM TypeCorrect == Spec => []TypeOK
BY Invariant, PTL DEF IInv

(* No chunk serves two pages of the list at a time, and the spare chunk is *)
(* not in the list, for every chunk size and however malloc reuses chunks. *)
THEOREM DisjointChunks == Spec => []ChunksDisjoint
BY Invariant, PTL DEF IInv

(* threadFunc reads only events that were flushed, never the slot that     *)
(* addEvent is writing.                                                    *)
THEOREM FlushedReads == Spec => []ReadsOnlyFlushed
<1>1. IInv => ReadsOnlyFlushed
  <2> SUFFICES ASSUME IInv, thread = "pop"
               PROVE  front < Flushed /\ Addr(front) # Addr(back)
    BY DEF ReadsOnlyFlushed
  <2>1. front \in Nat /\ back \in Nat /\ front < Flushed /\ front < back
    BY DEF IInv, TypeOK, PointerOrder, Flushed
  <2>2. front \in front .. back + 1 /\ back \in front .. back + 1 /\ front # back
    BY <2>1
  <2> QED BY <2>1, <2>2, LiveSlotsApart DEF IInv
<1> QED BY <1>1, Invariant, PTL

(* A flush that swaps c, after which addEvent notifies nobody, finds the   *)
(* thread awake.                                                           *)
THEOREM SwapOnlyAwake == Spec => []SwapMeansAwake
<1>1. IInv => SwapMeansAwake
  BY DEF IInv, MissKeepsApart, SwapMeansAwake
<1> QED BY <1>1, Invariant, PTL

(* No step of either thread takes back an event that was flushed.          *)
THEOREM NoRetreat == Spec => FlushedNeverRetreats
<1>1. IInv /\ [Next]_vars => [Flushed' >= Flushed]_vars
  <2> SUFFICES ASSUME IInv, Next
               PROVE  Flushed' >= Flushed
    OBVIOUS
  <2> USE DEF IInv, TypeOK, PointerOrder, Flushed
  <2>1. CASE \E e \in Event : AddEvent(e)
    BY <2>1 DEF AddEvent, Write
  <2>2. CASE FlushTrue \/ FlushFalse \/ SetC
    BY <2>2, YQueueAssumption
       DEF FlushTrue, FlushFalse, SetC, FlushNothing, FlushSwap, FlushMiss,
           FlushSet, pipeVars, queueVars
  <2>3. CASE ReadTrue
    BY <2>3 DEF ReadTrue, HasPrefetched, Prefetch, pipeVars, queueVars
  <2>4. CASE PopFront
    BY <2>4 DEF PopFront, Pop, pipeVars
  <2>5. CASE ReadFalse
    <3>1. c = NULL \/ c = front
      BY <2>5, SameAddressSame DEF ReadFalse, FindsNothing
    <3> QED BY <2>5, <3>1 DEF ReadFalse, FindsNothing, queueVars
  <2>6. CASE \/ Notify \/ Stop \/ StopNotify \/ Join
             \/ OnMessage \/ Wait \/ SpuriousWakeup \/ TestRunning
    BY <2>6 DEF Notify, Stop, StopNotify, Join, OnMessage, Wait,
                SpuriousWakeup, TestRunning, pipeVars, queueVars
  <2> QED BY <2>1, <2>2, <2>3, <2>4, <2>5, <2>6 DEF Next, CallerStep, ThreadStep
<1> QED BY <1>1, Invariant, PTL DEF Spec, FlushedNeverRetreats

-----------------------------------------------------------------------------
(* The worker implements the hand-off of EventQueue.                       *)

LEMMA ContentsSeq ==
  ASSUME IInv
  PROVE  /\ Contents \in Seq(Event)
         /\ Len(Contents) = back - front
         /\ \A i \in 1 .. back - front : Contents[i] = mem[Addr(front + i - 1)]
<1>1. back - front \in Nat /\ front \in Nat /\ back \in Nat
  BY DEF IInv, TypeOK, PointerOrder, Flushed
<1>2. \A i \in 1 .. back - front : mem[Addr(front + i - 1)] \in Event
  <2> TAKE i \in 1 .. back - front
  <2>1. front + i - 1 \in front .. back - 1
    BY <1>1
  <2> QED BY <2>1 DEF IInv, WrittenAreEvents
<1> QED BY <1>1, <1>2 DEF Contents

(* addEvent's write puts the event at the end.                             *)
LEMMA AddEventAppends ==
  ASSUME IInv, NEW e \in Event, AddEvent(e)
  PROVE  Contents' = Append(Contents, e)
<1> DEFINE NewAddr(i) == <<chunk'[PageOf(i) + 1], i % N>>
<1>1. IInv' /\ Push /\ front' = front /\ mem' = [mem EXCEPT ![Addr(back)] = e]
  BY AddEventInvariant DEF AddEvent, Write
<1>2. front \in Nat /\ back \in Nat /\ front <= back /\ back' = back + 1
  BY <1>1, PushList DEF IInv, TypeOK, PointerOrder, Flushed
<1>3. mem \in [Address -> Event \cup {NULL}]
  BY DEF IInv, TypeOK
<1>4. \A i \in front .. back : /\ NewAddr(i) = Addr(i)
                               /\ Addr(i) \in Address
                               /\ i # back => Addr(i) # Addr(back)
  <2> TAKE i \in front .. back
  <2>1. i \in 0 .. back + 1 /\ i \in front .. back + 1 /\ back \in front .. back + 1
    BY <1>2
  <2>2. NewAddr(i) = Addr(i)
    BY <1>1, <2>1, PushKeepsAddr DEF Addr
  <2>3. Addr(i) \in Address
    BY <2>1, AddrIsAddress DEF IInv
  <2>4. i # back => Addr(i) # Addr(back)
    BY <2>1, LiveSlotsApart DEF IInv
  <2> QED BY <2>2, <2>3, <2>4
<1>5. \A i \in front .. back :
        mem'[NewAddr(i)] = IF i = back THEN e ELSE mem[Addr(i)]
  BY <1>1, <1>2, <1>3, <1>4
<1>6. Contents' = [i \in 1 .. (back + 1 - front) |-> mem'[NewAddr(front + i - 1)]]
  BY <1>1, <1>2 DEF Contents, Addr
<1> HIDE DEF NewAddr
<1>7. \A i \in 1 .. (back + 1 - front) :
        mem'[NewAddr(front + i - 1)] =
          IF i = back + 1 - front THEN e ELSE Contents[i]
  <2> TAKE i \in 1 .. (back + 1 - front)
  <2>1. front + i - 1 \in front .. back
    BY <1>2
  <2>2. front + i - 1 = back <=> i = back + 1 - front
    BY <1>2
  <2>3. i # back + 1 - front => Contents[i] = mem[Addr(front + i - 1)]
    BY <1>2, ContentsSeq
  <2> QED BY <1>5, <2>1, <2>2, <2>3
<1>8. Contents' = [i \in 1 .. Len(Contents) + 1 |->
                     IF i = Len(Contents) + 1 THEN e ELSE Contents[i]]
  <2>1. Len(Contents) + 1 = back + 1 - front
    BY <1>2, ContentsSeq
  <2> QED BY <1>6, <1>7, <2>1
<1>9. Contents' \in Seq(Event) /\ Len(Contents') = Len(Contents) + 1
  BY <1>8, ContentsSeq
<1>10. /\ Append(Contents, e) \in Seq(Event)
       /\ Len(Append(Contents, e)) = Len(Contents) + 1
       /\ \A i \in 1 .. Len(Contents) : Append(Contents, e)[i] = Contents[i]
       /\ Append(Contents, e)[Len(Contents) + 1] = e
  BY ContentsSeq, AppendProperties
<1>11. \A i \in 1 .. Len(Contents') : Contents'[i] = Append(Contents, e)[i]
  BY <1>8, <1>9, <1>10, ContentsSeq
<1> QED BY <1>9, <1>10, <1>11, SeqEqual

(* The thread's pop takes the event at the head.                           *)
LEMMA PopFrontTakes ==
  ASSUME IInv, PopFront
  PROVE  /\ Contents # <<>>
         /\ event' = Head(Contents)
         /\ Contents' = Tail(Contents)
<1>1. /\ Pop /\ UNCHANGED <<mem, chunk, back>> /\ event' = mem[Addr(front)]
      /\ front' = front + 1 /\ thread = "pop"
  BY DEF PopFront, Pop
<1>2. front \in Nat /\ back \in Nat /\ front < back
  BY <1>1 DEF IInv, TypeOK, PointerOrder, Flushed
<1>3. Contents' = [i \in 1 .. (back - (front + 1)) |-> mem[Addr((front + 1) + i - 1)]]
  BY <1>1 DEF Contents, Addr, PageOf
<1>4. Contents[1] = mem[Addr(front)]
  <2>1. 1 \in 1 .. back - front /\ front + 1 - 1 = front
    BY <1>2
  <2> QED BY <2>1, ContentsSeq
<1>5. \A i \in 1 .. (back - (front + 1)) : Contents[i + 1] = mem[Addr((front + 1) + i - 1)]
  <2> TAKE i \in 1 .. (back - (front + 1))
  <2>1. i + 1 \in 1 .. back - front /\ front + (i + 1) - 1 = (front + 1) + i - 1
    BY <1>2
  <2> QED BY <2>1, ContentsSeq
<1>6. Contents \in Seq(Event) /\ Len(Contents) = back - front /\ Contents # <<>>
  BY <1>2, ContentsSeq, EmptySeq
<1>7. /\ Tail(Contents) \in Seq(Event)
      /\ Len(Tail(Contents)) = back - (front + 1)
      /\ \A i \in 1 .. back - (front + 1) : Tail(Contents)[i] = Contents[i + 1]
  BY <1>2, <1>6, HeadTailProperties
<1>8. Contents' \in Seq(Event) /\ Len(Contents') = back - (front + 1)
  <2>1. back - (front + 1) \in Nat
    BY <1>2
  <2>2. \A i \in 1 .. back - (front + 1) : mem[Addr((front + 1) + i - 1)] \in Event
    <3> TAKE i \in 1 .. back - (front + 1)
    <3>1. i + 1 \in 1 .. Len(Contents)
      BY <1>2, <1>6
    <3>2. Contents[i + 1] \in Event
      BY <1>6, <3>1, ElementOfSeq
    <3> QED BY <1>5, <3>2
  <2> QED BY <1>3, <2>1, <2>2
<1>9. Contents' = Tail(Contents)
  BY <1>3, <1>5, <1>7, <1>8, SeqEqual
<1>10. Head(Contents) = Contents[1]
  BY <1>6
<1> QED BY <1>1, <1>4, <1>6, <1>9, <1>10

(* Every behaviour of the pipe, the wait and the two threads is one of the *)
(* hand-off: events are given to onMessage once each and in order.         *)
THEOREM Implements == Spec => ImplementsEventQueue
<1> USE DEF EQ!Spec, EQ!Init, EQ!Next, EQ!Add, EQ!Take, EQ!Finish, EQ!vars
<1>1. Init => EQ!Init
  <2> SUFFICES ASSUME Init PROVE EQ!Init
    OBVIOUS
  <2>1. IInv /\ front = 0 /\ back = 0 /\ thread = "read"
    BY InitInvariant DEF Init, PipeInit, QueueInit
  <2>2. Contents \in Seq(Event) /\ Len(Contents) = 0
    BY <2>1, ContentsSeq
  <2> QED BY <2>1, <2>2
<1>2. IInv /\ [Next]_vars => [EQ!Next]_EQ!vars
  <2> SUFFICES ASSUME IInv, [Next]_vars PROVE [EQ!Next]_EQ!vars
    OBVIOUS
  <2>1. CASE \E e \in Event : AddEvent(e)
    <3>1. PICK e \in Event : AddEvent(e)
      BY <2>1
    <3>2. Contents' = Append(Contents, e)
      BY <3>1, AddEventAppends
    <3>3. UNCHANGED <<thread, event>>
      BY <3>1 DEF AddEvent
    <3> QED BY <3>2, <3>3
  <2>2. CASE PopFront
    <3>1. thread = "pop" /\ thread' = "onMessage"
      BY <2>2 DEF PopFront
    <3> QED BY <2>2, <3>1, PopFrontTakes
  <2>3. CASE OnMessage
    <3>1. thread = "onMessage" /\ thread' = "test" /\ Contents' = Contents
      BY <2>3 DEF OnMessage, queueVars, Contents, Addr, PageOf
    <3> QED BY <3>1
  <2>4. CASE \/ CallerStep \/ Stop \/ SpuriousWakeup \/ ReadTrue \/ ReadFalse
             \/ Wait \/ TestRunning \/ UNCHANGED vars
    <3>1. /\ UNCHANGED <<queueVars, event>>
          /\ thread # "onMessage" => thread' # "onMessage"
          /\ thread = "onMessage" => thread' = "onMessage"
      BY <2>4 DEF CallerStep, FlushTrue, FlushFalse, SetC, Notify, StopNotify,
           Join, Stop, SpuriousWakeup, ReadTrue, ReadFalse, Wait, TestRunning,
           NotifyOne, FlushNothing, FlushSwap, FlushMiss, FlushSet,
           HasPrefetched, Prefetch, FindsNothing, vars, threadVars
    <3>2. Contents' = Contents
      BY <3>1 DEF queueVars, Contents, Addr, PageOf
    <3> QED BY <3>1, <3>2
  <2> QED BY <2>1, <2>2, <2>3, <2>4 DEF Next, ThreadStep
<1> QED BY <1>1, <1>2, Invariant, PTL DEF Spec, ImplementsEventQueue

=============================================================================
