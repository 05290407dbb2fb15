------------------------- MODULE NodeManager_proofs -------------------------
(***************************************************************************)
(* Three results about the cells of a pointer SNode, for any number of     *)
(* threads, slots, cells and tasks and on any arch.                        *)
(*                                                                         *)
(* GapsClosing (GapsInFlight): ptr2index finds the chunk of the pointer it *)
(* is asked for, and of an earlier chunk that is missing on its way every  *)
(* cell is in the hands of another thread that is about to allocate it.    *)
(* Chunks are allocated on first touch, by whoever reserved one of their   *)
(* cells, so that a chunk may exist before an earlier one.  The inductive  *)
(* invariant IInv says that the gaps are paid for: a cell without a chunk  *)
(* is in the hands of a thread that is about to touch it (Gaps), and cells *)
(* that were published, freed or recycled have their chunks (Typed, Mine). *)
(*                                                                         *)
(* Refinement: NodeManager implements CellStore.                           *)
(* OneOwnerEach: every cell has exactly one owner.  Both rest on Owned.    *)
(***************************************************************************)
EXTENDS NodeManager, FiniteSetTheorems, SequenceTheorems, TLAPS

Made == 0 .. num_elements - 1
Backed == {c \in Made : ChunkOf(c) \in chunks}

\* The labels between taking a slot's lock and releasing it.
Locked == {"take", "choose", "touch", "publish", "locate", "clear"}
Labels == Locked \cup {"idle", "lock", "delock"}

Typed ==
  /\ data \in [Slots -> Backed \cup {Null}]
  /\ lock \in [Slots -> BOOLEAN]
  /\ num_elements \in Nat
  /\ free_list \in Seq(Backed) /\ recycled_list \in Seq(Backed)
  /\ free_list_used \in Nat
  /\ pc \in [Threads -> Labels]
  /\ DOMAIN slot = Threads /\ DOMAIN cursor = Threads /\ DOMAIN cell = Threads

\* What a thread holds.
Mine ==
  \A t \in Threads :
    /\ pc[t] # "idle" => slot[t] \in Slots
    /\ pc[t] = "choose" => cursor[t] \in Nat
    /\ pc[t] = "touch" => cell[t] \in Made
    /\ pc[t] = "publish" => cell[t] \in Backed
    /\ pc[t] \in {"locate", "clear"} => data[slot[t]] # Null

Exclusive ==
  \A t \in Threads : pc[t] \in Locked =>
    /\ lock[slot[t]]
    /\ \A u \in Threads \ {t} : pc[u] \in Locked => slot[u] # slot[t]

Gaps ==
  \A c \in Made : ChunkOf(c) \notin chunks => \E t \in Threads : pc[t] = "touch" /\ cell[t] = c

Collecting ==
  /\ phase # "task" => \A t \in Threads : pc[t] = "idle"
  /\ phase = "gc0" => todo \subseteq 0 .. ItemsToCopy - 1
  /\ phase = "gc2" => todo \subseteq DOMAIN recycled_list

IInv == Typed /\ Mine /\ Exclusive /\ Gaps /\ Collecting

-----------------------------------------------------------------------------
LEMMA Multiples ==
  ASSUME NEW a \in Nat, NEW b \in Nat, NEW e \in Nat, a < b
  PROVE  a * e + e <= b * e
<1>1. \A d \in Nat : (a + 1 + d) * e = a * e + e + d * e
  OBVIOUS
<1>2. \A d \in Nat : d * e \in Nat
  OBVIOUS
<1>3. b - a - 1 \in Nat /\ a + 1 + (b - a - 1) = b
  OBVIOUS
<1>4. b * e = a * e + e + (b - a - 1) * e
  BY <1>1, <1>3
<1> QED
  BY <1>2, <1>3, <1>4

\* The cells of chunk k are those from k * ChunkElements on.
LEMMA ChunkArithmetic ==
  ASSUME NEW c \in Nat, NEW k \in Nat
  PROVE  /\ ChunkOf(c) \in Nat
         /\ k * ChunkElements <= c /\ c < k * ChunkElements + ChunkElements => ChunkOf(c) = k
         /\ k < ChunkOf(c) => k * ChunkElements + ChunkElements <= c
<1> DEFINE q == ChunkOf(c)
           e == ChunkElements
<1>1. e \in Nat \ {0}
  BY BoundsAssumption
<1>2. q \in Nat /\ q * e <= c /\ c < q * e + e
  BY <1>1 DEF ChunkOf
<1>3. k < q => k * e + e <= q * e
  BY <1>1, <1>2, Multiples
<1>4. q < k => q * e + e <= k * e
  BY <1>1, <1>2, Multiples
<1>5. k * e \in Nat /\ q * e \in Nat
  BY <1>1, <1>2
<1> HIDE DEF q, e
<1>6. k < q => k * e + e <= c
  BY <1>1, <1>2, <1>3, <1>5
<1>7. k * e <= c /\ c < k * e + e => q = k
  BY <1>1, <1>2, <1>3, <1>4, <1>5
<1> QED
  BY <1>2, <1>6, <1>7 DEF q, e

\* A chunk below that of a pointer is missing only while each of its cells,
\* all of them reserved before the pointer's, waits for its touch_chunk.
LEMMA InFlight == IInv => GapsInFlight
<1> SUFFICES ASSUME IInv, NEW t \in Threads, pc[t] = "locate"
             PROVE  /\ ChunkOf(data[slot[t]]) \in chunks
                    /\ \A k \in 0 .. ChunkOf(data[slot[t]]) \ chunks :
                         \A c \in CellsOf(k) : \E u \in Threads \ {t} : AboutToTouch(u, c)
  BY DEF GapsInFlight
<1> DEFINE v == data[slot[t]]
<1>1. v \in Nat /\ v < num_elements /\ ChunkOf(v) \in chunks /\ num_elements \in Nat
  BY DEF IInv, Typed, Mine, Backed, Made
<1>2. ASSUME NEW k \in 0 .. ChunkOf(v), k \notin chunks, NEW c \in CellsOf(k)
      PROVE  \E u \in Threads \ {t} : AboutToTouch(u, c)
  <2>1. k \in Nat /\ ChunkElements \in Nat \ {0} /\ k * ChunkElements \in Nat
    BY BoundsAssumption, <1>1, ChunkArithmetic
  <2>2. k < ChunkOf(v)
    BY <1>1, <1>2, <2>1, ChunkArithmetic
  <2>3. k * ChunkElements + ChunkElements <= v
    BY <1>1, <2>1, <2>2, ChunkArithmetic
  <2>4. c \in Nat /\ ChunkOf(c) = k
    BY <1>2, <2>1, ChunkArithmetic DEF CellsOf
  <2>5. c \in Made
    BY <1>1, <1>2, <2>1, <2>3 DEF Made, CellsOf
  <2> QED
    BY <1>2, <2>4, <2>5 DEF IInv, Gaps, AboutToTouch
<1> QED
  BY <1>1, <1>2
-----------------------------------------------------------------------------
LEMMA Initial == Init => IInv
<1> SUFFICES ASSUME Init
             PROVE  IInv
  OBVIOUS
<1>1. Typed
  BY EmptySeq DEF Init, Typed, Labels, Locked
<1>2. Made = {}
  BY DEF Init, Made
<1> QED
  BY <1>1, <1>2 DEF Init, IInv, Mine, Exclusive, Gaps, Collecting, Locked

USE DEF Goto, Return, Labels, Locked, lists, heap, kernel, locals

\* A loop body asks for a slot, or takes its lock and tests it again.
LEMMA Entering ==
  ASSUME IInv, NEW t \in Threads, NEW s \in Slots,
         Activate(t, s) \/ Deactivate(t, s) \/ ActivateLock(t) \/ DeactivateLock(t)
  PROVE  IInv'
<1>1. /\ UNCHANGED <<data, num_elements, chunks, free_list, free_list_used, recycled_list, phase, todo>>
      /\ DOMAIN slot' = Threads /\ DOMAIN cursor' = Threads /\ DOMAIN cell' = Threads
      /\ \A u \in Threads \ {t} : pc'[u] = pc[u] /\ slot'[u] = slot[u]
                                  /\ cursor'[u] = cursor[u] /\ cell'[u] = cell[u]
  BY DEF Activate, Deactivate, ActivateLock, DeactivateLock, IInv, Typed
<1>2. Backed' = Backed /\ Made' = Made
  BY <1>1 DEF Backed, Made
<1>3. phase = "task"
  BY DEF Activate, Deactivate, InTask, ActivateLock, DeactivateLock, IInv, Collecting
<1>4. CASE Activate(t, s) \/ Deactivate(t, s)
  <2>1. pc'[t] \in {"lock", "delock"} /\ slot'[t] = s /\ lock' = lock /\ pc' \in [Threads -> Labels]
        /\ pc[t] = "idle"
    BY <1>4 DEF Activate, Deactivate, IInv, Typed
  <2>2. Typed' /\ Exclusive'
    BY <1>1, <1>2, <2>1 DEF IInv, Typed, Exclusive
  <2>3. Mine' /\ Gaps'
    BY <1>1, <1>2, <2>1 DEF IInv, Typed, Mine, Gaps
  <2> QED
    BY <1>1, <1>3, <2>2, <2>3 DEF IInv, Collecting
<1>5. CASE ActivateLock(t) \/ DeactivateLock(t)
  <2>1. /\ pc[t] \in {"lock", "delock"} /\ slot[t] \in Slots /\ ~lock[slot[t]]
        /\ pc' \in [Threads -> Labels] /\ lock' \in [Slots -> BOOLEAN]
        /\ \/ pc'[t] = "idle" /\ lock' = lock
           \/ /\ pc'[t] \in {"take", "locate"} /\ slot' = slot
              /\ lock' = [lock EXCEPT ![slot[t]] = TRUE]
              /\ pc'[t] = "locate" => data[slot[t]] # Null
    BY <1>5 DEF ActivateLock, DeactivateLock, IInv, Typed, Mine
  <2>2. \A u \in Threads : pc[u] \in Locked => slot[u] # slot[t]
    BY <2>1 DEF IInv, Exclusive
  <2>3. Exclusive'
    BY <1>1, <2>1, <2>2 DEF IInv, Typed, Mine, Exclusive
  <2> QED
    BY <1>1, <1>2, <1>3, <2>1, <2>3 DEF IInv, Typed, Mine, Gaps, Collecting
<1> QED
  BY <1>4, <1>5

\* NodeManager::allocate draws a number.
LEMMA Drawing ==
  ASSUME IInv, NEW t \in Threads, TakeCursor(t)
  PROVE  IInv'
<1>1. Backed' = Backed /\ Made' = Made
  BY DEF TakeCursor, Backed, Made
<1>2. phase = "task" /\ pc[t] = "take"
  BY DEF TakeCursor, IInv, Collecting
<1>3. Typed'
  BY <1>1 DEF TakeCursor, IInv, Typed
<1>4. Mine' /\ Exclusive' /\ Gaps'
  BY <1>1, <1>2 DEF TakeCursor, IInv, Typed, Mine, Exclusive, Gaps
<1> QED
  BY <1>2, <1>3, <1>4 DEF TakeCursor, IInv, Collecting

\* The number is a place in the free list: the cell there has its chunk.
LEMMA Reusing ==
  ASSUME IInv, NEW t \in Threads, Reuse(t)
  PROVE  IInv'
<1>1. Backed' = Backed /\ Made' = Made
  BY DEF Reuse, Backed, Made
<1>2. phase = "task" /\ pc[t] = "choose"
  BY DEF Reuse, IInv, Collecting
<1>3. Free(cursor[t]) \in Backed
  <2>1. Len(free_list) \in Nat /\ cursor[t] \in Nat /\ cursor[t] < Len(free_list)
    BY <1>2, LenProperties DEF Reuse, IInv, Typed, Mine
  <2>2. cursor[t] + 1 \in 1 .. Len(free_list)
    BY <2>1
  <2> QED
    BY <2>2, ElementOfSeq DEF Free, IInv, Typed
<1>4. Typed' /\ Mine' /\ Exclusive' /\ Gaps'
  BY <1>1, <1>2, <1>3 DEF Reuse, IInv, Typed, Mine, Exclusive, Gaps
<1> QED
  BY <1>2, <1>4 DEF Reuse, IInv, Collecting

\* More cells and chunks leave what was typed well typed.
LEMMA Growing ==
  ASSUME IInv, Backed \subseteq Backed', UNCHANGED <<data, free_list, recycled_list>>
  PROVE  /\ data' \in [Slots -> Backed' \cup {Null}]
         /\ free_list' \in Seq(Backed') /\ recycled_list' \in Seq(Backed')
<1>1. data' \in [Slots -> Backed' \cup {Null}]
  BY DEF IInv, Typed
<1>2. free_list' \in Seq(Backed') /\ recycled_list' \in Seq(Backed')
  BY SeqMonotonic DEF IInv, Typed
<1> QED
  BY <1>1, <1>2

\* Or it is past the free list: the thread makes a cell, and owes it a chunk.
LEMMA Reserving ==
  ASSUME IInv, NEW t \in Threads, ReserveNew(t)
  PROVE  IInv'
<1>1. phase = "task" /\ pc[t] = "choose"
  BY DEF ReserveNew, IInv, Collecting
<1>2. Made' = Made \cup {num_elements} /\ Backed \subseteq Backed'
  BY DEF ReserveNew, Made, Backed, IInv, Typed
<1>3. Typed'
  BY <1>2, Growing DEF ReserveNew, IInv, Typed
<1>4. Mine' /\ Exclusive'
  BY <1>1, <1>2 DEF ReserveNew, IInv, Typed, Mine, Exclusive
<1>5. Gaps'
  <2>1. pc'[t] = "touch" /\ cell'[t] = num_elements
    BY DEF ReserveNew, IInv, Typed
  <2>2. \A u \in Threads : pc[u] = "touch" => pc'[u] = "touch" /\ cell'[u] = cell[u]
    BY <1>1 DEF ReserveNew, IInv, Typed
  <2> QED
    BY <1>2, <2>1, <2>2 DEF ReserveNew, IInv, Gaps
<1> QED
  BY <1>1, <1>3, <1>4, <1>5 DEF ReserveNew, IInv, Collecting

\* The debt is paid.
LEMMA Touching ==
  ASSUME IInv, NEW t \in Threads, TouchChunk(t)
  PROVE  IInv'
<1>1. phase = "task" /\ pc[t] = "touch" /\ cell[t] \in Made
  BY DEF TouchChunk, IInv, Collecting, Mine
<1>2. Made' = Made /\ Backed \subseteq Backed' /\ cell[t] \in Backed'
  BY <1>1 DEF TouchChunk, Made, Backed, ChunkOf
<1>3. Typed'
  BY <1>2, Growing DEF TouchChunk, IInv, Typed
<1>4. Mine' /\ Exclusive'
  BY <1>1, <1>2 DEF TouchChunk, IInv, Typed, Mine, Exclusive
<1>5. Gaps'
  BY <1>1, <1>2 DEF TouchChunk, IInv, Typed, Gaps
<1> QED
  BY <1>1, <1>3, <1>4, <1>5 DEF TouchChunk, IInv, Collecting

LEMMA Publishing ==
  ASSUME IInv, NEW t \in Threads, Publish(t)
  PROVE  IInv'
<1>1. phase = "task" /\ pc[t] = "publish" /\ cell[t] \in Backed /\ slot[t] \in Slots
  BY DEF Publish, IInv, Collecting, Mine
<1>2. Backed' = Backed /\ Made' = Made
  BY DEF Publish, Made, Backed
<1>3. Typed'
  BY <1>1, <1>2 DEF Publish, IInv, Typed
<1>4. Exclusive'
  BY <1>1, <1>3 DEF Publish, IInv, Typed, Mine, Exclusive
<1>5. Mine'
  <2>1. \A u \in Threads \ {t} : pc[u] \in {"locate", "clear"} => slot[u] # slot[t]
    BY <1>1 DEF IInv, Exclusive
  <2> QED
    BY <1>1, <1>2, <2>1 DEF Publish, IInv, Typed, Mine
<1>6. Gaps'
  BY <1>1, <1>2 DEF Publish, IInv, Typed, Gaps
<1> QED
  BY <1>1, <1>3, <1>4, <1>5, <1>6 DEF Publish, IInv, Collecting

\* Deactivation: the slot's cell, which has its chunk, goes to recycled_list ...
LEMMA Recycling ==
  ASSUME IInv, NEW t \in Threads, Recycle(t)
  PROVE  IInv'
<1>1. phase = "task" /\ pc[t] = "locate" /\ data[slot[t]] \in Backed
  BY DEF Recycle, IInv, Collecting, Mine, Typed
<1>2. Backed' = Backed /\ Made' = Made
  BY DEF Recycle, Made, Backed
<1>3. recycled_list' \in Seq(Backed)
  BY <1>1, AppendProperties DEF Recycle, IInv, Typed
<1>4. Typed'
  BY <1>2, <1>3 DEF Recycle, IInv, Typed
<1>5. Mine' /\ Exclusive' /\ Gaps'
  BY <1>1, <1>2 DEF Recycle, IInv, Typed, Mine, Exclusive, Gaps
<1> QED
  BY <1>1, <1>4, <1>5 DEF Recycle, IInv, Collecting

\* ... and the slot is cleared.
LEMMA Clearance ==
  ASSUME IInv, NEW t \in Threads, ClearSlot(t)
  PROVE  IInv'
<1>1. phase = "task" /\ pc[t] = "clear" /\ slot[t] \in Slots
  BY DEF ClearSlot, IInv, Collecting, Mine
<1>2. Backed' = Backed /\ Made' = Made
  BY DEF ClearSlot, Made, Backed
<1>3. Typed'
  BY <1>1, <1>2 DEF ClearSlot, IInv, Typed
<1>4. Exclusive'
  BY <1>1 DEF ClearSlot, IInv, Typed, Mine, Exclusive
<1>5. Mine'
  <2>1. \A u \in Threads \ {t} : pc[u] \in {"locate", "clear"} => slot[u] # slot[t]
    BY <1>1 DEF IInv, Exclusive
  <2> QED
    BY <1>1, <1>2, <2>1 DEF ClearSlot, IInv, Typed, Mine
<1>6. Gaps'
  BY <1>1, <1>2 DEF ClearSlot, IInv, Typed, Gaps
<1> QED
  BY <1>1, <1>3, <1>4, <1>5, <1>6 DEF ClearSlot, IInv, Collecting
-----------------------------------------------------------------------------
\* Collections move cells between the two lists, with every thread at rest.
LEMMA Resting ==
  ASSUME IInv, phase # "task" \/ TaskDone, Serial,
         free_list' \in Seq(Backed), recycled_list' \in Seq(Backed),
         free_list_used' \in Nat, Collecting'
  PROVE  IInv'
<1>1. \A t \in Threads : pc[t] = "idle"
  BY DEF TaskDone, IInv, Collecting
<1>2. Backed' = Backed /\ Made' = Made
  BY DEF Serial, Backed, Made
<1>3. Typed'
  BY <1>2 DEF Serial, IInv, Typed
<1> QED
  BY <1>1, <1>2, <1>3 DEF Serial, IInv, Mine, Exclusive, Gaps

\* Some stretch of the free list that lies within it.
LEMMA Stretch ==
  ASSUME NEW S, NEW s \in Seq(S), NEW m \in Nat \ {0}, NEW n \in Int, n <= Len(s)
  PROVE  SubSeq(s, m, n) \in Seq(S)
<1>1. Len(s) \in Nat
  BY LenProperties
<1>2. \A i \in m .. n : i \in 1 .. Len(s)
  BY <1>1
<1>3. \A i \in m .. n : s[i] \in S
  BY <1>2, ElementOfSeq
<1> QED
  BY <1>3, SubSeqProperties

LEMMA Collection ==
  ASSUME IInv, NextTask \/ Collect
  PROVE  IInv'
<1>1. /\ free_list \in Seq(Backed) /\ recycled_list \in Seq(Backed)
      /\ free_list_used \in Nat /\ Len(free_list) \in Nat
      /\ DOMAIN recycled_list = 1 .. Len(recycled_list) /\ Len(recycled_list) \in Nat
  BY LenProperties DEF IInv, Typed
<1>2. phase # "task" => \A t \in Threads : pc[t] = "idle"
  BY DEF IInv, Collecting
<1>3. TaskDone => phase = "task" /\ \A t \in Threads : pc[t] = "idle"
  BY DEF TaskDone, InTask
<1>4. CASE NextTask
  BY <1>1, <1>3, <1>4, Resting DEF NextTask, Serial, Collecting
<1>5. CASE CollectSerial
  <2>1. Compacted \in Seq(Backed)
    BY <1>1, Stretch DEF Compacted
  <2>2. free_list' \in Seq(Backed)
    BY <1>1, <1>5, <2>1, ConcatProperties DEF CollectSerial
  <2>3. Collecting'
    BY <1>3, <1>5 DEF CollectSerial, Serial, Collecting
  <2> QED
    BY <1>5, <2>2, <2>3, EmptySeq, Resting DEF CollectSerial
<1>6. CASE StartCollect
  <2>1. Collecting'
    BY <1>3, <1>6 DEF StartCollect, Serial, Collecting, ItemsToCopy, MovesRight, Unused
  <2> QED
    BY <1>1, <1>6, <2>1, Resting DEF StartCollect
<1>7. ASSUME NEW i \in todo, MoveFree(i)
      PROVE  IInv'
  <2>1. i \in 0 .. ItemsToCopy - 1 /\ todo \subseteq 0 .. ItemsToCopy - 1
    BY <1>7 DEF MoveFree, IInv, Collecting
  <2>2. i + 1 \in 1 .. Len(free_list) /\ SourceOf(i) + 1 \in 1 .. Len(free_list)
    BY <1>1, <2>1 DEF ItemsToCopy, SourceOf, MovesRight, Unused
  <2>3. Free(SourceOf(i)) \in Backed
    BY <1>1, <2>2, ElementOfSeq DEF Free
  <2>4. free_list' \in Seq(Backed) /\ Len(free_list') = Len(free_list)
    BY <1>1, <1>7, <2>2, <2>3, ExceptSeq DEF MoveFree
  <2>5. Collecting'
    BY <1>2, <1>7, <2>1, <2>4
    DEF MoveFree, Serial, Collecting, ItemsToCopy, MovesRight, Unused
  <2> QED
    BY <1>1, <1>7, <2>4, <2>5, Resting DEF MoveFree
<1>8. CASE ResetLists
  <2>1. free_list' \in Seq(Backed)
    BY <1>1, <1>8, Stretch DEF ResetLists, Unused
  <2>2. Collecting'
    BY <1>1, <1>2, <1>8 DEF ResetLists, Serial, Collecting
  <2> QED
    BY <1>1, <1>8, <2>1, <2>2, Resting DEF ResetLists
<1>9. ASSUME NEW i \in todo, FreeRecycled(i)
      PROVE  IInv'
  <2>1. i \in 1 .. Len(recycled_list) /\ todo \subseteq DOMAIN recycled_list
    BY <1>1, <1>9 DEF FreeRecycled, IInv, Collecting
  <2>2. recycled_list[i] \in Backed
    BY <1>1, <2>1, ElementOfSeq
  <2>3. free_list' \in Seq(Backed)
    BY <1>1, <1>9, <2>2, AppendProperties DEF FreeRecycled
  <2>4. Collecting'
    BY <1>2, <1>9, <2>1 DEF FreeRecycled, Serial, Collecting
  <2> QED
    BY <1>1, <1>9, <2>3, <2>4, Resting DEF FreeRecycled
<1>10. CASE EndCollect
  <2>1. Collecting'
    BY <1>2, <1>10 DEF EndCollect, Serial, Collecting
  <2> QED
    BY <1>1, <1>10, <2>1, EmptySeq, Resting DEF EndCollect
<1> QED
  BY <1>4, <1>5, <1>6, <1>7, <1>8, <1>9, <1>10 DEF Collect

LEMMA Inductive == IInv /\ [Next]_vars => IInv'
<1> SUFFICES ASSUME IInv, [Next]_vars
             PROVE  IInv'
  OBVIOUS
<1>1. ASSUME NEW t \in Threads, Begin(t)
      PROVE  IInv'
  BY <1>1, Entering DEF Begin
<1>2. ASSUME NEW t \in Threads, Continue(t)
      PROVE  IInv'
  <2>1. CASE ActivateLock(t) \/ DeactivateLock(t)
    <3>1. slot[t] \in Slots
      BY <2>1 DEF ActivateLock, DeactivateLock, IInv, Mine
    <3> QED
      BY <2>1, <3>1, Entering
  <2>2. CASE TakeCursor(t) \/ ReserveNew(t) \/ TouchChunk(t) \/ Reuse(t)
    BY <2>2, Drawing, Reserving, Touching, Reusing
  <2>3. CASE Publish(t) \/ Recycle(t) \/ ClearSlot(t)
    BY <2>3, Publishing, Recycling, Clearance
  <2> QED
    BY <1>2, <2>1, <2>2, <2>3 DEF Continue
<1>3. CASE UNCHANGED vars
  BY <1>3 DEF vars, IInv, Typed, Mine, Exclusive, Gaps, Collecting, Backed, Made,
     ItemsToCopy, MovesRight, Unused
<1> QED
  BY <1>1, <1>2, <1>3, Collection DEF Next, Terminated

\* The walk of ptr2index (runtime.cpp, ListManager), for any number of threads
\* and cells to a chunk: the pointer's chunk is there, and a gap before it, on
\* which "ptr not found." is reported, lasts only while as many other threads
\* as a chunk has cells are all between reserving one of them and touch_chunk.
THEOREM GapsClosing == Spec => []GapsInFlight
<1>1. IInv => GapsInFlight
  BY InFlight
<1> QED
  BY <1>1, Initial, Inductive, PTL DEF Spec

-----------------------------------------------------------------------------
(***************************************************************************)
(* NodeManager implements CellStore, for any number of threads, slots and  *)
(* cells, with the serial and with the parallel collection: a cell is      *)
(* handed to one slot at a time, zero-filled, and comes back only through  *)
(* a collection.  The invariant Owned follows a cell on its way:           *)
(*                                                                         *)
(*   Shelf     places of the free list that are still to be handed out;    *)
(*             while gc_parallel_0 runs, also those it has filled, without *)
(*             those it has emptied;                                       *)
(*   Hand      threads that hold a cell they have not published;           *)
(*   Held      cells in slots;                                             *)
(*   Awaiting  cells given back and not yet zero-filled.                   *)
(*                                                                         *)
(* Cells on the shelf and in hands are all different and clean, those in   *)
(* slots and those awaiting collection are different and dirty.            *)
(***************************************************************************)

Hand(t) ==
  pc[t] \in {"touch", "publish"} \/ (pc[t] = "choose" /\ cursor[t] < Len(free_list))
InHand(t) == IF pc[t] = "choose" THEN Free(cursor[t]) ELSE cell[t]

Moved == 0 .. ItemsToCopy - 1 \ todo
Emptied == {SourceOf(i) : i \in Moved}
Shelf ==
  LET Fresh == free_list_used .. Len(free_list) - 1
  IN IF phase = "gc0" THEN (Fresh \ Emptied) \cup Moved ELSE Fresh

Awaiting ==
  IF phase = "gc2" THEN {recycled_list[i] : i \in todo} ELSE ToSet(recycled_list)

Clean(c) == c \in Made \ used

Stocked ==
  /\ \A i, j \in Shelf : Free(i) = Free(j) => i = j
  /\ \A t, u \in Threads : Hand(t) /\ Hand(u) /\ InHand(t) = InHand(u) => t = u
  /\ \A t \in Threads, i \in Shelf : Hand(t) => InHand(t) # Free(i)
  /\ \A i \in Shelf : Clean(Free(i))
  /\ \A t \in Threads : Hand(t) => Clean(InHand(t))

HeldOnce ==
  /\ \A s, r \in Slots : data[s] = data[r] /\ data[s] # Null => s = r
  /\ Held \subseteq used
  /\ used \subseteq Made
  /\ \A t \in Threads : pc[t] \in {"take", "choose", "touch", "publish"} => data[slot[t]] = Null
  /\ \A t \in Threads : pc[t] = "choose" => cursor[t] < free_list_used

\* A slot's cell is in recycled_list exactly while some thread clears the slot.
Returning ==
  /\ \A i, j \in DOMAIN recycled_list : recycled_list[i] = recycled_list[j] => i = j
  /\ Awaiting \subseteq used
  /\ \A t \in Threads : pc[t] = "clear" => data[slot[t]] \in ToSet(recycled_list)
  /\ \A s \in Slots : data[s] \in ToSet(recycled_list) =>
       \E t \in Threads : pc[t] = "clear" /\ slot[t] = s

\* No cell is lost.
Kept ==
  /\ \A c \in Made \ used : \/ \E i \in Shelf : Free(i) = c
                           \/ \E t \in Threads : Hand(t) /\ InHand(t) = c
  /\ used \subseteq Held \cup Awaiting
  /\ phase = "gc2" => free_list_used = 0

Owned == Stocked /\ HeldOnce /\ Returning /\ Kept

\* There is a cell left for everyone who may still need a new one.
Needing ==
  {t \in Threads : pc[t] \in {"lock", "take"} \/ (pc[t] = "choose" /\ cursor[t] >= Len(free_list))}
Spare == (MaxCells - num_elements) + (IF Unused > 0 THEN Unused ELSE 0)
Room == num_elements <= MaxCells /\ Cardinality(Needing) <= Spare

-----------------------------------------------------------------------------
LEMMA InitialOwned == Init => Owned
<1> SUFFICES ASSUME Init
             PROVE  Owned
  OBVIOUS
<1>1. Made = {} /\ Held = {} /\ ToSet(recycled_list) = {} /\ Len(free_list) = 0
  BY EmptySeq DEF Init, Made, Held, ToSet
<1>2. Shelf = {} /\ \A t \in Threads : ~Hand(t)
  BY <1>1 DEF Init, Shelf, Hand
<1> QED
  BY <1>1, <1>2 DEF Init, Owned, Stocked, HeldOnce, Returning, Kept, Awaiting, Null

USE DEF Goto, Return, Labels, Locked, lists, heap, kernel, locals

\* What the steps of a single thread have in common.
LEMMA InTasks ==
  ASSUME IInv, NEW t \in Threads, pc[t] # "idle" \/ InTask
  PROVE  phase = "task" /\ Shelf = free_list_used .. Len(free_list) - 1
         /\ Awaiting = ToSet(recycled_list) /\ Returned = ToSet(recycled_list) \ Held
<1>1. phase = "task"
  BY DEF IInv, Collecting, InTask
<1> QED
  BY <1>1 DEF Shelf, Awaiting, Returned

Stutter == UNCHANGED <<Held, Returned, used>>

\* A loop body asks for a slot, or takes its lock and tests it again.
LEMMA EnteringOwned ==
  ASSUME IInv, Owned, NEW t \in Threads, NEW s \in Slots,
         Activate(t, s) \/ Deactivate(t, s) \/ ActivateLock(t) \/ DeactivateLock(t)
  PROVE  Owned' /\ Stutter
<1>1. /\ UNCHANGED <<data, num_elements, chunks, free_list, free_list_used, recycled_list, phase, todo, used>>
      /\ \A u \in Threads \ {t} : pc'[u] = pc[u] /\ slot'[u] = slot[u]
                                  /\ cursor'[u] = cursor[u] /\ cell'[u] = cell[u]
      /\ pc[t] \in {"idle", "lock", "delock"}
      /\ pc'[t] \in {"idle", "lock", "delock", "take", "locate"}
  BY DEF Activate, Deactivate, ActivateLock, DeactivateLock, IInv, Typed
<1>2. pc'[t] = "take" => data[slot'[t]] = Null
  BY DEF Activate, Deactivate, ActivateLock, DeactivateLock, IInv, Typed
<1>3. /\ Made' = Made /\ Held' = Held /\ Returned' = Returned
      /\ Awaiting' = Awaiting /\ ToSet(recycled_list)' = ToSet(recycled_list)
  BY <1>1 DEF Awaiting, Made, Held, Returned, ToSet
<1>4. /\ Shelf' = Shelf /\ \A i \in Shelf : Free(i)' = Free(i)
      /\ \A u \in Threads : (Hand(u)' <=> Hand(u)) /\ (Hand(u) => InHand(u)' = InHand(u))
  <2>1. Shelf' = Shelf /\ \A i \in Shelf : Free(i)' = Free(i)
    BY <1>1 DEF Shelf, Emptied, Moved, ItemsToCopy, MovesRight, Unused, SourceOf, Free
  <2>2. ~Hand(t) /\ ~Hand(t)'
    BY <1>1 DEF Hand
  <2>3. \A u \in Threads \ {t} : (Hand(u)' <=> Hand(u)) /\ InHand(u)' = InHand(u)
    BY <1>1 DEF Hand, InHand, Free
  <2> QED
    BY <2>1, <2>2, <2>3
<1>5. Stocked'
  BY <1>1, <1>3, <1>4 DEF Owned, Stocked, Clean
<1>6. HeldOnce'
  BY <1>1, <1>2, <1>3 DEF Owned, HeldOnce
<1>7. Returning'
  BY <1>1, <1>3 DEF Owned, Returning
<1>8. Kept'
  BY <1>1, <1>3, <1>4 DEF Owned, Kept
<1> QED
  BY <1>1, <1>3, <1>5, <1>6, <1>7, <1>8 DEF Owned, Stutter

LEMMA TakenCell ==
  ASSUME NEW t \in Threads
  PROVE  /\ pc[t] \in {"touch", "publish"} => Hand(t) /\ InHand(t) = cell[t]
         /\ pc'[t] \in {"touch", "publish"} => Hand(t)' /\ InHand(t)' = cell'[t]
<1>1. pc[t] # "choose" => InHand(t) = cell[t]
  BY Zenon DEF InHand
<1>2. pc'[t] # "choose" => InHand(t)' = cell'[t]
  BY Zenon DEF InHand
<1>3. pc[t] \in {"touch", "publish"} => Hand(t)
  BY DEF Hand
<1>4. pc'[t] \in {"touch", "publish"} => Hand(t)'
  BY DEF Hand
<1> QED
  BY <1>1, <1>2, <1>3, <1>4

\* What another thread has in hand does not change.
LEMMA OtherHands ==
  ASSUME NEW u \in Threads, free_list' = free_list,
         pc'[u] = pc[u], cursor'[u] = cursor[u], cell'[u] = cell[u]
  PROVE  (Hand(u)' <=> Hand(u)) /\ InHand(u)' = InHand(u)
BY DEF Hand, InHand, Free

\* NodeManager::allocate takes a cell from the shelf, or finds it empty.
LEMMA DrawingOwned ==
  ASSUME IInv, Owned, NEW t \in Threads, TakeCursor(t)
  PROVE  Owned' /\ Stutter
<1>1. /\ UNCHANGED <<data, num_elements, chunks, free_list, recycled_list, phase, todo, used, slot, cell>>
      /\ \A u \in Threads \ {t} : pc'[u] = pc[u] /\ cursor'[u] = cursor[u]
      /\ pc[t] = "take" /\ pc'[t] = "choose" /\ cursor'[t] = free_list_used
      /\ free_list_used' = free_list_used + 1 /\ free_list_used \in Nat
      /\ Len(free_list) \in Nat
  BY LenProperties DEF TakeCursor, IInv, Typed
<1>2. /\ Made' = Made /\ Held' = Held /\ Returned' = Returned /\ Awaiting' = Awaiting
      /\ ToSet(recycled_list)' = ToSet(recycled_list) /\ \A i : Free(i)' = Free(i)
  BY <1>1 DEF Awaiting, Made, Held, Returned, ToSet, Free
<1>3. Shelf = free_list_used .. Len(free_list) - 1
  BY <1>1, InTasks
<1>4. Shelf' = Shelf \ {free_list_used}
  <2>1. phase' = "task"
    BY <1>1 DEF IInv, Collecting
  <2> QED
    BY <1>1, <1>3, <2>1 DEF Shelf
<1>5. \A u \in Threads \ {t} : (Hand(u)' <=> Hand(u)) /\ InHand(u)' = InHand(u)
  BY <1>1, OtherHands
<1>6. (Hand(t)' <=> free_list_used \in Shelf) /\ InHand(t)' = Free(free_list_used)
  BY <1>1, <1>2, <1>3 DEF Hand, InHand
<1>7. Stocked'
  BY <1>1, <1>2, <1>4, <1>5, <1>6 DEF Owned, Stocked, Clean
<1>8. HeldOnce'
  <2>1. \A u \in Threads : pc[u] = "choose" => cursor[u] \in Nat /\ cursor[u] < free_list_used
    BY DEF Owned, HeldOnce, IInv, Mine
  <2>2. \A u \in Threads : pc'[u] = "choose" => cursor'[u] < free_list_used'
    BY <1>1, <2>1
  <2> QED
    BY <1>1, <1>2, <2>2 DEF Owned, HeldOnce
<1>9. Returning'
  BY <1>1, <1>2 DEF Owned, Returning
<1>10. Kept'
  <2>1. phase' = "task" /\ ~Hand(t)
    BY <1>1 DEF IInv, Collecting, Hand
  <2> QED
    BY <1>1, <1>2, <1>4, <1>5, <1>6, <2>1 DEF Owned, Kept
<1> QED
  BY <1>1, <1>2, <1>7, <1>8, <1>9, <1>10 DEF Owned, Stutter

\* A cell passes from the thread's place in the free list into its hands.
LEMMA ReusingOwned ==
  ASSUME IInv, Owned, NEW t \in Threads, Reuse(t)
  PROVE  Owned' /\ Stutter
<1>1. /\ UNCHANGED <<data, num_elements, chunks, free_list, free_list_used, recycled_list,
                    phase, todo, used, slot, cursor>>
      /\ \A u \in Threads \ {t} : pc'[u] = pc[u] /\ cell'[u] = cell[u]
      /\ pc[t] = "choose" /\ pc'[t] = "publish" /\ cell'[t] = Free(cursor[t])
      /\ cursor[t] < Len(free_list)
  BY DEF Reuse, IInv, Typed
<1>2. /\ Made' = Made /\ Held' = Held /\ Returned' = Returned /\ Awaiting' = Awaiting
      /\ ToSet(recycled_list)' = ToSet(recycled_list) /\ \A i : Free(i)' = Free(i)
  BY <1>1 DEF Awaiting, Made, Held, Returned, ToSet, Free
<1>3. Shelf' = Shelf
  BY <1>1 DEF Shelf, Emptied, Moved, ItemsToCopy, MovesRight, Unused, SourceOf
<1>4. \A u \in Threads : (Hand(u)' <=> Hand(u)) /\ InHand(u)' = InHand(u)
  <2>1. Hand(t) /\ Hand(t)' /\ InHand(t)' = InHand(t)
    BY <1>1 DEF Hand, InHand
  <2> QED
    BY <1>1, <2>1, OtherHands
<1>5. Stocked'
  BY <1>1, <1>2, <1>3, <1>4 DEF Owned, Stocked, Clean
<1>6. HeldOnce' /\ Returning'
  BY <1>1, <1>2 DEF Owned, HeldOnce, Returning
<1>7. Kept'
  BY <1>1, <1>2, <1>3, <1>4 DEF Owned, Kept
<1> QED
  BY <1>1, <1>2, <1>5, <1>6, <1>7 DEF Owned, Stutter

\* A new cell is nobody's.
LEMMA ReservingOwned ==
  ASSUME IInv, Owned, NEW t \in Threads, ReserveNew(t)
  PROVE  Owned' /\ Stutter
<1>1. /\ UNCHANGED <<data, chunks, free_list, free_list_used, recycled_list,
                    phase, todo, used, slot, cursor>>
      /\ \A u \in Threads \ {t} : pc'[u] = pc[u] /\ cell'[u] = cell[u]
      /\ pc[t] = "choose" /\ pc'[t] = "touch" /\ cell'[t] = num_elements
      /\ num_elements' = num_elements + 1 /\ num_elements \in Nat
  BY DEF ReserveNew, IInv, Typed
<1>2. /\ Held' = Held /\ Returned' = Returned /\ Awaiting' = Awaiting
      /\ ToSet(recycled_list)' = ToSet(recycled_list) /\ \A i : Free(i)' = Free(i)
  BY <1>1 DEF Awaiting, Held, Returned, ToSet, Free
<1>3. Made' = Made \cup {num_elements} /\ num_elements \notin Made
  BY <1>1 DEF Made
<1>4. Shelf' = Shelf
  BY <1>1 DEF Shelf, Emptied, Moved, ItemsToCopy, MovesRight, Unused, SourceOf
<1>5. \A u \in Threads \ {t} : (Hand(u)' <=> Hand(u)) /\ InHand(u)' = InHand(u)
  BY <1>1, OtherHands
<1>6. Hand(t)' /\ InHand(t)' = num_elements
  BY <1>1, TakenCell
<1>7. num_elements \notin used
  BY <1>3 DEF Owned, HeldOnce
<1>8. Stocked'
  BY <1>1, <1>2, <1>3, <1>4, <1>5, <1>6, <1>7 DEF Owned, Stocked, Clean
<1>9. HeldOnce' /\ Returning'
  BY <1>1, <1>2, <1>3 DEF Owned, HeldOnce, Returning
<1>10. Kept'
  <2>1. phase' = "task"
    BY <1>1 DEF IInv, Collecting
  <2>2. ~Hand(t)
    BY <1>1, LenProperties DEF Hand, ReserveNew, IInv, Mine, Typed
  <2> QED
    BY <1>1, <1>2, <1>3, <1>4, <1>5, <1>6, <2>1, <2>2 DEF Owned, Kept
<1> QED
  BY <1>1, <1>2, <1>8, <1>9, <1>10 DEF Owned, Stutter

LEMMA TouchingOwned ==
  ASSUME IInv, Owned, NEW t \in Threads, TouchChunk(t)
  PROVE  Owned' /\ Stutter
<1>1. /\ UNCHANGED <<data, num_elements, free_list, free_list_used, recycled_list,
                    phase, todo, used, slot, cursor, cell>>
      /\ \A u \in Threads \ {t} : pc'[u] = pc[u]
      /\ pc[t] = "touch" /\ pc'[t] = "publish"
  BY DEF TouchChunk, IInv, Typed
<1>2. /\ Made' = Made /\ Held' = Held /\ Returned' = Returned /\ Awaiting' = Awaiting
      /\ ToSet(recycled_list)' = ToSet(recycled_list) /\ \A i : Free(i)' = Free(i)
  BY <1>1 DEF Awaiting, Made, Held, Returned, ToSet, Free
<1>3. Shelf' = Shelf
  BY <1>1 DEF Shelf, Emptied, Moved, ItemsToCopy, MovesRight, Unused, SourceOf
<1>4. \A u \in Threads : (Hand(u)' <=> Hand(u)) /\ InHand(u)' = InHand(u)
  <2>1. Hand(t) /\ Hand(t)' /\ InHand(t)' = InHand(t)
    BY <1>1, TakenCell
  <2> QED
    BY <1>1, <2>1, OtherHands
<1>5. Stocked'
  BY <1>1, <1>2, <1>3, <1>4 DEF Owned, Stocked, Clean
<1>6. HeldOnce' /\ Returning'
  BY <1>1, <1>2 DEF Owned, HeldOnce, Returning
<1>7. Kept'
  BY <1>1, <1>2, <1>3, <1>4 DEF Owned, Kept
<1> QED
  BY <1>1, <1>2, <1>5, <1>6, <1>7 DEF Owned, Stutter

\* Storing the pointer is the abstract Take.
LEMMA PublishingOwned ==
  ASSUME IInv, Owned, NEW t \in Threads, Publish(t)
  PROVE  Owned' /\ (num_elements <= MaxCells => Store!Take(cell[t]))
<1> DEFINE c == cell[t]
<1>1. /\ UNCHANGED <<num_elements, free_list, free_list_used, recycled_list, phase, todo>>
      /\ \A u \in Threads \ {t} : pc'[u] = pc[u] /\ slot'[u] = slot[u]
                                  /\ cursor'[u] = cursor[u] /\ cell'[u] = cell[u]
      /\ pc[t] = "publish" /\ pc'[t] = "idle" /\ slot[t] \in Slots
      /\ data' = [data EXCEPT ![slot[t]] = c] /\ used' = used \cup {c}
  BY DEF Publish, IInv, Typed, Mine
<1>2. c \in Made \ used /\ c # Null
  <2>1. Hand(t) /\ InHand(t) = c
    BY <1>1, TakenCell
  <2> QED
    BY <2>1 DEF Owned, Stocked, Clean, Made, Null
<1>3. c \notin ToSet(recycled_list) /\ Awaiting = ToSet(recycled_list) /\ data[slot[t]] = Null
      /\ Returned = ToSet(recycled_list) \ Held /\ c \notin Held
  BY <1>1, <1>2, InTasks DEF Owned, Returning, HeldOnce
<1>4. /\ Made' = Made /\ Awaiting' = Awaiting /\ ToSet(recycled_list)' = ToSet(recycled_list)
      /\ \A i : Free(i)' = Free(i)
  BY <1>1 DEF Awaiting, Made, ToSet, Free
<1>5. /\ Held' = Held \cup {c} /\ \A s \in Slots \ {slot[t]} : data'[s] = data[s] /\ data'[s] # c
      /\ data'[slot[t]] = c
  BY <1>1, <1>2, <1>3 DEF Held, IInv, Typed
<1>6. Shelf' = Shelf
  BY <1>1 DEF Shelf, Emptied, Moved, ItemsToCopy, MovesRight, Unused, SourceOf
<1>7. (\A u \in Threads \ {t} : (Hand(u)' <=> Hand(u)) /\ InHand(u)' = InHand(u)) /\ ~Hand(t)'
  BY <1>1, OtherHands DEF Hand
<1>8. Hand(t) /\ InHand(t) = c
  BY <1>1, TakenCell
<1>9. Stocked'
  BY <1>1, <1>4, <1>6, <1>7, <1>8 DEF Owned, Stocked, Clean
<1>10. \A u \in Threads \ {t} : pc[u] \in Locked => slot[u] # slot[t] /\ slot[u] \in Slots
  BY <1>1 DEF IInv, Exclusive, Mine
<1>11. HeldOnce'
  BY <1>1, <1>2, <1>4, <1>5, <1>10 DEF Owned, HeldOnce
<1>12. Returning'
  BY <1>1, <1>3, <1>4, <1>5, <1>10 DEF Owned, Returning
<1>13. ASSUME num_elements <= MaxCells
       PROVE  Store!Take(c)
  <2>1. c \in Cells
    BY <1>2, <1>13, BoundsAssumption DEF Made, Cells, IInv, Typed
  <2>2. Returned' = Returned
    BY <1>1, <1>3, <1>4, <1>5, InTasks DEF Returned, IInv, Collecting
  <2> QED
    BY <1>1, <1>2, <1>3, <1>5, <2>1, <2>2 DEF Store!Take
<1>14. Kept'
  BY <1>1, <1>4, <1>5, <1>6, <1>7, <1>8 DEF Owned, Kept
<1> QED
  BY <1>9, <1>11, <1>12, <1>13, <1>14 DEF Owned

\* A slot's cell is noted in recycled_list while the slot still points to it.
LEMMA RecyclingOwned ==
  ASSUME IInv, Owned, NEW t \in Threads, Recycle(t)
  PROVE  Owned' /\ Stutter
<1> DEFINE c == data[slot[t]]
<1>1. /\ UNCHANGED <<data, num_elements, free_list, free_list_used, phase, todo, used,
                    slot, cursor, cell>>
      /\ \A u \in Threads \ {t} : pc'[u] = pc[u]
      /\ pc[t] = "locate" /\ pc'[t] = "clear" /\ slot[t] \in Slots
      /\ recycled_list' = Append(recycled_list, c)
      /\ recycled_list \in Seq(Backed) /\ c \in Backed
  BY DEF Recycle, IInv, Typed, Mine
<1>2. \A u \in Threads : pc[u] = "clear" => slot[u] # slot[t]
  BY <1>1 DEF IInv, Exclusive
<1>3. c \notin ToSet(recycled_list) /\ c \in Held /\ c \in used
  BY <1>1, <1>2 DEF Owned, Returning, HeldOnce, Held, Backed, Made, Null
<1>4. /\ Len(recycled_list) \in Nat /\ DOMAIN recycled_list = 1 .. Len(recycled_list)
      /\ DOMAIN recycled_list' = 1 .. Len(recycled_list) + 1
      /\ \A i \in 1 .. Len(recycled_list) : recycled_list'[i] = recycled_list[i]
      /\ recycled_list'[Len(recycled_list) + 1] = c
  BY <1>1, LenProperties, AppendProperties
<1>5. ToSet(recycled_list)' = ToSet(recycled_list) \cup {c}
  BY <1>4 DEF ToSet
<1>6. /\ Awaiting = ToSet(recycled_list) /\ Awaiting' = ToSet(recycled_list)'
      /\ Made' = Made /\ Held' = Held /\ Returned' = Returned /\ \A i : Free(i)' = Free(i)
  <2>1. phase = "task" /\ phase' = "task"
    BY <1>1, InTasks
  <2> QED
    BY <1>1, <1>3, <1>5, <2>1 DEF Awaiting, Made, Held, Returned, Free
<1>7. Shelf' = Shelf
  BY <1>1 DEF Shelf, Emptied, Moved, ItemsToCopy, MovesRight, Unused, SourceOf
<1>8. (\A u \in Threads \ {t} : (Hand(u)' <=> Hand(u)) /\ InHand(u)' = InHand(u)) /\ ~Hand(t)'
  BY <1>1, OtherHands DEF Hand
<1>9. Stocked'
  BY <1>1, <1>6, <1>7, <1>8 DEF Owned, Stocked, Clean
<1>10. HeldOnce'
  BY <1>1, <1>6 DEF Owned, HeldOnce
<1>11. Returning'
  <2>1. \A i, j \in DOMAIN recycled_list' : recycled_list'[i] = recycled_list'[j] => i = j
    <3>1. \A i \in 1 .. Len(recycled_list) : recycled_list[i] # c
      BY <1>3, <1>4 DEF ToSet
    <3>2. \A i, j \in 1 .. Len(recycled_list) : recycled_list[i] = recycled_list[j] => i = j
      BY <1>4 DEF Owned, Returning
    <3> QED
      BY <1>4, <3>1, <3>2
  <2>2. Awaiting' \subseteq used'
    BY <1>1, <1>3, <1>5, <1>6 DEF Owned, Returning
  <2>3. \A u \in Threads : pc'[u] = "clear" => data'[slot'[u]] \in ToSet(recycled_list)'
    BY <1>1, <1>5 DEF Owned, Returning
  <2>4. \A s \in Slots : data'[s] = c => s = slot[t]
    BY <1>1 DEF Owned, HeldOnce, Backed, Made, Null
  <2>5. \A s \in Slots : data'[s] \in ToSet(recycled_list)' =>
          \E u \in Threads : pc'[u] = "clear" /\ slot'[u] = s
    BY <1>1, <1>5, <2>4 DEF Owned, Returning
  <2> QED
    BY <2>1, <2>2, <2>3, <2>5 DEF Returning
<1>12. Kept'
  <2>1. ~Hand(t)
    BY <1>1 DEF Hand
  <2> QED
    BY <1>1, <1>5, <1>6, <1>7, <1>8, <2>1 DEF Owned, Kept
<1> QED
  BY <1>1, <1>6, <1>9, <1>10, <1>11, <1>12 DEF Owned, Stutter

\* Clearing the slot is the abstract Give.
LEMMA ClearanceOwned ==
  ASSUME IInv, Owned, NEW t \in Threads, ClearSlot(t)
  PROVE  Owned' /\ Store!Give(data[slot[t]])
<1> DEFINE c == data[slot[t]]
<1>1. /\ UNCHANGED <<num_elements, free_list, free_list_used, recycled_list, phase, todo, used>>
      /\ \A u \in Threads \ {t} : pc'[u] = pc[u] /\ slot'[u] = slot[u]
                                  /\ cursor'[u] = cursor[u] /\ cell'[u] = cell[u]
      /\ pc[t] = "clear" /\ pc'[t] = "idle" /\ slot[t] \in Slots
      /\ data' = [data EXCEPT ![slot[t]] = Null] /\ c # Null
  BY DEF ClearSlot, IInv, Typed, Mine
<1>2. c \in Held /\ c \in ToSet(recycled_list)
  BY <1>1 DEF Owned, Returning, Held
<1>3. \A u \in Threads \ {t} : pc[u] \in Locked => slot[u] # slot[t] /\ slot[u] \in Slots
  BY <1>1 DEF IInv, Exclusive, Mine
<1>4. /\ data'[slot[t]] = Null
      /\ \A s \in Slots \ {slot[t]} : data'[s] = data[s] /\ data[s] # c
  BY <1>1 DEF Owned, HeldOnce, IInv, Typed
<1>5. Held' = Held \ {c}
  BY <1>1, <1>4 DEF Held
<1>6. /\ Made' = Made /\ Awaiting' = Awaiting /\ ToSet(recycled_list)' = ToSet(recycled_list)
      /\ \A i : Free(i)' = Free(i)
  BY <1>1 DEF Awaiting, Made, ToSet, Free
<1>7. Returned = ToSet(recycled_list) \ Held /\ Returned' = ToSet(recycled_list) \ Held'
  <2>1. phase = "task" /\ phase' = "task"
    BY <1>1, InTasks
  <2> QED
    BY <1>6, <2>1 DEF Returned
<1>8. Shelf' = Shelf
  BY <1>1 DEF Shelf, Emptied, Moved, ItemsToCopy, MovesRight, Unused, SourceOf
<1>9. (\A u \in Threads \ {t} : (Hand(u)' <=> Hand(u)) /\ InHand(u)' = InHand(u)) /\ ~Hand(t)'
  BY <1>1, OtherHands DEF Hand
<1>10. Stocked'
  BY <1>1, <1>6, <1>8, <1>9 DEF Owned, Stocked, Clean
<1>11. HeldOnce'
  BY <1>1, <1>3, <1>4, <1>5, <1>6 DEF Owned, HeldOnce
<1>12. Null \notin ToSet(recycled_list)
  <2>1. \A i \in DOMAIN recycled_list : recycled_list[i] \in Backed
    BY ElementOfSeq, LenProperties DEF IInv, Typed
  <2> QED
    BY <2>1 DEF ToSet, Backed, Made, Null
<1>13. Returning'
  BY <1>1, <1>3, <1>4, <1>6, <1>12 DEF Owned, Returning
<1>14. Store!Give(c)
  BY <1>1, <1>2, <1>5, <1>7 DEF Store!Give
<1>15. Kept'
  <2>1. ~Hand(t) /\ Awaiting = ToSet(recycled_list)
    BY <1>1, InTasks DEF Hand
  <2> QED
    BY <1>1, <1>2, <1>5, <1>6, <1>8, <1>9, <2>1 DEF Owned, Kept
<1> QED
  BY <1>10, <1>11, <1>13, <1>14, <1>15 DEF Owned
-----------------------------------------------------------------------------
\* With every thread at rest nobody has a cell in hand or clears a slot.
LEMMA AtRest ==
  ASSUME IInv, Owned, Serial, phase # "task" \/ TaskDone
  PROVE  /\ \A t \in Threads : pc[t] = "idle" /\ pc'[t] = "idle" /\ ~Hand(t)'
         /\ Made' = Made /\ Held' = Held /\ data' = data
         /\ Held \cap ToSet(recycled_list) = {} /\ Null \notin ToSet(recycled_list)
<1>1. \A t \in Threads : pc[t] = "idle"
  BY DEF TaskDone, IInv, Collecting
<1>2. \A t \in Threads : pc'[t] = "idle"
  BY <1>1 DEF Serial
<1>3. \A t \in Threads : ~Hand(t)'
  BY <1>2 DEF Hand
<1>4. \A i \in DOMAIN recycled_list : recycled_list[i] \in Backed
  BY ElementOfSeq, LenProperties DEF IInv, Typed
<1>5. Null \notin ToSet(recycled_list)
  BY <1>4 DEF ToSet, Backed, Made, Null
<1>6. Held \cap ToSet(recycled_list) = {}
  BY <1>1 DEF Owned, Returning, Held
<1> QED
  BY <1>1, <1>2, <1>3, <1>5, <1>6 DEF Serial, Made, Held

\* Then the shelf, the dirty cells and recycled_list are all that may be wrong.
LEMMA RestOwned ==
  ASSUME IInv, Owned, Serial, phase # "task" \/ TaskDone,
         used' \subseteq used, Held \subseteq used',
         \A i, j \in Shelf' : Free(i)' = Free(j)' => i = j,
         \A i \in Shelf' : Free(i)' \in Made \ used',
         \A i, j \in DOMAIN recycled_list' : recycled_list'[i] = recycled_list'[j] => i = j,
         Awaiting' \subseteq used', ToSet(recycled_list)' \subseteq ToSet(recycled_list),
         \A c \in Made \ used' : \E i \in Shelf' : Free(i)' = c,
         used' \subseteq Held \cup Awaiting',
         phase' = "gc2" => free_list_used' = 0
  PROVE  Owned'
<1>1. Stocked'
  BY AtRest DEF Stocked, Clean
<1>2. HeldOnce'
  BY AtRest DEF Owned, HeldOnce
<1>3. \A s \in Slots : data'[s] \notin ToSet(recycled_list)'
  BY AtRest DEF Held
<1>4. Returning'
  BY AtRest, <1>3 DEF Returning
<1>5. Kept'
  BY AtRest DEF Kept
<1> QED
  BY <1>1, <1>2, <1>4, <1>5 DEF Owned

\* With every thread at rest the clean cells are on the shelf.
LEMMA AllShelved ==
  ASSUME IInv, Owned, phase # "task" \/ TaskDone
  PROVE  /\ \A c \in Made \ used : \E i \in Shelf : Free(i) = c
         /\ used \subseteq Held \cup Awaiting
         /\ phase = "gc2" => free_list_used = 0
<1>1. \A t \in Threads : pc[t] = "idle"
  BY DEF TaskDone, IInv, Collecting
<1>2. \A t \in Threads : ~Hand(t)
  BY <1>1 DEF Hand
<1> QED
  BY <1>2 DEF Owned, Kept

CleanSome == \E cs \in SUBSET Returned : Store!Clean(cs)

\* A task that deactivated nothing; gc_serial.
LEMMA SerialOwned ==
  ASSUME IInv, Owned, NextTask \/ CollectSerial
  PROVE  Owned' /\ (Stutter \/ CleanSome)
<1>1. TaskDone /\ Serial /\ phase = "task" /\ phase' = "task"
  BY DEF NextTask, CollectSerial, TaskDone, InTask
<1>2. /\ free_list \in Seq(Backed) /\ recycled_list \in Seq(Backed)
      /\ free_list_used \in Nat /\ Len(free_list) \in Nat
      /\ DOMAIN recycled_list = 1 .. Len(recycled_list) /\ Len(recycled_list) \in Nat
      /\ Shelf = free_list_used .. Len(free_list) - 1
      /\ Returned = ToSet(recycled_list) \ Held /\ Awaiting = ToSet(recycled_list)
  BY <1>1, LenProperties DEF IInv, Typed, Shelf, Returned, Awaiting
<1>3. /\ \A i, j \in Shelf : Free(i) = Free(j) => i = j
      /\ \A i \in Shelf : Free(i) \in Made \ used
      /\ \A i, j \in DOMAIN recycled_list : recycled_list[i] = recycled_list[j] => i = j
      /\ ToSet(recycled_list) \subseteq used /\ Held \subseteq used /\ used \subseteq Made
  BY <1>2 DEF Owned, Stocked, Clean, HeldOnce, Returning
<1>4. Held' = Held /\ Held \cap ToSet(recycled_list) = {}
  BY <1>1, AtRest
<1>5. Shelf' = free_list_used' .. Len(free_list') - 1 /\ Awaiting' = ToSet(recycled_list)'
      /\ Returned' = ToSet(recycled_list)' \ Held
  BY <1>1, <1>4 DEF Shelf, Awaiting, Returned
<1>6. CASE NextTask
  <2>1. UNCHANGED <<used, free_list, free_list_used, recycled_list>>
    BY <1>6 DEF NextTask
  <2>2. ToSet(recycled_list)' = ToSet(recycled_list) /\ \A i : Free(i)' = Free(i)
    BY <2>1 DEF ToSet, Free
  <2>3. Owned'
    BY <1>1, <1>2, <1>3, <1>5, <2>1, <2>2, AllShelved, RestOwned
  <2> QED
    BY <1>2, <1>4, <1>5, <2>1, <2>2, <2>3 DEF Stutter
<1>7. CASE CollectSerial
  <2> DEFINE L == Len(Compacted)
  <2>1. /\ free_list' = Compacted \o recycled_list /\ free_list_used' = 0
        /\ recycled_list' = <<>> /\ used' = used \ ToSet(recycled_list)
    BY <1>7 DEF CollectSerial
  <2>2. Compacted \in Seq(Backed)
    BY <1>2, Stretch DEF Compacted
  <2>3. /\ L \in Nat
        /\ \A i \in 0 .. L - 1 : /\ free_list_used + i \in Shelf
                                 /\ Compacted[i + 1] = Free(free_list_used + i)
    <3>1. \A k \in free_list_used + 1 .. Len(free_list) : free_list[k] \in Backed
      BY <1>2, ElementOfSeq
    <3>2. /\ L = IF free_list_used + 1 <= Len(free_list) THEN Len(free_list) - free_list_used ELSE 0
          /\ \A k \in 1 .. Len(free_list) - free_list_used :
               Compacted[k] = free_list[free_list_used + 1 + k - 1]
      BY <1>2, <3>1, SubSeqProperties, SMTT(30) DEF Compacted
    <3>3. L \in Nat /\ \A i \in 0 .. L - 1 : i \in Nat /\ free_list_used + i \in Shelf
                                          /\ i + 1 \in 1 .. Len(free_list) - free_list_used
      BY <1>2, <3>2
    <3>4. \A i \in 0 .. L - 1 : Compacted[i + 1] = free_list[free_list_used + i + 1]
      <4> SUFFICES ASSUME NEW i \in 0 .. L - 1
                   PROVE  Compacted[i + 1] = free_list[free_list_used + i + 1]
        OBVIOUS
      <4>1. Compacted[i + 1] = free_list[free_list_used + 1 + (i + 1) - 1]
        BY <3>2, <3>3
      <4>2. free_list_used + 1 + (i + 1) - 1 = free_list_used + i + 1
        BY <1>2, <3>3
      <4> QED
        BY <4>1, <4>2
    <3> QED
      BY <3>3, <3>4 DEF Free
  <2>4. free_list_used <= Len(free_list) => L = Len(free_list) - free_list_used
    <3>1. \A k \in free_list_used + 1 .. Len(free_list) : free_list[k] \in Backed
      BY <1>2, ElementOfSeq
    <3>2. L = IF free_list_used + 1 <= Len(free_list) THEN Len(free_list) - free_list_used ELSE 0
      BY <1>2, <3>1, SubSeqProperties, SMTT(30) DEF Compacted
    <3> QED
      BY <1>2, <3>2
  <2>5. /\ Len(free_list') = L + Len(recycled_list)
        /\ \A k \in 1 .. L + Len(recycled_list) :
             free_list'[k] = IF k <= L THEN Compacted[k] ELSE recycled_list[k - L]
    BY <1>2, <2>1, <2>2, ConcatProperties
  <2> HIDE DEF L
  <2>6. \A i \in Shelf' : /\ i < L => Free(i)' = Free(free_list_used + i)
                          /\ i >= L => /\ Free(i)' = recycled_list[(i + 1) - L]
                                       /\ (i + 1) - L \in DOMAIN recycled_list
    <3> SUFFICES ASSUME NEW i \in Shelf'
                 PROVE  /\ i < L => Free(i)' = Free(free_list_used + i)
                        /\ i >= L => /\ Free(i)' = recycled_list[(i + 1) - L]
                                     /\ (i + 1) - L \in DOMAIN recycled_list
      OBVIOUS
    <3>1. i \in Nat /\ i + 1 \in 1 .. L + Len(recycled_list)
      BY <1>2, <1>5, <2>1, <2>3, <2>5
    <3>2. Free(i)' = free_list'[i + 1]
      BY DEF Free
    <3>3. i < L => i + 1 <= L /\ i \in 0 .. L - 1
      BY <2>3, <3>1
    <3>4. i >= L => ~(i + 1 <= L) /\ (i + 1) - L \in 1 .. Len(recycled_list)
      BY <1>2, <2>3, <3>1
    <3>5. i < L => free_list'[i + 1] = Compacted[i + 1]
      BY <2>5, <3>1, <3>3
    <3>6. ~(i + 1 <= L) => free_list'[i + 1] = recycled_list[(i + 1) - L]
      BY <2>5, <3>1, Zenon
    <3> QED
      BY <1>2, <2>3, <3>2, <3>3, <3>4, <3>5, <3>6
  <2>7. \A i \in Shelf' : /\ i \in Nat
                          /\ i < L => free_list_used + i \in Shelf /\ Free(i)' \notin used
                          /\ i >= L => Free(i)' \in used \cap ToSet(recycled_list)
    <3> SUFFICES ASSUME NEW i \in Shelf'
                 PROVE  /\ i \in Nat
                        /\ i < L => free_list_used + i \in Shelf /\ Free(i)' \notin used
                        /\ i >= L => Free(i)' \in used \cap ToSet(recycled_list)
      OBVIOUS
    <3>1. i \in Nat /\ (i < L => i \in 0 .. L - 1)
      BY <1>5, <2>1, <2>3
    <3>2. \A k \in DOMAIN recycled_list : recycled_list[k] \in ToSet(recycled_list)
      BY DEF ToSet
    <3>3. i >= L => Free(i)' \in ToSet(recycled_list)
      BY <2>3, <2>6, <3>1, <3>2
    <3>4. i < L => free_list_used + i \in Shelf /\ Free(i)' \notin used
      <4>1. i < L => free_list_used + i \in Shelf
        BY <2>3, <3>1
      <4>2. i < L => Free(i)' = Free(free_list_used + i)
        BY <2>6
      <4> QED
        BY <1>3, <4>1, <4>2
    <3> QED
      BY <1>3, <3>1, <3>3, <3>4
  <2>8. \A i \in Shelf' : Free(i)' \in Made \ used'
    <3> SUFFICES ASSUME NEW i \in Shelf'
                 PROVE  Free(i)' \in Made \ used'
      OBVIOUS
    <3>1. i \in Nat
      BY <2>7
    <3>2. CASE i < L
      <4>1. Free(i)' = Free(free_list_used + i) /\ free_list_used + i \in Shelf
        BY <2>6, <2>7, <3>2
      <4> QED
        BY <1>3, <2>1, <4>1
    <3>3. CASE i >= L
      BY <1>3, <2>1, <2>7, <3>3
    <3> QED
      BY <2>3, <3>1, <3>2, <3>3
  <2>9. \A i, j \in Shelf' : Free(i)' = Free(j)' => i = j
    <3> SUFFICES ASSUME NEW i \in Shelf', NEW j \in Shelf', Free(i)' = Free(j)'
                 PROVE  i = j
      OBVIOUS
    <3>1. i \in Nat /\ j \in Nat
      BY <2>7
    <3>2. CASE i < L /\ j < L
      <4>1. Free(free_list_used + i) = Free(free_list_used + j)
        BY <2>6, <3>2, Zenon
      <4>2. free_list_used + i = free_list_used + j
        BY <1>3, <2>7, <3>2, <4>1
      <4> QED
        BY <1>2, <3>1, <4>2
    <3>3. CASE i >= L /\ j >= L
      <4>1. recycled_list[(i + 1) - L] = recycled_list[(j + 1) - L]
        BY <2>6, <3>3
      <4>2. (i + 1) - L \in DOMAIN recycled_list /\ (j + 1) - L \in DOMAIN recycled_list
        BY <2>6, <3>3, Zenon
      <4>3. (i + 1) - L = (j + 1) - L
        BY <1>3, <4>1, <4>2, Zenon
      <4> QED
        BY <2>3, <3>1, <4>3
    <3>4. CASE (i < L /\ j >= L) \/ (i >= L /\ j < L)
      BY <2>7, <3>4
    <3> QED
      BY <2>3, <3>1, <3>2, <3>3, <3>4
  <2>10. ToSet(recycled_list)' = {} /\ DOMAIN recycled_list' = {}
    BY <2>1, EmptySeq DEF ToSet
  <2>11. ASSUME NEW c \in Made \ used'
         PROVE  \E i \in Shelf' : Free(i)' = c
    <3>1. Shelf' = 0 .. (L + Len(recycled_list)) - 1
      BY <1>5, <2>1, <2>5
    <3>2. CASE c \in ToSet(recycled_list)
      <4>1. PICK k \in 1 .. Len(recycled_list) : recycled_list[k] = c
        BY <1>2, <3>2 DEF ToSet
      <4>2. /\ (L + k) - 1 \in Shelf' /\ (L + k) - 1 >= L
            /\ (((L + k) - 1) + 1) - L = k
        BY <1>2, <2>3, <3>1, <4>1
      <4> QED
        BY <2>6, <4>1, <4>2
    <3>3. CASE c \notin ToSet(recycled_list)
      <4>1. c \in Made \ used
        BY <2>1, <2>11, <3>3
      <4>2. PICK j \in Shelf : Free(j) = c
        BY <1>1, <4>1, AllShelved
      <4>3. /\ j - free_list_used \in Shelf' /\ j - free_list_used < L
            /\ free_list_used + (j - free_list_used) = j
        <5>1. j \in Int /\ free_list_used <= j /\ j <= Len(free_list) - 1
          BY <1>2, <4>2
        <5>2. L = Len(free_list) - free_list_used
          BY <1>2, <2>2, <2>4, <5>1
        <5> QED
          BY <1>2, <3>1, <5>1, <5>2
      <4> QED
        BY <2>6, <4>2, <4>3
    <3> QED
      BY <3>2, <3>3
  <2>12. used' \subseteq Held \cup Awaiting'
    BY <1>1, <1>2, <2>1, AllShelved
  <2>13. Owned'
    BY <1>1, <1>3, <1>4, <1>5, <2>1, <2>8, <2>9, <2>10, <2>11, <2>12, RestOwned
  <2>14. Returned = ToSet(recycled_list) /\ Returned' = {}
    BY <1>2, <1>4, <1>5, <2>10
  <2>15. CASE ToSet(recycled_list) = {}
    BY <1>4, <2>1, <2>13, <2>14, <2>15 DEF Stutter
  <2>16. CASE ToSet(recycled_list) # {}
    <3>1. Store!Clean(ToSet(recycled_list))
      BY <1>4, <2>1, <2>14, <2>16 DEF Store!Clean
    <3> QED
      BY <2>13, <2>14, <3>1 DEF CleanSome
  <2> QED
    BY <2>15, <2>16
<1> QED
  BY <1>6, <1>7

\* The threads of gc_parallel_0 start.
LEMMA StartOwned ==
  ASSUME IInv, Owned, StartCollect
  PROVE  Owned' /\ Stutter
<1>1. /\ TaskDone /\ Serial /\ phase = "task" /\ phase' = "gc0"
      /\ UNCHANGED <<used, free_list, free_list_used, recycled_list>>
      /\ todo' = 0 .. ItemsToCopy - 1
  BY DEF StartCollect, TaskDone, InTask, lists
<1>2. Moved' = {}
  BY <1>1 DEF Moved, ItemsToCopy, MovesRight, Unused
<1>3. Emptied' = {}
  BY <1>2 DEF Emptied
<1>4. Shelf' = Shelf
  BY <1>1, <1>2, <1>3 DEF Shelf
<1>5. /\ \A i : Free(i)' = Free(i)
      /\ Awaiting' = Awaiting /\ ToSet(recycled_list)' = ToSet(recycled_list)
  BY <1>1 DEF Free, Awaiting, ToSet
<1>6. Made' = Made /\ Held' = Held /\ Returned' = Returned
  BY <1>1, <1>5, AtRest DEF Returned
<1>7. Owned'
  <2>1. /\ \A i, j \in Shelf : Free(i) = Free(j) => i = j
        /\ \A i \in Shelf : Free(i) \in Made \ used
        /\ \A i, j \in DOMAIN recycled_list : recycled_list[i] = recycled_list[j] => i = j
        /\ Awaiting \subseteq used /\ Held \subseteq used
    BY DEF Owned, Stocked, Clean, HeldOnce, Returning
  <2> QED
    BY <1>1, <1>4, <1>5, <1>6, <2>1, AllShelved, RestOwned
<1> QED
  BY <1>1, <1>6, <1>7 DEF Stutter

\* Where a thread of gc_parallel_0 takes its element from: a place of its own
\* that no other thread fills.
LEMMA Sources ==
  ASSUME IInv, NEW i \in 0 .. ItemsToCopy - 1
  PROVE  /\ i \in Nat /\ i < Len(free_list) /\ i < free_list_used
         /\ SourceOf(i) \in free_list_used .. Len(free_list) - 1
         /\ SourceOf(i) \notin 0 .. ItemsToCopy - 1
         /\ \A j \in 0 .. ItemsToCopy - 1 : SourceOf(j) = SourceOf(i) => j = i
<1>1. Len(free_list) \in Nat /\ free_list_used \in Nat
  BY LenProperties DEF IInv, Typed
<1>2. CASE MovesRight
  BY <1>1, <1>2 DEF ItemsToCopy, Unused, SourceOf, MovesRight
<1>3. CASE ~MovesRight
  BY <1>1, <1>3 DEF ItemsToCopy, Unused, SourceOf, MovesRight
<1> QED
  BY <1>2, <1>3

\* One of them moves its element.
LEMMA MovingOwned ==
  ASSUME IInv, Owned, NEW i \in todo, MoveFree(i)
  PROVE  Owned' /\ Stutter
<1> DEFINE from == SourceOf(i)
<1>1. /\ Serial /\ phase = "gc0" /\ phase' = "gc0" /\ todo' = todo \ {i}
      /\ UNCHANGED <<used, free_list_used, recycled_list>>
      /\ free_list' = [free_list EXCEPT ![i + 1] = Free(from)]
  BY DEF MoveFree
<1>2. todo \subseteq 0 .. ItemsToCopy - 1 /\ i \in 0 .. ItemsToCopy - 1
  BY <1>1 DEF IInv, Collecting
<1>3. /\ Len(free_list') = Len(free_list) /\ free_list \in Seq(Backed)
      /\ free_list_used \in Nat /\ Len(free_list) \in Nat
      /\ DOMAIN free_list = 1 .. Len(free_list)
  <2>1. i + 1 \in 1 .. Len(free_list) /\ from + 1 \in 1 .. Len(free_list)
        /\ free_list \in Seq(Backed) /\ Len(free_list) \in Nat /\ free_list_used \in Nat
    <3>1. Len(free_list) \in Nat /\ free_list \in Seq(Backed) /\ free_list_used \in Nat
      BY LenProperties DEF IInv, Typed
    <3> HIDE DEF from
    <3>2. from \in free_list_used .. Len(free_list) - 1 /\ i \in Nat /\ i < Len(free_list)
      BY <1>2, Sources DEF from
    <3> QED
      BY <3>1, <3>2
  <2>2. Free(from) \in Backed
    BY <2>1, ElementOfSeq DEF Free
  <2> QED
    BY <1>1, <2>1, <2>2, ExceptSeq, LenProperties
<1>4. /\ ItemsToCopy' = ItemsToCopy /\ Unused' = Unused
      /\ \A j \in 0 .. ItemsToCopy - 1 : SourceOf(j)' = SourceOf(j)
  BY <1>1, <1>3 DEF ItemsToCopy, SourceOf, MovesRight, Unused
<1>5. Moved' = Moved \cup {i} /\ i \notin Moved /\ Moved \subseteq 0 .. ItemsToCopy - 1
  BY <1>1, <1>2, <1>4 DEF Moved
<1>6. Emptied' = Emptied \cup {from} /\ from \notin Emptied
  BY <1>2, <1>4, <1>5, Sources DEF Emptied
<1>7. Shelf' \subseteq (Shelf \ {from}) \cup {i} /\ from \in Shelf
  <2>1. from \in free_list_used .. Len(free_list) - 1 /\ from \notin Moved
    BY <1>2, <1>5, Sources
  <2> QED
    BY <1>1, <1>3, <1>5, <1>6, <2>1 DEF Shelf
<1>8. Free(i)' = Free(from) /\ \A k \in Shelf \ {i} : Free(k)' = Free(k)
  <2>1. i + 1 \in DOMAIN free_list
    BY <1>2, <1>3, Sources
  <2>2. Free(i)' = Free(from)
    BY <1>1, <2>1 DEF Free
  <2>3. \A k \in Shelf : k \in Int
    BY <1>1, <1>3, <1>5 DEF Shelf
  <2>4. \A k \in Shelf \ {i} : Free(k)' = Free(k)
    <3> SUFFICES ASSUME NEW k \in Shelf \ {i}
                 PROVE  Free(k)' = Free(k)
      OBVIOUS
    <3>1. k + 1 # i + 1
      BY <1>2, <2>3
    <3>2. free_list'[k + 1] = free_list[k + 1]
      BY <1>1, <1>3, <3>1
    <3> QED
      BY <3>2 DEF Free
  <2> QED
    BY <2>2, <2>4
<1>9. /\ Awaiting' = Awaiting /\ ToSet(recycled_list)' = ToSet(recycled_list)
  BY <1>1 DEF Awaiting, ToSet
<1>10. Made' = Made /\ Held' = Held /\ Returned' = Returned
  BY <1>1, <1>9, AtRest DEF Returned
<1>11. /\ \A k, l \in Shelf : Free(k) = Free(l) => k = l
       /\ \A k \in Shelf : Free(k) \in Made \ used
       /\ \A k, l \in DOMAIN recycled_list : recycled_list[k] = recycled_list[l] => k = l
       /\ Awaiting \subseteq used /\ Held \subseteq used
  BY DEF Owned, Stocked, Clean, HeldOnce, Returning
<1> HIDE DEF from
<1>12. \A k, l \in Shelf' : Free(k)' = Free(l)' => k = l
  BY <1>7, <1>8, <1>11
<1>13. \A k \in Shelf' : Free(k)' \in Made \ used'
  BY <1>1, <1>7, <1>8, <1>11
<1>14. \A c \in Made \ used' : \E k \in Shelf' : Free(k)' = c
  <2>1. Shelf \ {from} \subseteq Shelf' /\ i \in Shelf' /\ i \notin Shelf
    <3>1. i \notin free_list_used .. Len(free_list) - 1 /\ from \notin 0 .. ItemsToCopy - 1
      BY <1>2, <1>3, Sources DEF from
    <3> QED
      BY <1>1, <1>2, <1>3, <1>5, <1>6, <3>1 DEF Shelf
  <2> QED
    BY <1>1, <1>8, <2>1, AllShelved
<1>15. Owned'
  BY <1>1, <1>9, <1>10, <1>11, <1>12, <1>13, <1>14, AllShelved, RestOwned
<1> QED
  BY <1>1, <1>10, <1>15 DEF Stutter

\* gc_parallel_1: what was moved to the front, or stayed there, is the free list.
LEMMA ResettingOwned ==
  ASSUME IInv, Owned, ResetLists
  PROVE  Owned' /\ Stutter
<1>1. /\ Serial /\ phase = "gc0" /\ phase' = "gc2" /\ todo = {}
      /\ UNCHANGED <<used, recycled_list>> /\ free_list_used' = 0
      /\ free_list' = SubSeq(free_list, 1, IF Unused > 0 THEN Unused ELSE 0)
      /\ todo' = 1 .. Len(recycled_list)
  BY DEF ResetLists
<1>2. /\ free_list \in Seq(Backed) /\ free_list_used \in Nat /\ Len(free_list) \in Nat
      /\ Moved = 0 .. ItemsToCopy - 1 /\ DOMAIN recycled_list = 1 .. Len(recycled_list)
  BY <1>1, LenProperties DEF IInv, Typed, Moved
<1> DEFINE K == IF Unused > 0 THEN Unused ELSE 0
<1>3. K \in 0 .. Len(free_list)
  BY <1>2 DEF Unused
<1>4. /\ Len(free_list') = K /\ \A k \in 1 .. K : free_list'[k] = free_list[k]
  <2>1. \A k \in 1 .. K : free_list[k] \in Backed
    BY <1>2, <1>3, ElementOfSeq
  <2> HIDE DEF K
  <2>2. Len(SubSeq(free_list, 1, K)) = (IF 1 <= K THEN K - 1 + 1 ELSE 0)
        /\ \A k \in 1 .. K - 1 + 1 : SubSeq(free_list, 1, K)[k] = free_list[1 + k - 1]
    BY <1>3, <2>1, SubSeqProperties
  <2>3. free_list' = SubSeq(free_list, 1, K)
    BY <1>1 DEF K
  <2>4. \A k \in 1 .. K : k \in 1 .. K - 1 + 1 /\ 1 + k - 1 = k
    BY <1>3
  <2> QED
    BY <1>3, <2>2, <2>3, <2>4
<1>5. Shelf' = 0 .. K - 1
  BY <1>1, <1>4 DEF Shelf
<1>6. Shelf' \subseteq Shelf
  <2> SUFFICES ASSUME NEW p \in 0 .. K - 1
               PROVE  p \in Shelf
    BY <1>5
  <2>1. CASE p < ItemsToCopy
    <3>1. ItemsToCopy \in Int /\ p \in Nat
      BY <1>2, <1>3 DEF ItemsToCopy, Unused
    <3>2. p \in Moved
      BY <1>2, <2>1, <3>1
    <3> QED
      BY <1>1, <3>2 DEF Shelf
  <2>2. CASE p >= ItemsToCopy
    <3>1. /\ p \in free_list_used .. Len(free_list) - 1
          /\ \A j \in 0 .. ItemsToCopy - 1 : SourceOf(j) # p
      BY <1>2, <1>3, <2>2 DEF ItemsToCopy, MovesRight, Unused, SourceOf
    <3> QED
      BY <1>1, <1>2, <3>1 DEF Shelf, Emptied
  <2> QED
    BY <1>2, <1>3, <2>1, <2>2 DEF ItemsToCopy, Unused
<1>7. \A p \in Shelf' : Free(p)' = Free(p)
  <2> SUFFICES ASSUME NEW p \in 0 .. K - 1
               PROVE  Free(p)' = Free(p)
    BY <1>5
  <2>1. p + 1 \in 1 .. K
    BY <1>3
  <2> QED
    BY <1>4, <2>1 DEF Free
<1>8. /\ ToSet(recycled_list)' = ToSet(recycled_list) /\ Awaiting = ToSet(recycled_list)
      /\ Awaiting' = ToSet(recycled_list)
  BY <1>1, <1>2 DEF Awaiting, ToSet
<1>9. Held' = Held /\ Returned' = Returned
  <2>1. Held' = Held /\ Held \cap ToSet(recycled_list) = {}
    BY <1>1, AtRest
  <2>2. Returned = ToSet(recycled_list) \ Held
    BY <1>1 DEF Returned
  <2>3. Returned' = Awaiting'
    BY <1>1 DEF Returned, Awaiting
  <2> QED
    BY <1>8, <2>1, <2>2, <2>3
<1>10. /\ \A k, l \in Shelf : Free(k) = Free(l) => k = l
       /\ \A k \in Shelf : Free(k) \in Made \ used
       /\ \A k, l \in DOMAIN recycled_list : recycled_list[k] = recycled_list[l] => k = l
       /\ Awaiting \subseteq used /\ Held \subseteq used
  BY DEF Owned, Stocked, Clean, HeldOnce, Returning
<1>11. Shelf \subseteq Shelf'
  <2> SUFFICES ASSUME NEW p \in Shelf
               PROVE  p \in 0 .. K - 1
    BY <1>5
  <2>1. Shelf = ((free_list_used .. Len(free_list) - 1) \ Emptied) \cup Moved
    BY <1>1 DEF Shelf
  <2>2. CASE p \in Moved
    BY <1>2, <2>2 DEF ItemsToCopy, MovesRight, Unused
  <2>3. CASE p \notin Moved
    <3>1. p \in free_list_used .. Len(free_list) - 1 /\ p \notin Emptied
      BY <2>1, <2>3
    <3>2. CASE MovesRight
      <4>1. p - free_list_used \in 0 .. ItemsToCopy - 1 /\ SourceOf(p - free_list_used) = p
        BY <1>2, <3>1, <3>2 DEF ItemsToCopy, Unused, SourceOf
      <4> QED
        BY <1>2, <3>1, <4>1 DEF Emptied
    <3>3. CASE ~MovesRight /\ p >= K
      <4>1. /\ p - (Len(free_list) - ItemsToCopy) \in 0 .. ItemsToCopy - 1
            /\ SourceOf(p - (Len(free_list) - ItemsToCopy)) = p
        BY <1>2, <3>1, <3>3 DEF ItemsToCopy, Unused, SourceOf, MovesRight
      <4> QED
        BY <1>2, <3>1, <4>1 DEF Emptied
    <3> QED
      BY <1>2, <1>3, <3>1, <3>2, <3>3
  <2> QED
    BY <2>2, <2>3
<1>12. \A c \in Made \ used' : \E p \in Shelf' : Free(p)' = c
  BY <1>1, <1>7, <1>11, AllShelved
<1>13. Owned'
  BY <1>1, <1>6, <1>7, <1>8, <1>10, <1>12, AllShelved, RestOwned
<1> QED
  BY <1>1, <1>9, <1>13 DEF Stutter

\* A block of gc_parallel_2 zero-fills one cell: an abstract Clean.
LEMMA FreeingOwned ==
  ASSUME IInv, Owned, NEW i \in todo, FreeRecycled(i)
  PROVE  Owned' /\ CleanSome
<1> DEFINE c == recycled_list[i]
<1>0. PICK N : N = Len(free_list)
  OBVIOUS
<1>1. /\ Serial /\ phase = "gc2" /\ phase' = "gc2" /\ todo' = todo \ {i}
      /\ UNCHANGED <<free_list_used, recycled_list>>
      /\ free_list' = Append(free_list, c) /\ used' = used \ {c}
  BY DEF FreeRecycled
<1>2. /\ free_list \in Seq(Backed) /\ free_list_used \in Nat /\ N \in Nat
      /\ DOMAIN recycled_list = 1 .. Len(recycled_list)
      /\ todo \subseteq DOMAIN recycled_list
  BY <1>0, <1>1, LenProperties DEF IInv, Typed, Collecting
<1>3. c \in Backed
  <2>1. recycled_list \in Seq(Backed) /\ i \in 1 .. Len(recycled_list)
    BY <1>2 DEF IInv, Typed
  <2> QED
    BY <2>1, ElementOfSeq
<1>4. /\ \A k, l \in Shelf : Free(k) = Free(l) => k = l
      /\ \A k \in Shelf : Free(k) \in Made \ used
      /\ \A k, l \in DOMAIN recycled_list : recycled_list[k] = recycled_list[l] => k = l
      /\ Awaiting \subseteq used /\ Held \subseteq used /\ used \subseteq Made
  BY DEF Owned, Stocked, Clean, HeldOnce, Returning
<1>5. /\ Awaiting = {recycled_list[j] : j \in todo}
      /\ Awaiting' = {recycled_list[j] : j \in todo \ {i}}
      /\ Returned = Awaiting /\ Returned' = Awaiting'
  BY <1>1 DEF Awaiting, Returned
<1>6. c \in Awaiting /\ c \in used
  BY <1>4, <1>5
<1>7. Awaiting' = Awaiting \ {c}
  BY <1>2, <1>4, <1>5
<1>8. /\ Held' = Held /\ Held \cap ToSet(recycled_list) = {} /\ c \in ToSet(recycled_list)
      /\ ToSet(recycled_list)' = ToSet(recycled_list)
  BY <1>1, <1>2, AtRest DEF ToSet
<1>9. Len(free_list') = N + 1 /\ (\A k \in 1 .. N : free_list'[k] = free_list[k])
      /\ free_list'[N + 1] = c
  BY <1>0, <1>1, <1>2, <1>3, AppendProperties
<1>10. Shelf' \subseteq Shelf \cup {N} /\ \A k \in Shelf : k \in 0 .. N - 1
  <2>1. Shelf = free_list_used .. N - 1 /\ Shelf' = free_list_used .. (N + 1) - 1
    BY <1>0, <1>1, <1>9 DEF Shelf
  <2> QED
    BY <1>2, <2>1
<1>11. Free(N)' = c /\ \A k \in Shelf : Free(k)' = Free(k)
  <2>1. Free(N)' = c
    BY <1>9 DEF Free
  <2>2. ASSUME NEW k \in Shelf
        PROVE  Free(k)' = Free(k)
    <3>1. k + 1 \in 1 .. N
      BY <1>2, <1>10
    <3> QED
      BY <1>9, <3>1 DEF Free
  <2> QED
    BY <2>1, <2>2
<1> HIDE DEF c
<1>12. \A k, l \in Shelf' : Free(k)' = Free(l)' => k = l
  <2>1. \A k \in Shelf : Free(k)' # c
    BY <1>4, <1>6, <1>11
  <2> QED
    BY <1>4, <1>10, <1>11, <2>1
<1>13. \A k \in Shelf' : Free(k)' \in Made \ used'
  <2>1. c \in Made \ used'
    BY <1>1, <1>4, <1>6
  <2>2. \A k \in Shelf : Free(k)' \in Made \ used'
    BY <1>1, <1>4, <1>11
  <2> QED
    BY <1>10, <1>11, <2>1, <2>2
<1>14. \A d \in Made \ used' : \E k \in Shelf' : Free(k)' = d
  <2>1. free_list_used = 0
    BY <1>1, AllShelved
  <2>2. Shelf = 0 .. N - 1 /\ Shelf' = 0 .. N
    BY <1>0, <1>1, <1>2, <1>9, <2>1 DEF Shelf
  <2>3. Shelf \subseteq Shelf' /\ N \in Shelf'
    BY <1>2, <2>2
  <2> QED
    BY <1>1, <1>11, <2>3, AllShelved
<1>15. Owned'
  BY <1>1, <1>4, <1>7, <1>8, <1>12, <1>13, <1>14, AllShelved, RestOwned
<1>16. Store!Clean({c}) /\ {c} \in SUBSET Returned
  BY <1>1, <1>5, <1>6, <1>7, <1>8 DEF Store!Clean
<1> QED
  BY <1>15, <1>16 DEF CleanSome

LEMMA EndOwned ==
  ASSUME IInv, Owned, EndCollect
  PROVE  Owned' /\ Stutter
<1>1. /\ Serial /\ phase = "gc2" /\ phase' = "task" /\ todo = {}
      /\ UNCHANGED <<used, free_list, free_list_used>> /\ recycled_list' = <<>>
  BY DEF EndCollect
<1>2. /\ ToSet(recycled_list)' = {} /\ DOMAIN recycled_list' = {}
      /\ \A i : Free(i)' = Free(i)
  BY <1>1, EmptySeq DEF ToSet, Free
<1>3. Shelf' = Shelf /\ Awaiting' = {} /\ Returned = {} /\ Returned' = {}
  BY <1>1, <1>2 DEF Shelf, Awaiting, Returned
<1>4. Made' = Made /\ Held' = Held
  BY <1>1, AtRest
<1>5. /\ \A k, l \in Shelf : Free(k) = Free(l) => k = l
      /\ \A k \in Shelf : Free(k) \in Made \ used
      /\ Held \subseteq used
  BY DEF Owned, Stocked, Clean, HeldOnce
<1>6. Awaiting = {}
  BY <1>1 DEF Awaiting
<1>7. Owned'
  BY <1>1, <1>2, <1>3, <1>5, <1>6, AllShelved, RestOwned
<1> QED
  BY <1>1, <1>3, <1>4, <1>7 DEF Stutter

-----------------------------------------------------------------------------
LEMMA NeedingFinite ==
  /\ IsFiniteSet(Needing) /\ Cardinality(Needing) \in Nat
  /\ \A S \in SUBSET Needing : IsFiniteSet(S) /\ Cardinality(S) \in Nat
                               /\ Cardinality(S) <= Cardinality(Needing)
<1>1. IsFiniteSet(Needing)
  BY SetsAssumption, FS_Subset DEF Needing
<1> QED
  BY <1>1, FS_Subset, FS_CardinalityType

LEMMA SpareType ==
  ASSUME IInv
  PROVE  /\ Spare \in Int /\ Unused \in Int /\ Len(free_list) \in Nat
         /\ free_list_used \in Nat /\ num_elements \in Nat /\ MaxCells \in Nat
<1>1. Len(free_list) \in Nat /\ free_list_used \in Nat /\ num_elements \in Nat /\ MaxCells \in Nat
  BY LenProperties, BoundsAssumption DEF IInv, Typed
<1> QED
  BY <1>1 DEF Spare, Unused

\* A thread that no longer needs a cell leaves as much room for the others.
LEMMA LessNeeded ==
  ASSUME IInv, Room, Needing' \subseteq Needing, num_elements' = num_elements, Spare' = Spare
  PROVE  Room'
<1>1. Cardinality(Needing)' \in Nat /\ Cardinality(Needing)' <= Cardinality(Needing)
      /\ Cardinality(Needing) \in Nat
  BY NeedingFinite
<1> QED
  BY <1>1, SpareType DEF Room

LEMMA OthersNeed ==
  ASSUME NEW t \in Threads, free_list' = free_list,
         \A u \in Threads \ {t} : pc'[u] = pc[u] /\ cursor'[u] = cursor[u]
  PROVE  Needing' \ {t} = Needing \ {t}
BY DEF Needing

\* The loop body asks for a slot.
LEMMA ActivatingRoom ==
  ASSUME IInv, Room, NEW t \in Threads, NEW s \in Slots, Activate(t, s)
  PROVE  Room'
<1>1. /\ pc[t] = "idle" /\ Headroom
      /\ UNCHANGED <<num_elements, free_list, free_list_used>>
      /\ \A u \in Threads \ {t} : pc'[u] = pc[u] /\ cursor'[u] = cursor[u]
  BY DEF Activate, IInv, Typed
<1>2. Spare' = Spare
  BY <1>1 DEF Spare, Unused
<1> DEFINE Coming == {u \in Threads : pc[u] \in {"lock", "take", "choose"}}
<1>3. Cardinality(Coming) < Spare
  BY <1>1 DEF Headroom, Spare
<1>4. IsFiniteSet(Coming) /\ Cardinality(Coming) \in Nat
  BY SetsAssumption, FS_Subset, FS_CardinalityType
<1>5. Needing \subseteq Coming /\ t \notin Coming
  BY <1>1 DEF Needing
<1>6. Needing' \subseteq Coming \cup {t}
  BY <1>1, <1>5, OthersNeed
<1>7. IsFiniteSet(Coming \cup {t}) /\ Cardinality(Coming \cup {t}) = Cardinality(Coming) + 1
  BY <1>4, <1>5, FS_AddElement
<1>8. Cardinality(Needing)' <= Cardinality(Coming) + 1 /\ Cardinality(Needing)' \in Nat
  BY <1>6, <1>7, FS_Subset, FS_CardinalityType
<1> HIDE DEF Coming
<1> QED
  BY <1>1, <1>2, <1>3, <1>4, <1>8, SpareType DEF Room

\* A cell of the free list that is drawn is needed no more.
LEMMA DrawingRoom ==
  ASSUME IInv, Owned, Room, NEW t \in Threads, TakeCursor(t)
  PROVE  Room'
<1>1. /\ pc[t] = "take" /\ pc'[t] = "choose" /\ cursor'[t] = free_list_used
      /\ UNCHANGED <<num_elements, free_list>> /\ free_list_used' = free_list_used + 1
      /\ \A u \in Threads \ {t} : pc'[u] = pc[u] /\ cursor'[u] = cursor[u]
  BY DEF TakeCursor, IInv, Typed
<1>2. Needing' \ {t} = Needing \ {t} /\ t \in Needing
      /\ (t \in Needing' <=> free_list_used >= Len(free_list))
  BY <1>1, OthersNeed DEF Needing
<1>3. CASE free_list_used >= Len(free_list)
  <2>1. Spare' = Spare
    BY <1>1, <1>3, SpareType DEF Spare, Unused
  <2> QED
    BY <1>1, <1>2, <2>1, LessNeeded
<1>4. CASE free_list_used < Len(free_list)
  <2>1. Spare' = Spare - 1
    BY <1>1, <1>4, SpareType DEF Spare, Unused
  <2>2. Needing' = Needing \ {t}
    BY <1>2, <1>4, SpareType
  <2>3. Cardinality(Needing)' = Cardinality(Needing) - 1
    BY <1>2, <2>2, NeedingFinite, FS_RemoveElement
  <2> QED
    BY <1>1, <2>1, <2>3, SpareType, NeedingFinite DEF Room
<1> QED
  BY <1>3, <1>4, SpareType

\* data_list never outgrows MaxCells.
LEMMA ReservingRoom ==
  ASSUME IInv, Owned, Room, NEW t \in Threads, ReserveNew(t)
  PROVE  Room'
<1>1. /\ pc[t] = "choose" /\ pc'[t] = "touch" /\ cursor[t] >= Len(free_list)
      /\ UNCHANGED <<free_list, free_list_used>> /\ num_elements' = num_elements + 1
      /\ \A u \in Threads \ {t} : pc'[u] = pc[u] /\ cursor'[u] = cursor[u]
  BY DEF ReserveNew, IInv, Typed
<1>2. cursor[t] \in Nat /\ cursor[t] < free_list_used
  BY <1>1 DEF IInv, Mine, Owned, HeldOnce
<1>3. Spare = MaxCells - num_elements /\ Spare' = Spare - 1
  BY <1>1, <1>2, SpareType, SMTT(30) DEF Spare, Unused
<1>4. Needing' = Needing \ {t} /\ t \in Needing
  BY <1>1, OthersNeed DEF Needing
<1>5. Cardinality(Needing)' = Cardinality(Needing) - 1 /\ Cardinality(Needing)' \in Nat
      /\ Cardinality(Needing) \in Nat
  BY <1>4, NeedingFinite, FS_RemoveElement, FS_CardinalityType
<1> QED
  BY <1>1, <1>3, <1>5, SpareType DEF Room

\* Everybody else needs no more than before; at rest nobody needs anything.
LEMMA OtherRoom ==
  ASSUME IInv, Room, NEW t \in Threads,
         UNCHANGED <<num_elements, free_list, free_list_used>>,
         \A u \in Threads \ {t} : pc'[u] = pc[u] /\ cursor'[u] = cursor[u],
         pc'[t] \in {"lock", "take", "choose"} => pc[t] \in {"lock", "take"}
  PROVE  Room'
<1>1. Needing' \subseteq Needing
  BY OthersNeed DEF Needing
<1>2. Spare' = Spare
  BY DEF Spare, Unused
<1> QED
  BY <1>1, <1>2, LessNeeded

LEMMA RestRoom ==
  ASSUME IInv, Owned, Room, Serial, phase # "task" \/ TaskDone, IInv'
  PROVE  Room'
<1>1. Needing' = {} /\ num_elements' = num_elements
  BY AtRest DEF Needing, Serial
<1>2. Cardinality(Needing)' = 0
  BY <1>1, FS_EmptySet
<1>3. /\ Len(free_list)' \in Nat /\ free_list_used' \in Nat /\ num_elements' \in Nat
      /\ MaxCells \in Nat
  BY BoundsAssumption, LenProperties DEF IInv, Typed
<1>4. Spare' >= 0
  BY <1>1, <1>3 DEF Room, Spare, Unused
<1> QED
  BY <1>1, <1>2, <1>4 DEF Room

-----------------------------------------------------------------------------
OwnedRoom == IInv /\ Owned /\ Room

LEMMA InitialRoom == Init => Room
<1>1. Init => Needing = {} /\ num_elements = 0 /\ Unused = 0
  BY EmptySeq DEF Init, Needing, Unused
<1> QED
  BY <1>1, FS_EmptySet, BoundsAssumption DEF Room, Spare

\* A thread's step is a step of the store, or none that the store can see.
LEMMA ThreadRefines ==
  ASSUME OwnedRoom, NEW t \in Threads, Begin(t) \/ Continue(t)
  PROVE  Owned' /\ Room' /\ (Stutter \/ \E c \in Cells : Store!Take(c) \/ Store!Give(c))
<1>1. IInv /\ Owned /\ Room
  BY DEF OwnedRoom
<1>2. Made \subseteq Cells
  BY <1>1, SpareType DEF Room, Made, Cells
<1>3. ASSUME NEW s \in Slots, Activate(t, s)
      PROVE  Owned' /\ Room' /\ Stutter
  BY <1>1, <1>3, EnteringOwned, ActivatingRoom
<1>4. ASSUME NEW s \in Slots, Deactivate(t, s)
      PROVE  Owned' /\ Room' /\ Stutter
  <2>1. Room'
    BY <1>1, <1>4, OtherRoom DEF Deactivate, IInv, Typed
  <2> QED
    BY <1>1, <1>4, <2>1, EnteringOwned
<1>5. CASE ActivateLock(t) \/ DeactivateLock(t)
  <2>1. slot[t] \in Slots
    BY <1>1, <1>5 DEF ActivateLock, DeactivateLock, IInv, Mine
  <2>2. Room'
    BY <1>1, <1>5, OtherRoom DEF ActivateLock, DeactivateLock, IInv, Typed
  <2> QED
    BY <1>1, <1>5, <2>1, <2>2, EnteringOwned
<1>6. CASE TakeCursor(t)
  BY <1>1, <1>6, DrawingOwned, DrawingRoom
<1>7. CASE ReserveNew(t)
  BY <1>1, <1>7, ReservingOwned, ReservingRoom
<1>8. CASE TouchChunk(t)
  <2>1. Room'
    BY <1>1, <1>8, OtherRoom DEF TouchChunk, IInv, Typed
  <2> QED
    BY <1>1, <1>8, <2>1, TouchingOwned
<1>9. CASE Reuse(t)
  <2>1. Room'
    BY <1>1, <1>9, OtherRoom DEF Reuse, IInv, Typed
  <2> QED
    BY <1>1, <1>9, <2>1, ReusingOwned
<1>10. CASE Publish(t)
  <2>1. Room'
    BY <1>1, <1>10, OtherRoom DEF Publish, IInv, Typed
  <2>2. Owned' /\ Store!Take(cell[t])
    BY <1>1, <1>10, PublishingOwned DEF Room
  <2>3. cell[t] \in Cells
    BY <1>1, <1>2, <1>10 DEF Publish, IInv, Mine, Backed
  <2> QED
    BY <2>1, <2>2, <2>3
<1>11. CASE Recycle(t)
  <2>1. Room'
    BY <1>1, <1>11, OtherRoom DEF Recycle, IInv, Typed
  <2> QED
    BY <1>1, <1>11, <2>1, RecyclingOwned
<1>12. CASE ClearSlot(t)
  <2>1. Room'
    BY <1>1, <1>12, OtherRoom DEF ClearSlot, IInv, Typed
  <2>2. Owned' /\ Store!Give(data[slot[t]])
    BY <1>1, <1>12, ClearanceOwned
  <2>3. data[slot[t]] \in Cells
    BY <1>1, <1>2, <1>12 DEF ClearSlot, IInv, Typed, Mine, Backed
  <2> QED
    BY <2>1, <2>2, <2>3
<1> QED
  BY <1>3, <1>4, <1>5, <1>6, <1>7, <1>8, <1>9, <1>10, <1>11, <1>12 DEF Begin, Continue

\* So is a step of the collection.
LEMMA CollectionRefines ==
  ASSUME OwnedRoom, IInv', NextTask \/ Collect
  PROVE  Owned' /\ Room' /\ (Stutter \/ CleanSome)
<1>1. IInv /\ Owned /\ Room
  BY DEF OwnedRoom
<1>2. Serial /\ (phase # "task" \/ TaskDone)
  BY DEF NextTask, Collect, CollectSerial, StartCollect, MoveFree, FreeRecycled,
     ResetLists, EndCollect
<1>3. Room'
  BY <1>1, <1>2, RestRoom
<1>4. CASE NextTask \/ CollectSerial
  BY <1>1, <1>3, <1>4, SerialOwned
<1>5. CASE StartCollect \/ ResetLists \/ EndCollect
  BY <1>1, <1>3, <1>5, StartOwned, ResettingOwned, EndOwned
<1>6. ASSUME NEW i \in todo, MoveFree(i) \/ FreeRecycled(i)
      PROVE  Owned' /\ Room' /\ (Stutter \/ CleanSome)
  BY <1>1, <1>3, <1>6, MovingOwned, FreeingOwned
<1> QED
  BY <1>4, <1>5, <1>6 DEF Collect

LEMMA StandingStill ==
  ASSUME OwnedRoom, UNCHANGED vars
  PROVE  Owned' /\ Room' /\ Stutter
<1>1. Stutter
  BY DEF vars, Stutter, Held, Returned, ToSet
<1>2. Stocked'
  BY DEF vars, OwnedRoom, Owned, Stocked, Shelf, Emptied, Moved, ItemsToCopy, MovesRight, Unused,
     SourceOf, Free, Hand, InHand, Clean, Made
<1>3. HeldOnce' /\ Returning'
  BY DEF vars, OwnedRoom, Owned, HeldOnce, Returning, Held, Made, Awaiting, ToSet
<1>4. Room'
  BY DEF vars, OwnedRoom, Room, Needing, Spare, Unused
<1>5. Kept'
  <2>1. /\ UNCHANGED <<data, num_elements, free_list, free_list_used, recycled_list, phase, todo, used,
                      pc, cursor, cell>>
    BY DEF vars
  <2>2. /\ Made' = Made /\ Held' = Held /\ Awaiting' = Awaiting /\ Shelf' = Shelf
        /\ \A i : Free(i)' = Free(i)
    BY <2>1 DEF Made, Held, Awaiting, ToSet, Shelf, Emptied, Moved, ItemsToCopy, MovesRight, Unused,
                SourceOf, Free
  <2>3. \A t \in Threads : (Hand(t)' <=> Hand(t)) /\ InHand(t)' = InHand(t)
    BY <2>1, OtherHands
  <2> QED
    BY <2>1, <2>2, <2>3 DEF OwnedRoom, Owned, Kept
<1> QED
  BY <1>1, <1>2, <1>3, <1>4, <1>5 DEF Owned

LEMMA StepRefines == OwnedRoom /\ [Next]_vars => OwnedRoom' /\ [Store!CellNext]_(Store!cellVars)
<1> SUFFICES ASSUME OwnedRoom, [Next]_vars
             PROVE  OwnedRoom' /\ [Store!CellNext]_(Store!cellVars)
  OBVIOUS
<1>1. IInv'
  BY Inductive DEF OwnedRoom
<1>2. /\ Stutter => UNCHANGED Store!cellVars
      /\ CleanSome => Store!CellNext
      /\ (\E c \in Cells : Store!Take(c) \/ Store!Give(c)) => Store!CellNext
  BY DEF Stutter, CleanSome, Store!CellNext, Store!cellVars
<1>3. ASSUME NEW t \in Threads, Begin(t) \/ Continue(t)
      PROVE  Owned' /\ Room' /\ [Store!CellNext]_(Store!cellVars)
  BY <1>2, <1>3, ThreadRefines
<1>4. CASE NextTask \/ Collect
  BY <1>1, <1>2, <1>4, CollectionRefines DEF OwnedRoom
<1>5. CASE UNCHANGED vars
  BY <1>1, <1>2, <1>5, StandingStill DEF OwnedRoom
<1> QED
  BY <1>1, <1>3, <1>4, <1>5 DEF Next, Terminated, OwnedRoom

\* Whatever the interleaving, and with either collection, a sparse SNode gets
\* zero-filled cells that nobody else has, and a cell that was given back only
\* after a collection has cleaned it: Pointer_activate, Pointer_deactivate and
\* the collections implement CellStore.
THEOREM Refinement == Spec => ImplementsCellStore
<1>1. Init => OwnedRoom /\ Store!CellInit
  <2>1. Init => Store!CellInit
    BY EmptySeq DEF Init, Store!CellInit, Held, Returned, ToSet, Null
  <2> QED
    BY <2>1, Initial, InitialOwned, InitialRoom DEF OwnedRoom
<1>2. OwnedRoom /\ [Next]_vars => OwnedRoom' /\ [Store!CellNext]_(Store!cellVars)
  BY StepRefines
<1> QED
  BY <1>1, <1>2, PTL DEF Spec, ImplementsCellStore, Store!CellSpec

-----------------------------------------------------------------------------
(***************************************************************************)
(* Every cell has exactly one owner.  Owned says that it has at most one,  *)
(* clean cells among shelf and hands, used ones among slots and            *)
(* recycled_list, and Kept that it has one at all.                         *)
(***************************************************************************)

\* The owners of a cell while a task runs.
LEMMA Drawn ==
  ASSUME IInv, Owned, phase = "task", NEW c \in Made
  PROVE  /\ \A i \in FreePlaces(c) :
              \/ i \in Shelf /\ Free(i) = c
              \/ \E t \in Threads : pc[t] = "choose" /\ cursor[t] = i /\ Hand(t) /\ InHand(t) = c
         /\ \A i \in Shelf : Free(i) = c => i \in FreePlaces(c)
         /\ \A t \in Threads : pc[t] = "choose" /\ Hand(t) /\ InHand(t) = c => cursor[t] \in FreePlaces(c)
         /\ \A t \in ThreadOwners(c) : Hand(t) /\ InHand(t) = c
         /\ \A t \in Threads : Hand(t) /\ InHand(t) = c => pc[t] = "choose" \/ t \in ThreadOwners(c)
<1>1. /\ Len(free_list) \in Nat /\ free_list_used \in Nat
      /\ Shelf = free_list_used .. Len(free_list) - 1
  BY LenProperties DEF IInv, Typed, Shelf
<1>2. \A t \in Threads : pc[t] = "choose" => cursor[t] \in Nat
  BY DEF IInv, Mine
<1>3. \A t \in Threads : (pc[t] = "choose" => InHand(t) = Free(cursor[t]))
                         /\ (pc[t] # "choose" => InHand(t) = cell[t])
  BY Zenon DEF InHand
<1>4. ASSUME NEW i \in FreePlaces(c)
      PROVE  \/ i \in Shelf /\ Free(i) = c
             \/ \E t \in Threads : pc[t] = "choose" /\ cursor[t] = i /\ Hand(t) /\ InHand(t) = c
  <2>1. i \in 0 .. Len(free_list) - 1 /\ Free(i) = c /\ (i >= free_list_used \/ i \in DrawnPlaces)
    BY DEF FreePlaces
  <2>2. CASE i >= free_list_used
    BY <1>1, <2>1, <2>2
  <2>3. CASE i \in DrawnPlaces
    <3>1. PICK t \in Threads : pc[t] = "choose" /\ cursor[t] = i
      BY <2>3 DEF DrawnPlaces
    <3>2. Hand(t)
      BY <1>1, <2>1, <3>1 DEF Hand
    <3> QED
      BY <1>3, <2>1, <3>1, <3>2
  <2> QED
    BY <2>1, <2>2, <2>3
<1>5. \A i \in Shelf : Free(i) = c => i \in FreePlaces(c)
  BY <1>1 DEF FreePlaces
<1>6. \A t \in Threads : pc[t] = "choose" /\ Hand(t) /\ InHand(t) = c => cursor[t] \in FreePlaces(c)
  BY <1>1, <1>2, <1>3 DEF FreePlaces, DrawnPlaces, Hand
<1>7. \A t \in ThreadOwners(c) : Hand(t) /\ InHand(t) = c
  BY <1>3 DEF ThreadOwners, Hand
<1>8. \A t \in Threads : Hand(t) /\ InHand(t) = c => pc[t] = "choose" \/ t \in ThreadOwners(c)
  BY <1>3 DEF ThreadOwners, Hand
<1> QED
  BY <1>4, <1>5, <1>6, <1>7, <1>8

\* A clean cell is on the shelf, drawn from it or in a thread's hands.
LEMMA CleanOwner ==
  ASSUME IInv, Owned, phase = "task", NEW c \in Made \ used
  PROVE  /\ SlotOwners(c) = {} /\ RecycledPlaces(c) = {}
         /\ \/ (\E i : FreePlaces(c) = {i}) /\ ThreadOwners(c) = {}
            \/ (\E t : ThreadOwners(c) = {t}) /\ FreePlaces(c) = {}
<1>1. SlotOwners(c) = {}
  <2>1. c # Null /\ c \notin Held
    BY DEF Owned, HeldOnce, Made, Null
  <2> QED
    BY <2>1 DEF SlotOwners, Held
<1>2. RecycledPlaces(c) = {}
  <2>1. c \notin ToSet(recycled_list)
    BY DEF Owned, Returning, Awaiting
  <2> QED
    BY <2>1 DEF RecycledPlaces, ToSet
<1>3. /\ \A i, j \in Shelf : Free(i) = Free(j) => i = j
      /\ \A t, u \in Threads : Hand(t) /\ Hand(u) /\ InHand(t) = InHand(u) => t = u
      /\ \A t \in Threads, i \in Shelf : Hand(t) => InHand(t) # Free(i)
  BY DEF Owned, Stocked
<1>4. ThreadOwners(c) \subseteq Threads /\ \A t \in ThreadOwners(c) : pc[t] # "choose"
  BY DEF ThreadOwners
<1>5. CASE \E i \in Shelf : Free(i) = c
  <2>1. PICK i \in Shelf : Free(i) = c
    BY <1>5
  <2>2. FreePlaces(c) = {i}
    BY <1>3, <2>1, Drawn
  <2>3. ThreadOwners(c) = {}
    BY <1>3, <1>4, <2>1, Drawn
  <2> QED
    BY <1>1, <1>2, <2>2, <2>3
<1>6. CASE \E t \in Threads : Hand(t) /\ InHand(t) = c
  <2>1. PICK t \in Threads : Hand(t) /\ InHand(t) = c
    BY <1>6
  <2>2. CASE pc[t] = "choose"
    <3>1. FreePlaces(c) = {cursor[t]}
      BY <1>3, <2>1, <2>2, Drawn
    <3>2. ThreadOwners(c) = {}
      BY <1>3, <1>4, <2>1, <2>2, Drawn
    <3> QED
      BY <1>1, <1>2, <3>1, <3>2
  <2>3. CASE pc[t] # "choose"
    <3>1. ThreadOwners(c) = {t}
      BY <1>3, <1>4, <2>1, <2>3, Drawn
    <3>2. FreePlaces(c) = {}
      BY <1>3, <2>1, <2>3, Drawn
    <3> QED
      BY <1>1, <1>2, <3>1, <3>2
  <2> QED
    BY <2>2, <2>3
<1>7. (\E i \in Shelf : Free(i) = c) \/ \E t \in Threads : Hand(t) /\ InHand(t) = c
  BY DEF Owned, Kept
<1> QED
  BY <1>5, <1>6, <1>7

\* A used cell is in a slot or, once the slot is being cleared, recycled.
LEMMA UsedOwner ==
  ASSUME IInv, Owned, phase = "task", NEW c \in Made, c \in used
  PROVE  /\ ThreadOwners(c) = {} /\ FreePlaces(c) = {}
         /\ \/ (\E s : SlotOwners(c) = {s}) /\ RecycledPlaces(c) = {}
            \/ (\E i : RecycledPlaces(c) = {i}) /\ SlotOwners(c) = {}
<1>1. /\ \A i \in Shelf : Free(i) # c
      /\ \A t \in Threads : Hand(t) => InHand(t) # c
  BY DEF Owned, Stocked, Clean
<1>2. ThreadOwners(c) = {} /\ FreePlaces(c) = {}
  <2>1. ThreadOwners(c) \subseteq Threads
    BY DEF ThreadOwners
  <2> QED
    BY <1>1, <2>1, Drawn
<1>3. c \in Held \/ c \in ToSet(recycled_list)
  BY DEF Owned, Kept, Awaiting
<1>4. c # Null
  BY DEF Made, Null
<1>5. CASE c \in ToSet(recycled_list)
  <2>1. PICK i \in DOMAIN recycled_list : recycled_list[i] = c
    BY <1>5 DEF ToSet
  <2>2. RecycledPlaces(c) = {i}
    BY <2>1 DEF RecycledPlaces, Owned, Returning
  <2>3. SlotOwners(c) = {}
    BY <1>5 DEF SlotOwners, Clearing, Owned, Returning
  <2> QED
    BY <1>2, <2>2, <2>3
<1>6. CASE c \notin ToSet(recycled_list)
  <2>1. PICK s \in Slots : data[s] = c
    BY <1>3, <1>6 DEF Held
  <2>2. ~Clearing(s)
    BY <1>6, <2>1 DEF Clearing, Owned, Returning
  <2>3. SlotOwners(c) = {s}
    BY <1>4, <2>1, <2>2 DEF SlotOwners, Owned, HeldOnce
  <2>4. RecycledPlaces(c) = {}
    BY <1>6 DEF RecycledPlaces, ToSet
  <2> QED
    BY <1>2, <2>3, <2>4
<1> QED
  BY <1>5, <1>6

LEMMA OwnedOnce == IInv /\ Owned => CellsOwnedOnce
<1> SUFFICES ASSUME IInv, Owned, phase = "task", NEW c \in Made
             PROVE  Cardinality(SlotOwners(c)) + Cardinality(ThreadOwners(c))
                      + Cardinality(FreePlaces(c)) + Cardinality(RecycledPlaces(c)) = 1
  BY DEF CellsOwnedOnce, Made
<1>1. Cardinality({}) = 0 /\ \A x : Cardinality({x}) = 1
  BY FS_EmptySet, FS_Singleton
<1> DEFINE S == SlotOwners(c)
           T == ThreadOwners(c)
           F == FreePlaces(c)
           R == RecycledPlaces(c)
<1>2. \/ /\ S = {} /\ R = {}
         /\ \/ (\E i : F = {i}) /\ T = {}
            \/ (\E i : T = {i}) /\ F = {}
      \/ /\ T = {} /\ F = {}
         /\ \/ (\E i : S = {i}) /\ R = {}
            \/ (\E i : R = {i}) /\ S = {}
  <2>1. CASE c \in used
    BY <2>1, UsedOwner
  <2>2. CASE c \in Made \ used
    BY <2>2, CleanOwner
  <2> QED
    BY <2>1, <2>2
<1> HIDE DEF S, T, F, R
<1>3. \A X : (X = {} => Cardinality(X) = 0) /\ ((\E i : X = {i}) => Cardinality(X) = 1)
  BY <1>1, Zenon
<1>4. \/ Cardinality(S) = 1 /\ Cardinality(T) = 0 /\ Cardinality(F) = 0 /\ Cardinality(R) = 0
      \/ Cardinality(S) = 0 /\ Cardinality(T) = 1 /\ Cardinality(F) = 0 /\ Cardinality(R) = 0
      \/ Cardinality(S) = 0 /\ Cardinality(T) = 0 /\ Cardinality(F) = 1 /\ Cardinality(R) = 0
      \/ Cardinality(S) = 0 /\ Cardinality(T) = 0 /\ Cardinality(F) = 0 /\ Cardinality(R) = 1
  BY <1>2, <1>3, Zenon
<1>5. Cardinality(S) + Cardinality(T) + Cardinality(F) + Cardinality(R) = 1
  BY <1>4
<1> QED
  BY <1>5 DEF S, T, F, R

(* While a task runs every cell ever made has exactly one owner, for any    *)
(* number of threads, slots and cells, whatever activations, deactivations *)
(* and serial or parallel collections came before: two slots never share a  *)
(* cell and no cell is lost (Pointer_activate, Pointer_deactivate,          *)
(* NodeManager::gc_serial, gc_parallel_0 to 2).                             *)
THEOREM OneOwnerEach == Spec => []CellsOwnedOnce
<1>1. Init => OwnedRoom
  BY Initial, InitialOwned, InitialRoom DEF OwnedRoom
<1>2. OwnedRoom /\ [Next]_vars => OwnedRoom'
  BY StepRefines
<1>3. OwnedRoom => CellsOwnedOnce
  BY OwnedOnce DEF OwnedRoom
<1> QED
  BY <1>1, <1>2, <1>3, PTL DEF Spec
=============================================================================
