---------------------------- MODULE NodeManager ----------------------------
(***************************************************************************)
(* The cells of a pointer SNode                                            *)
(* (src/taichi/runtime/llvm/runtime_module/runtime.cpp, node_pointer.h).   *)
(*                                                                         *)
(* A pointer SNode has Slots; an active slot points to a cell.  Cells come *)
(* from a NodeManager, which keeps three lists of cell numbers: data_list  *)
(* (all cells ever made, allocated in chunks on first touch), free_list    *)
(* (cells to hand out again; free_list_used of them are gone) and          *)
(* recycled_list (given back since the last garbage collection).           *)
(*                                                                         *)
(* A kernel runs task after task.  In a task every Thread activates and    *)
(* deactivates slots as the program says, all of them at once; one step    *)
(* here is one access to shared memory, or what a slot's lock makes        *)
(* atomic.  A task that deactivates is followed by a garbage collection,   *)
(* serial on the CPU, three parallel kernels on CUDA and AMDGPU.           *)
(*                                                                         *)
(* Abstracted: the content of a cell is "zero" or "used"; the two numbers  *)
(* lists have no chunks of their own, and appending to them is one step,   *)
(* because nobody reads them before the task is over.                      *)
(***************************************************************************)
EXTENDS Integers, Sequences, FiniteSets, SequencesExt

CONSTANTS
  Threads,        \* threads of a task
  Slots,          \* slots of the pointer SNode
  ChunkElements,  \* chunk_num_elements: cells per chunk of data_list
  MaxCells,       \* bound on the cells ever made
  MaxTasks,       \* bound on the tasks run
  Arches          \* where the kernels may run: "cpu", "gpu"

ASSUME SetsAssumption == IsFiniteSet(Threads) /\ IsFiniteSet(Slots)
ASSUME BoundsAssumption ==
  /\ ChunkElements \in Nat \ {0}
  /\ MaxCells \in Nat /\ MaxTasks \in Nat
  /\ Arches \subseteq {"cpu", "gpu"} /\ Arches # {}

Null == -1

Cells == 0 .. MaxCells - 1
ChunkOf(c) == c \div ChunkElements
Chunks == {ChunkOf(c) : c \in Cells}

VARIABLES
  data,            \* data_ptr of each slot: a cell or Null
  lock,            \* the lock word of each slot: whether it is held
  num_elements,    \* data_list.num_elements
  chunks,          \* the chunks of data_list that are allocated
  free_list, free_list_used,
  recycled_list, recycle_list_size_backup,
  used,            \* cells whose content may differ from zero
  phase, todo,     \* "task" or a step of the collection; its remaining work
  tasks,           \* tasks finished
  arch,            \* where the program runs; "gpu" is CUDA or AMDGPU
  pc, slot, cursor, cell  \* per thread: where it is, and its locals

lists == <<free_list, free_list_used, recycled_list, recycle_list_size_backup>>
heap == <<num_elements, chunks>>
kernel == <<phase, todo, tasks, arch>>
locals == <<slot, cursor, cell>>
vars == <<data, lock, used, heap, lists, kernel, pc, locals>>

Init ==
  /\ data = [s \in Slots |-> Null]
  /\ lock = [s \in Slots |-> FALSE]
  /\ num_elements = 0 /\ chunks = {}
  /\ free_list = <<>> /\ free_list_used = 0
  /\ recycled_list = <<>> /\ recycle_list_size_backup = 0
  /\ used = {}
  /\ phase = "task" /\ todo = {} /\ tasks = 0
  /\ arch \in Arches
  /\ pc = [t \in Threads |-> "idle"]
  /\ slot = [t \in Threads |-> Null]
  /\ cursor = [t \in Threads |-> Null]
  /\ cell = [t \in Threads |-> Null]

Goto(t, label) == pc' = [pc EXCEPT ![t] = label]

\* Back in the loop body, where the locals are out of scope.
Return(t) ==
  /\ Goto(t, "idle")
  /\ slot' = [slot EXCEPT ![t] = Null]
  /\ cursor' = [cursor EXCEPT ![t] = Null]
  /\ cell' = [cell EXCEPT ![t] = Null]

\* free_list[i], counted from 0 as in the code.
Free(i) == free_list[i + 1]

-----------------------------------------------------------------------------
(* Pointer_activate                                                        *)

Unused == Len(free_list) - free_list_used

\* MaxCells is reached only by activations that are under way.
Headroom ==
  LET Coming == {t \in Threads : pc[t] \in {"lock", "take", "choose"}}
  IN Cardinality(Coming) < MaxCells - num_elements + (IF Unused > 0 THEN Unused ELSE 0)

InTask == phase = "task" /\ tasks < MaxTasks

\* The loop body asks for slot s: the unlocked test of *data_ptr.
Activate(t, s) ==
  /\ InTask /\ pc[t] = "idle" /\ Headroom
  /\ data[s] = Null
  /\ slot' = [slot EXCEPT ![t] = s]
  /\ Goto(t, "lock")
  /\ UNCHANGED <<data, lock, used, heap, lists, kernel, cursor, cell>>

\* MUTANT: the lock is kept when the slot turns out to be active.
ActivateLockKept(t) ==
  /\ pc[t] = "lock" /\ ~lock[slot[t]]
  /\ lock' = [lock EXCEPT ![slot[t]] = TRUE]
  /\ IF data[slot[t]] = Null THEN Goto(t, "take") /\ UNCHANGED locals ELSE Return(t)
  /\ UNCHANGED <<data, used, heap, lists, kernel>>

\* locked_task: take the slot's lock, test again.
ActivateLock(t) ==
  /\ pc[t] = "lock" /\ ~lock[slot[t]]
  /\ IF data[slot[t]] = Null
     THEN lock' = [lock EXCEPT ![slot[t]] = TRUE] /\ Goto(t, "take") /\ UNCHANGED locals
     ELSE UNCHANGED lock /\ Return(t)
  /\ UNCHANGED <<data, used, heap, lists, kernel>>

\* NodeManager::allocate
TakeCursor(t) ==
  /\ pc[t] = "take"
  /\ cursor' = [cursor EXCEPT ![t] = free_list_used]
  /\ free_list_used' = free_list_used + 1
  /\ Goto(t, "choose")
  /\ UNCHANGED <<data, lock, used, heap, free_list, recycled_list,
                 recycle_list_size_backup, kernel, slot, cell>>

\* Running out of the free list: data_list->reserve_new_element().
ReserveNew(t) ==
  /\ pc[t] = "choose" /\ cursor[t] >= Len(free_list)
  /\ cell' = [cell EXCEPT ![t] = num_elements]
  /\ num_elements' = num_elements + 1
  /\ Goto(t, "touch")
  /\ UNCHANGED <<data, lock, used, chunks, lists, kernel, slot, cursor>>

\* MUTANT: whoever reserves the first cell of a chunk is trusted to allocate it.
TouchChunkFirstOnly(t) ==
  /\ pc[t] = "touch"
  /\ chunks' = IF cell[t] % ChunkElements = 0 THEN chunks \cup {ChunkOf(cell[t])} ELSE chunks
  /\ Goto(t, "publish")
  /\ UNCHANGED <<data, lock, used, num_elements, lists, kernel, locals>>

\* ListManager::touch_chunk, whose lock makes test and allocation one step.
TouchChunk(t) ==
  /\ pc[t] = "touch"
  /\ chunks' = chunks \cup {ChunkOf(cell[t])}
  /\ Goto(t, "publish")
  /\ UNCHANGED <<data, lock, used, num_elements, lists, kernel, locals>>

Reuse(t) ==
  /\ pc[t] = "choose" /\ cursor[t] < Len(free_list)
  /\ cell' = [cell EXCEPT ![t] = Free(cursor[t])]
  /\ Goto(t, "publish")
  /\ UNCHANGED <<data, lock, used, heap, lists, kernel, slot, cursor>>

\* Store the pointer, release the lock.  The program may write the cell from
\* now on.
Publish(t) ==
  /\ pc[t] = "publish"
  /\ data' = [data EXCEPT ![slot[t]] = cell[t]]
  /\ lock' = [lock EXCEPT ![slot[t]] = FALSE]
  /\ used' = used \cup {cell[t]}
  /\ Return(t)
  /\ UNCHANGED <<heap, lists, kernel>>

-----------------------------------------------------------------------------
(* Pointer_deactivate                                                      *)

Deactivate(t, s) ==
  /\ InTask /\ pc[t] = "idle"
  /\ data[s] # Null
  /\ slot' = [slot EXCEPT ![t] = s]
  /\ Goto(t, "delock")
  /\ UNCHANGED <<data, lock, used, heap, lists, kernel, cursor, cell>>

DeactivateLock(t) ==
  /\ pc[t] = "delock" /\ ~lock[slot[t]]
  /\ IF data[slot[t]] # Null
     THEN lock' = [lock EXCEPT ![slot[t]] = TRUE] /\ Goto(t, "locate") /\ UNCHANGED locals
     ELSE UNCHANGED lock /\ Return(t)
  /\ UNCHANGED <<data, used, heap, lists, kernel>>

\* recycle: locate() walks the chunks up to the one that holds the cell, then
\* the number is appended.
Recycle(t) ==
  /\ pc[t] = "locate"
  /\ recycled_list' = Append(recycled_list, data[slot[t]])
  /\ Goto(t, "clear")
  /\ UNCHANGED <<data, lock, used, heap, free_list, free_list_used,
                 recycle_list_size_backup, kernel, locals>>

ClearSlot(t) ==
  /\ pc[t] = "clear"
  /\ data' = [data EXCEPT ![slot[t]] = Null]
  /\ lock' = [lock EXCEPT ![slot[t]] = FALSE]
  /\ Return(t)
  /\ UNCHANGED <<used, heap, lists, kernel>>

-----------------------------------------------------------------------------
(* Between tasks                                                           *)

TaskDone == InTask /\ \A t \in Threads : pc[t] = "idle"
Serial == UNCHANGED <<data, lock, pc, locals, num_elements, chunks, arch>>

\* A task that deactivates nothing is followed by no collection.
NextTask ==
  /\ TaskDone /\ recycled_list = <<>>
  /\ tasks' = tasks + 1
  /\ Serial /\ UNCHANGED <<used, lists, phase, todo>>

Compacted == SubSeq(free_list, free_list_used + 1, Len(free_list))

\* gc_serial
CollectSerial ==
  /\ TaskDone /\ arch = "cpu"
  /\ free_list' = Compacted \o recycled_list
  /\ free_list_used' = 0
  /\ recycled_list' = <<>>
  /\ used' = used \ ToSet(recycled_list)
  /\ tasks' = tasks + 1
  /\ Serial /\ UNCHANGED <<recycle_list_size_backup, phase, todo>>

\* gc_parallel_0: which element of free_list moves where.
MovesRight == free_list_used * 2 > Len(free_list)
ItemsToCopy == IF MovesRight THEN Unused ELSE free_list_used
\* MUTANT: always shift left by what is used.
SourceOfShifted(i) == free_list_used + i
SourceOf(i) == IF MovesRight THEN free_list_used + i
                             ELSE Len(free_list) - ItemsToCopy + i

StartCollect ==
  /\ TaskDone /\ arch = "gpu"
  /\ phase' = "gc0" /\ todo' = 0 .. ItemsToCopy - 1
  /\ Serial /\ UNCHANGED <<used, lists, tasks>>

\* One thread of gc_parallel_0 moves its element.
MoveFree(i) ==
  /\ phase = "gc0" /\ i \in todo
  /\ free_list' = [free_list EXCEPT ![i + 1] = Free(SourceOf(i))]
  /\ todo' = todo \ {i}
  /\ Serial
  /\ UNCHANGED <<used, free_list_used, recycled_list,
                 recycle_list_size_backup, phase, tasks>>

\* gc_parallel_1, a single thread.
ResetLists ==
  /\ phase = "gc0" /\ todo = {}
  /\ free_list' = SubSeq(free_list, 1, IF Unused > 0 THEN Unused ELSE 0)
  /\ free_list_used' = 0
  /\ recycle_list_size_backup' = Len(recycled_list)
  /\ phase' = "gc2" /\ todo' = 1 .. recycle_list_size_backup'
  /\ Serial /\ UNCHANGED <<used, recycled_list, tasks>>

\* MUTANT: the block pushes its cell and does not zero-fill it.
FreeRecycledDirty(i) ==
  /\ phase = "gc2" /\ i \in todo
  /\ free_list' = Append(free_list, recycled_list[i])
  /\ todo' = todo \ {i}
  /\ Serial
  /\ UNCHANGED <<used, free_list_used, recycled_list, recycle_list_size_backup,
                 phase, tasks>>

\* One block of gc_parallel_2 frees and zero-fills its cell.
FreeRecycled(i) ==
  /\ phase = "gc2" /\ i \in todo
  /\ free_list' = Append(free_list, recycled_list[i])
  /\ used' = used \ {recycled_list[i]}
  /\ todo' = todo \ {i}
  /\ Serial
  /\ UNCHANGED <<free_list_used, recycled_list, recycle_list_size_backup,
                 phase, tasks>>

\* recycled_list.clear() leaves its memory to gc_parallel_2 (which is why the
\* size is saved); the list is empty for the next task.
EndCollect ==
  /\ phase = "gc2" /\ todo = {}
  /\ recycled_list' = <<>>
  /\ phase' = "task" /\ tasks' = tasks + 1
  /\ Serial
  /\ UNCHANGED <<used, free_list, free_list_used, recycle_list_size_backup, todo>>

-----------------------------------------------------------------------------

Collect ==
  \/ CollectSerial \/ StartCollect
  \/ \E i \in todo : MoveFree(i) \/ FreeRecycled(i)
  \/ ResetLists \/ EndCollect

Terminated == tasks = MaxTasks /\ phase = "task" /\ UNCHANGED vars

Begin(t) == \E s \in Slots : Activate(t, s) \/ Deactivate(t, s)

Continue(t) ==
  \/ ActivateLock(t) \/ TakeCursor(t) \/ ReserveNew(t) \/ TouchChunk(t)
  \/ Reuse(t) \/ Publish(t)
  \/ DeactivateLock(t) \/ Recycle(t) \/ ClearSlot(t)

Next ==
  \/ \E t \in Threads : Begin(t) \/ Continue(t)
  \/ NextTask \/ Collect \/ Terminated

\* Every thread of a task is scheduled; nothing says that a loop body asks for
\* one more slot.  A task's bodies are finitely many, so that no slot's lock is
\* fought over forever (here: the cells are).

Spec == Init /\ [][Next]_vars /\ \A t \in Threads : WF_vars(Continue(t))

-----------------------------------------------------------------------------
\* While a task runs, every cell made so far has exactly one owner: the slot
\* that points to it, the thread that is about to publish it, a place in the
\* free list that is still to be handed out (or is reserved for the thread
\* that drew it), or a place in the recycled list (once its slot is cleared).
\* Two slots never share a cell and none is lost: what the interplay of
\* Pointer_activate, Pointer_deactivate and the collections must preserve.
Clearing(s) == \E t \in Threads : pc[t] = "clear" /\ slot[t] = s
SlotOwners(c) == {s \in Slots : data[s] = c /\ ~Clearing(s)}
ThreadOwners(c) == {t \in Threads : pc[t] \in {"touch", "publish"} /\ cell[t] = c}
DrawnPlaces == {cursor[t] : t \in {u \in Threads : pc[u] = "choose"}}
FreePlaces(c) == {i \in 0 .. Len(free_list) - 1 :
                    Free(i) = c /\ (i >= free_list_used \/ i \in DrawnPlaces)}
RecycledPlaces(c) == {i \in DOMAIN recycled_list : recycled_list[i] = c}

CellsOwnedOnce ==
  phase = "task" =>
    \A c \in 0 .. num_elements - 1 :
      Cardinality(SlotOwners(c)) + Cardinality(ThreadOwners(c))
        + Cardinality(FreePlaces(c)) + Cardinality(RecycledPlaces(c)) = 1

\* ptr2index walks the chunks in order and asserts "ptr not found." at the
\* first one that is missing: all chunks up to the cell's should be there.
PtrFound ==
  \A t \in Threads : pc[t] = "locate" => 0 .. ChunkOf(data[slot[t]]) \subseteq chunks

\* They need not be: an element is reserved before its chunk is allocated, so
\* that a later chunk may be in use first.  What holds is that the walk meets no
\* gap but one that is about to close.  The pointer's own chunk is there, and
\* of an earlier chunk that is missing every cell is in the hands of another
\* thread between reserve_new_element's fetch-and-add and touch_chunk.
CellsOf(k) == k * ChunkElements .. k * ChunkElements + ChunkElements - 1
AboutToTouch(t, c) == pc[t] = "touch" /\ cell[t] = c

GapsInFlight ==
  \A t \in Threads : pc[t] = "locate" =>
    /\ ChunkOf(data[slot[t]]) \in chunks
    /\ \A k \in 0 .. ChunkOf(data[slot[t]]) \ chunks :
         \A c \in CellsOf(k) : \E u \in Threads \ {t} : AboutToTouch(u, c)

\* The slots and the collector use the cells as a CellStore: a cell goes to
\* one slot at a time, zero-filled, and comes back only through a collection.
Held == {data[s] : s \in Slots} \ {Null}
Returned == IF phase = "gc2" THEN {recycled_list[i] : i \in todo}
                             ELSE ToSet(recycled_list) \ Held
Store == INSTANCE CellStore WITH Cell <- Cells, held <- Held, returned <- Returned,
                                 dirty <- used
ImplementsCellStore == Store!CellSpec

\* Each activation and deactivation that a thread begins comes to an end: no
\* slot lock is left held and none is waited for forever.
OperationsEnd == \A t \in Threads : pc[t] # "idle" ~> pc[t] = "idle"
=============================================================================
