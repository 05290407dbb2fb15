---------------------------- MODULE DynamicNode ----------------------------
(***************************************************************************)
(* A dynamic SNode (src/taichi/runtime/llvm/runtime_module/node_dynamic.h): *)
(* a list whose length is n, kept in chunks of ChunkSize elements.  The    *)
(* chunks are cells of a CellStore, linked through a pointer at their      *)
(* front; a zero-filled cell ends the chain.                               *)
(*                                                                         *)
(* Any number of threads append and activate without a lock, but for the   *)
(* allocation of a chunk.  Deactivation frees the chain under the same     *)
(* lock.  Programs keep the two apart: a walk whose chain is pulled away   *)
(* reads freed memory, and that is not modelled.                           *)
(***************************************************************************)
EXTENDS Naturals, CellStore

CONSTANTS
  Threads,
  ChunkSize,   \* elements per chunk
  MaxN,        \* bound on the length of the list
  Head, Null   \* the place node->ptr, and nullptr

ASSUME DynamicAssumption ==
  /\ ChunkSize \in Nat \ {0} /\ MaxN \in Nat /\ IsFiniteSet(Cell)
  /\ Head \notin Cell /\ Null \notin Cell /\ Head # Null

Places == Cell \cup {Head}

VARIABLES
  n,      \* node->n
  ptr,    \* node->ptr and the pointer at the front of every cell
  lock,   \* whether node->lock is held
  pc,     \* where each thread is
  want,   \* i: the element it is after
  place,  \* p_chunk_ptr
  chunk   \* chunk_start, in chunks

node == <<n, ptr, lock>>
thread == <<pc, want, place, chunk>>
vars == <<node, thread, cellVars>>

Init ==
  /\ n = 0 /\ ptr = [p \in Places |-> Null] /\ lock = FALSE
  /\ pc = [t \in Threads |-> "idle"]
  /\ want = [t \in Threads |-> 0]
  /\ place = [t \in Threads |-> Head]
  /\ chunk = [t \in Threads |-> 0]
  /\ CellInit

Goto(t, label) == pc' = [pc EXCEPT ![t] = label]

\* Back in the loop body, where the locals are out of scope.
Return(t) ==
  /\ Goto(t, "idle")
  /\ want' = [want EXCEPT ![t] = 0]
  /\ place' = [place EXCEPT ![t] = Head]
  /\ chunk' = [chunk EXCEPT ![t] = 0]

\* Cells suffice for the longest list; otherwise the task has to end first.
Room == Cardinality(Cell \ returned) * ChunkSize >= MaxN

Growing(t) == pc[t] \in {"test", "lock", "walk"}
Freeing(t) == pc[t] \in {"delock", "free", "unlink"}
MayGrow == \A t \in Threads : ~Freeing(t)
MayFree == \A t \in Threads : ~Growing(t)

-----------------------------------------------------------------------------
\* Dynamic_activate: raise n to i + 1, then find the chunk of element i.
Activate(t, i) ==
  /\ pc[t] = "idle" /\ MayGrow /\ Room
  /\ n' = IF n < i + 1 THEN i + 1 ELSE n
  /\ want' = [want EXCEPT ![t] = i]
  /\ Goto(t, "test")
  /\ UNCHANGED <<ptr, lock, place, chunk, cellVars>>

\* Dynamic_allocate, the append: draw element n, then find its chunk.
Append(t) ==
  /\ pc[t] = "idle" /\ MayGrow /\ Room /\ n < MaxN
  /\ n' = n + 1
  /\ want' = [want EXCEPT ![t] = n]
  /\ Goto(t, "test")
  /\ UNCHANGED <<ptr, lock, place, chunk, cellVars>>

\* The unlocked test of *p_chunk_ptr.
TestChunk(t) ==
  /\ pc[t] = "test"
  /\ Goto(t, IF ptr[place[t]] = Null THEN "lock" ELSE "walk")
  /\ UNCHANGED <<node, want, place, chunk, cellVars>>

\* MUTANT: the test inside the lock is forgotten.
AllocateChunkUntested(t) ==
  /\ pc[t] = "lock" /\ ~lock
  /\ \E c \in Cell : Take(c) /\ ptr' = [ptr EXCEPT ![place[t]] = c]
  /\ Goto(t, "walk")
  /\ UNCHANGED <<n, lock, want, place, chunk>>

\* locked_task: nothing of the allocation shows before the one store to
\* *p_chunk_ptr, so that the locked region is one step.
AllocateChunk(t) ==
  /\ pc[t] = "lock" /\ ~lock
  /\ IF ptr[place[t]] = Null
     THEN \E c \in Cell : Take(c) /\ ptr' = [ptr EXCEPT ![place[t]] = c]
     ELSE UNCHANGED <<ptr, cellVars>>
  /\ Goto(t, "walk")
  /\ UNCHANGED <<n, lock, want, place, chunk>>

\* MUTANT: the element after the last one of a chunk is looked for in it.
InChunkOffByOne(t) == want[t] <= (chunk[t] + 1) * ChunkSize

InChunk(t) == want[t] < (chunk[t] + 1) * ChunkSize

\* The chunk is found, ...
Found(t) ==
  /\ pc[t] = "walk" /\ InChunk(t)
  /\ Return(t)
  /\ UNCHANGED <<node, cellVars>>

\* ... or the walk goes on at the next one.
NextChunk(t) ==
  /\ pc[t] = "walk" /\ ~InChunk(t)
  /\ place' = [place EXCEPT ![t] = ptr[place[t]]]
  /\ chunk' = [chunk EXCEPT ![t] = chunk[t] + 1]
  /\ Goto(t, "test")
  /\ UNCHANGED <<node, want, cellVars>>

-----------------------------------------------------------------------------
\* Dynamic_deactivate

Deactivate(t) ==
  /\ pc[t] = "idle" /\ MayFree /\ n > 0
  /\ Goto(t, "delock")
  /\ UNCHANGED <<node, want, place, chunk, cellVars>>

DeactivateLock(t) ==
  /\ pc[t] = "delock" /\ ~lock
  /\ lock' = TRUE /\ n' = 0
  /\ Goto(t, "free")
  /\ UNCHANGED <<ptr, want, place, chunk, cellVars>>

\* recycle(*p_chunk_ptr), and on along the chain, which keeps its links.
FreeChunk(t) ==
  /\ pc[t] = "free"
  /\ IF ptr[place[t]] # Null
     THEN /\ Give(ptr[place[t]])
          /\ place' = [place EXCEPT ![t] = ptr[place[t]]]
          /\ UNCHANGED pc
     ELSE Goto(t, "unlink") /\ UNCHANGED <<place, cellVars>>
  /\ UNCHANGED <<node, want, chunk>>

\* MUTANT: the lock is never released.
UnlinkLocked(t) ==
  /\ pc[t] = "unlink"
  /\ ptr' = [ptr EXCEPT ![Head] = Null]
  /\ Return(t)
  /\ UNCHANGED <<n, lock, cellVars>>

Unlink(t) ==
  /\ pc[t] = "unlink"
  /\ ptr' = [ptr EXCEPT ![Head] = Null]
  /\ lock' = FALSE
  /\ Return(t)
  /\ UNCHANGED <<n, cellVars>>

\* The collection after the task zero-fills what was recycled.
Collect ==
  /\ \A t \in Threads : pc[t] = "idle"
  /\ Clean(returned)
  /\ ptr' = [p \in Places |-> IF p \in returned THEN Null ELSE ptr[p]]
  /\ UNCHANGED <<n, lock, thread>>

-----------------------------------------------------------------------------
Continue(t) ==
  \/ TestChunk(t) \/ AllocateChunk(t) \/ Found(t) \/ NextChunk(t)
  \/ DeactivateLock(t) \/ FreeChunk(t) \/ Unlink(t)

Next ==
  \/ \E t \in Threads :
       \/ \E i \in 0 .. MaxN - 1 : Activate(t, i)
       \/ Append(t) \/ Deactivate(t) \/ Continue(t)
  \/ Collect

\* Every thread of a task is scheduled.
Spec == Init /\ [][Next]_vars /\ \A t \in Threads : WF_vars(Continue(t))

-----------------------------------------------------------------------------
\* No thread ever follows a null pointer: place is a place.
TypeOK ==
  /\ n \in 0 .. MaxN /\ lock \in BOOLEAN
  /\ ptr \in [Places -> Cell \cup {Null}]
  /\ pc \in [Threads -> {"idle", "test", "lock", "walk", "delock", "free", "unlink"}]
  /\ want \in [Threads -> 0 .. MaxN]
  /\ place \in [Threads -> Places]
  /\ chunk \in [Threads -> 0 .. MaxN]

\* The k-th chunk of the list, or Null.
Chain ==
  LET at[k \in 0 .. Cardinality(Cell)] ==
        IF k = 0 THEN ptr[Head] ELSE IF at[k - 1] = Null THEN Null ELSE ptr[at[k - 1]]
  IN at
Linked == {Chain[k] : k \in DOMAIN Chain} \ {Null}

Idle == \A t \in Threads : pc[t] = "idle"

\* "... make sure the chunk containing element i is allocated"
\* (node_dynamic.h:19): when no operation is under way each element below n has
\* its chunk, so that Dynamic_lookup_element never runs off the chain.
ChunksAllocated == Idle => \A i \in 0 .. n - 1 : Chain[i \div ChunkSize] # Null

\* The list holds its chunks and nothing else does: a chunk that is allocated
\* is linked, exactly once, and a recycled one is not.
NoChunkLost == Idle => held = Linked /\ (\A j, k \in DOMAIN Chain :
                                  j # k /\ Chain[j] # Null => Chain[j] # Chain[k])

\* An append or activation ends at the chunk of its element: the k-th of the
\* chain, held by the list.  Appends draw different elements, hence they never
\* write to one place.
EndsInPlace ==
  [][\A t \in Threads :
       pc[t] = "walk" /\ pc'[t] = "idle" =>
         /\ ptr[place[t]] = Chain[want[t] \div ChunkSize]
         /\ ptr[place[t]] \in held]_vars

\* Every operation that a thread begins comes to an end.
OperationsEnd == \A t \in Threads : pc[t] # "idle" ~> pc[t] = "idle"
=============================================================================
