---------------------------- MODULE KernelLoops ----------------------------
(***************************************************************************)
(* The parallel loops of a kernel on the CPU: how a range-for, a mesh-for  *)
(* and a struct-for over a sparse field are cut into tasks, run by the     *)
(* threads of parallel_for, and reduced.                                   *)
(*                                                                         *)
(* A range-for is cut into blocks of block_dim indices, or, by the pass    *)
(* make_cpu_multithreaded_range_for, into one block per thread.  A         *)
(* struct-for first rebuilds the element lists on the way from the root to *)
(* its leaf block (clear, list, clear, list: serial tasks of the kernel),  *)
(* and cuts every element of the last list into num_splits parts.          *)
(*                                                                         *)
(* The field is root.pointer(blocks).dense|bitmasked(leaf).  An index of   *)
(* the loop is an integer; that of cell j of block p is p * leaf + j.      *)
(* Below the loops lies the contract of the pool, ParallelFor.             *)
(***************************************************************************)
EXTENDS Integers, Sequences, SequencesExt

CONSTANTS
  Threads,        \* threads of the pool
  IntMax,         \* largest int: 2^31 - 1 scaled down
  Ranges,         \* <<begin, end>> of the range-fors
  BlockDims,      \* block_dim of the loops, 0 where it is left to the program
  Patches,        \* num_patches of the mesh-fors
  Shapes,         \* <<cells of the pointer node, cells of its child>>
  NumCpuThreads,  \* cpu_max_num_threads
  MinBlock,       \* minimal_block_range: 512
  MeshBlock,      \* largest adaptive block of a mesh-for: 512
  MeshLoad,       \* tasks per thread a mesh-for aims at: 32
  ListgenMax,     \* taichi_listgen_max_element_size: 1024
  GpuBlock,       \* default_gpu_block_dim, also what the CPU starts from
  MaxLaunches,    \* bound: loops a behaviour runs
  MaxWrites       \* bound: cells written, by the host or by loop bodies

ASSUME LoopAssumption ==
  /\ IsFiniteSet(Threads)
  /\ IntMax \in Nat
  /\ {NumCpuThreads, MinBlock, MeshBlock, MeshLoad, ListgenMax, GpuBlock}
       \subseteq 1 .. IntMax
  /\ BlockDims \subseteq 0 .. IntMax
  /\ Ranges \subseteq (-(IntMax + 1) .. IntMax) \X (-(IntMax + 1) .. IntMax)
  /\ Patches \subseteq 0 .. IntMax
  /\ Shapes \subseteq (1 .. IntMax) \X (1 .. IntMax)

VARIABLES
  field,    \* the SNode tree: its shape, its leaf type, what is active
  lists,    \* runtime->element_lists of the two SNodes
  loop,     \* the loop launched last, or NoLoop
  step,     \* the offloaded task the kernel is at
  call, pending, active,  \* the pool: see ParallelFor
  cursor,   \* per thread: the rest of its task
  tls,      \* per thread: the TLS buffer of its task
  total,    \* the global the loop reduces into
  visits,   \* the indices the body ran for, a bag
  due,      \* the cells that were active when the loop was launched
  launches, writes

pool == <<call, pending, active>>
work == <<cursor, tls, total, visits>>
vars == <<field, lists, loop, step, pool, work, due, launches, writes>>

NoLoop == [kind |-> "none"]
RangeLoops == {[kind |-> "range", begin |-> r[1], end |-> r[2], block |-> d] :
                 r \in Ranges, d \in BlockDims \ {0}}
ThreadLoops == {[kind |-> "threads", begin |-> r[1], end |-> r[2]] : r \in Ranges}
MeshLoops == {[kind |-> "mesh", patches |-> n, block |-> d] : n \in Patches, d \in BlockDims}
StructLoops == {[kind |-> "struct", block |-> d] : d \in BlockDims}

Pool == INSTANCE ParallelFor
          WITH Contexts <- RangeLoops \cup ThreadLoops \cup MeshLoops \cup StructLoops,
               Splits <- Int

----------------------------------------------------------------------------
(* int, as the loops compute with it *)

Wrap(x) == ((x + IntMax + 1) % (2 * (IntMax + 1))) - (IntMax + 1)
Least(a, b) == IF a < b THEN a ELSE b
Most(a, b) == IF a > b THEN a ELSE b
\* `/' of C truncates.
Quotient(a, b) == IF a >= 0 THEN a \div b ELSE -((-a) \div b)

----------------------------------------------------------------------------
(* The field *)

Leaf == field.leaf
Cells(p) == p * Leaf .. p * Leaf + Leaf - 1
BlockOf(c) == c \div Leaf
AllCells == 0 .. field.blocks * Leaf - 1

\* is_active of the leaf block: a dense one has no mask.
IsActive(c) == /\ BlockOf(c) \in field.on
               /\ field.type = "bitmasked" => c \in field.mask

ActiveCells == {c \in AllCells : IsActive(c)}

\* A write to x[c] activates every node on the way to c.
Written(f, c) ==
  [f EXCEPT !.on = @ \cup {c \div f.leaf},
            !.mask = IF f.type = "bitmasked" THEN @ \cup {c} ELSE @]

----------------------------------------------------------------------------
(* Element lists *)

ChunkSize(n) == Least(n, ListgenMax)

\* The elements of one container of n cells, at most ListgenMax cells each.
Chunks(at, n) ==
  [c \in 1 .. (n + ChunkSize(n) - 1) \div ChunkSize(n) |->
     [at |-> at, lo |-> (c - 1) * ChunkSize(n), hi |-> Least(c * ChunkSize(n), n)]]

\* clear_list
Cleared(s) == <<>>

\* What the offloaded listgen tasks append: element_listgen_root expands the
\* only container of the root's child, element_listgen_nonroot one container
\* per active cell of the parent's elements.
RootElements == Chunks(0, field.blocks)
ChildElements(p) == IF p \in field.on THEN Chunks(p, Leaf) ELSE <<>>
ElementsUnder(e) ==
  FlattenSeq([m \in 1 .. e.hi - e.lo |-> ChildElements(e.lo + m - 1)])
LeafElements ==
  FlattenSeq([k \in 1 .. Len(lists.blocks) |-> ElementsUnder(lists.blocks[k])])

----------------------------------------------------------------------------
(* Tasks *)

\* cpu_parallel_range_for
RangeTasks(l) == Quotient(Wrap(l.end - l.begin + l.block - 1), l.block)

\* Variant: a block takes the first index of the next one, too.
RangeTaskInclusive(l, i) ==
  LET start == Wrap(l.begin + i * l.block)
  IN [at |-> 0, lo |-> start, hi |-> Least(Wrap(start + l.block + 1), l.end)]

RangeTask(l, i) ==
  LET start == Wrap(l.begin + i * l.block)
  IN [at |-> 0, lo |-> start, hi |-> Least(Wrap(start + l.block), l.end)]

\* make_cpu_multithreaded_range_for: task i is thread block i.
ThreadRange(l) ==
  Most(Wrap(Wrap(l.end - l.begin) + NumCpuThreads - 1) \div NumCpuThreads, MinBlock)
ThreadTask(l, i) ==
  LET start == Wrap(l.begin + Wrap(ThreadRange(l) * i))
  IN [at |-> 0, lo |-> start, hi |-> Least(l.end, Wrap(start + ThreadRange(l)))]

\* cpu_parallel_mesh_for
MeshBlockOf(l) ==
  IF l.block # 0 THEN l.block
  ELSE Least(MeshBlock, Most(1, l.patches \div (NumCpuThreads * MeshLoad)))
MeshTasks(l) == (l.patches + MeshBlockOf(l) - 1) \div MeshBlockOf(l)
MeshTask(l, i) ==
  LET start == i * MeshBlockOf(l)
  IN [at |-> 0, lo |-> start, hi |-> Least(start + MeshBlockOf(l), l.patches)]

\* The block_dim of a struct-for: clipped to the cells of the leaf block when
\* the kernel is split, and to those of its parent when it is generated.
StructBlock(l) ==
  Least(field.blocks, Least(IF l.block = 0 THEN GpuBlock ELSE l.block, Leaf))
ElementSize == ChunkSize(Leaf)
NumSplits(l) ==
  Most(1, ElementSize \div StructBlock(l)
          + (IF ElementSize % StructBlock(l) # 0 THEN 1 ELSE 0))

\* parallel_struct_for, cpu_struct_for_block_helper
StructTasks(l) == Len(lists.leaf) * NumSplits(l)

\* Variant: the last part of an element runs over its upper bound.
StructTaskUnclipped(l, i) ==
  LET e == lists.leaf[i \div NumSplits(l) + 1]
      size == ElementSize \div NumSplits(l)
      lower == e.lo + (i % NumSplits(l)) * size
  IN [at |-> e.at, lo |-> lower, hi |-> lower + size]

StructTask(l, i) ==
  LET e == lists.leaf[i \div NumSplits(l) + 1]
      size == ElementSize \div NumSplits(l)
      lower == e.lo + (i % NumSplits(l)) * size
  IN [at |-> e.at, lo |-> lower, hi |-> Least(lower + size, e.hi)]

Tasks(l) ==
  CASE l.kind = "range" -> RangeTasks(l)
    [] l.kind = "threads" -> NumCpuThreads
    [] l.kind = "mesh" -> MeshTasks(l)
    [] l.kind = "struct" -> StructTasks(l)

Task(l, i) ==
  CASE l.kind = "range" -> RangeTask(l, i)
    [] l.kind = "threads" -> ThreadTask(l, i)
    [] l.kind = "mesh" -> MeshTask(l, i)
    [] l.kind = "struct" -> StructTask(l, i)

----------------------------------------------------------------------------
(* The kernel *)

NoTask == [at |-> 0, lo |-> 0, hi |-> 0]

Init ==
  /\ field \in {[blocks |-> s[1], leaf |-> s[2], type |-> k, on |-> {}, mask |-> {}] :
                  s \in Shapes, k \in {"dense", "bitmasked"}}
  /\ lists = [blocks |-> <<>>, leaf |-> <<>>]
  /\ loop = NoLoop
  /\ step = "idle"
  /\ Pool!Init
  /\ cursor = [t \in Threads |-> NoTask]
  /\ tls = [t \in Threads |-> 0]
  /\ total = 0 /\ visits = EmptyBag /\ due = {}
  /\ launches = 0 /\ writes = 0

\* Other kernels, between two loops: one writes a cell, one deactivates a
\* block, whose container is zeroed before it is used again.
Write(c) ==
  /\ step = "idle" /\ writes < MaxWrites
  /\ field' = Written(field, c)
  /\ writes' = writes + 1
  /\ UNCHANGED <<lists, loop, step, pool, work, due, launches>>

Deactivate(p) ==
  /\ step = "idle" /\ p \in field.on
  /\ field' = [field EXCEPT !.on = @ \ {p}, !.mask = @ \ Cells(p)]
  /\ UNCHANGED <<lists, loop, step, pool, work, due, launches, writes>>

\* A kernel begins: `first' is the first of its offloaded tasks.
Launch(l, first) ==
  /\ step = "idle" /\ launches < MaxLaunches
  /\ loop' = l
  /\ step' = first
  /\ total' = 0 /\ visits' = EmptyBag
  /\ due' = ActiveCells
  /\ UNCHANGED <<field, lists, pool, cursor, tls, writes>>

\* A loop over indices leaves nothing behind that a later loop reads: a
\* behaviour runs one (bound), or MaxLaunches loops over the field.
LaunchFlat ==
  /\ launches = 0 /\ writes = 0
  /\ \E l \in RangeLoops \cup ThreadLoops \cup MeshLoops : Launch(l, "loop")
  /\ launches' = MaxLaunches

LaunchStruct ==
  /\ \E l \in StructLoops : Launch(l, "clear_blocks")
  /\ launches' = launches + 1

\* The serial tasks before a struct-for.
ClearList(s, at, next) ==
  /\ step = at
  /\ step' = next
  /\ lists' = [lists EXCEPT ![s] = Cleared(s)]
  /\ UNCHANGED <<field, loop, pool, work, due, launches, writes>>

Listgen(s, elements, at, next) ==
  /\ step = at
  /\ step' = next
  /\ lists' = [lists EXCEPT ![s] = @ \o elements]
  /\ UNCHANGED <<field, loop, pool, work, due, launches, writes>>

ClearBlocks == ClearList("blocks", "clear_blocks", "list_blocks")
ElementListgenRoot == Listgen("blocks", RootElements, "list_blocks", "clear_leaf")
ClearLeaf == ClearList("leaf", "clear_leaf", "list_leaf")
ElementListgenNonroot == Listgen("leaf", LeafElements, "list_leaf", "loop")

----------------------------------------------------------------------------
(* The parallel task *)

\* Variant: the buffer keeps what was on the stack.
PrologueNone(t) == tls[t]

\* The prologue of a reduction zeroes the buffer of the task (make_thread_local),
\* that of a patch puts the patch's own offset there (make_mesh_thread_local).
Prologue(t) == 0
MeshPrologue(patch) == patch

ParallelFor ==
  /\ step = "loop"
  /\ Pool!Enter(loop, Tasks(loop))
  /\ step' = "running"
  /\ UNCHANGED <<field, lists, loop, work, due, launches, writes>>

BeginTask(t, i) ==
  /\ Pool!Begin(t, i)
  /\ cursor' = [cursor EXCEPT ![t] = Task(loop, i)]
  /\ tls' = [tls EXCEPT ![t] = IF loop.kind = "mesh" THEN @ ELSE Prologue(t)]
  /\ UNCHANGED <<field, lists, loop, step, total, visits, due, launches, writes>>

AtWork(t) == active[t] # Pool!Resting /\ cursor[t].lo < cursor[t].hi
Advance(t) == cursor' = [cursor EXCEPT ![t].lo = @ + 1]
Visit(i) == visits' = visits (+) SetToBag({i})

\* One iteration of a range-for; the body adds i to the sum.
BodyRange(t) ==
  /\ AtWork(t) /\ loop.kind \in {"range", "threads"}
  /\ Advance(t)
  /\ Visit(cursor[t].lo)
  /\ tls' = [tls EXCEPT ![t] = @ + cursor[t].lo]
  /\ UNCHANGED <<field, lists, loop, step, pool, total, due, launches, writes>>

\* One patch of a mesh-for: its prologue, and its body, which finds its elements
\* at the offset in the buffer and adds to the global sum atomically.
BodyMesh(t) ==
  /\ AtWork(t) /\ loop.kind = "mesh"
  /\ Advance(t)
  /\ Visit(cursor[t].lo)
  /\ tls' = [tls EXCEPT ![t] = MeshPrologue(cursor[t].lo)]
  /\ total' = total + tls'[t]
  /\ UNCHANGED <<field, lists, loop, step, pool, due, launches, writes>>

\* One cell of a struct-for: skipped when it is not active; its body may
\* write any other cell.
CellAt(t) == cursor[t].at * Leaf + cursor[t].lo
Runs(c) == field.type = "bitmasked" => c \in field.mask

\* Variant: `continue' jumps to the loop test, not to its tail.
SkipCellInPlace(t) ==
  /\ AtWork(t) /\ loop.kind = "struct" /\ ~Runs(CellAt(t))
  /\ UNCHANGED vars

SkipCell(t) ==
  /\ AtWork(t) /\ loop.kind = "struct" /\ ~Runs(CellAt(t))
  /\ Advance(t)
  /\ UNCHANGED <<field, lists, loop, step, pool, tls, total, visits, due, launches, writes>>

BodyCell(t, c) ==
  /\ AtWork(t) /\ loop.kind = "struct" /\ Runs(CellAt(t))
  /\ Advance(t)
  /\ Visit(CellAt(t))
  /\ tls' = [tls EXCEPT ![t] = @ + CellAt(t)]
  /\ \/ UNCHANGED <<field, writes>>
     \/ /\ writes < MaxWrites
        /\ field' = Written(field, c)
        /\ writes' = writes + 1
  /\ UNCHANGED <<lists, loop, step, pool, total, due, launches>>

\* The epilogue adds the task's sum to the global one, atomically; a mesh-for
\* does not reduce in its buffer.
Epilogue(t) == IF loop.kind = "mesh" THEN 0 ELSE tls[t]

EndTask(t) ==
  /\ Pool!End(t)
  /\ ~AtWork(t)
  /\ total' = total + Epilogue(t)
  /\ cursor' = [cursor EXCEPT ![t] = NoTask]
  /\ UNCHANGED <<field, lists, loop, step, tls, visits, due, launches, writes>>

Return ==
  /\ Pool!Return
  /\ step' = "idle"
  /\ tls' = [t \in Threads |-> 0]
  /\ UNCHANGED <<field, lists, loop, cursor, total, visits, due, launches, writes>>

Kernel ==
  \/ ClearBlocks \/ ElementListgenRoot
  \/ ClearLeaf \/ ElementListgenNonroot
  \/ ParallelFor
  \/ \E t \in Threads, i \in pending : BeginTask(t, i)
  \/ \E t \in Threads : BodyRange(t) \/ BodyMesh(t) \/ SkipCell(t) \/ EndTask(t)
  \/ \E t \in Threads, c \in AllCells : BodyCell(t, c)
  \/ Return

Program ==
  \/ \E c \in AllCells : Write(c)
  \/ \E p \in 0 .. field.blocks - 1 : Deactivate(p)
  \/ LaunchFlat
  \/ LaunchStruct

Next == Kernel \/ Program

\* A kernel that was launched is worked on: ParallelFor!Spec for the pool, and
\* loop bodies that come to an end.
Spec == Init /\ [][Next]_vars /\ WF_vars(Kernel)

----------------------------------------------------------------------------
(* Properties *)

Finished == step = "idle" /\ loop # NoLoop

\* Masks belong to active blocks, a list is never longer than the containers
\* allow, and threads hold tasks only while the kernel is in its loop.
TypeOK ==
  /\ field.on \subseteq 0 .. field.blocks - 1
  /\ field.mask \subseteq UNION {Cells(p) : p \in field.on}
  /\ \A t \in Threads : cursor[t] # NoTask => active[t] # Pool!Resting
  /\ Len(lists.leaf) <= field.blocks * ((Leaf + ElementSize - 1) \div ElementSize)
  /\ step # "running" => call = Pool!Idle /\ cursor = [t \in Threads |-> NoTask]

\* The loop's arithmetic stays within int: a block that begins inside the range
\* may end up to a block above it, and the length of a range reversed by more
\* than IntMax wraps to a positive one.
BoundsFit(l) ==
  CASE l.kind = "range" -> /\ l.end + l.block - 1 <= IntMax
                           /\ l.end - l.begin + l.block - 1 \in -(IntMax + 1) .. IntMax
    [] l.kind = "threads" -> /\ l.begin + ThreadRange(l) * NumCpuThreads <= IntMax
                             /\ l.end - l.begin + NumCpuThreads - 1 <= IntMax
    [] OTHER -> TRUE

Indices(l) == IF l.kind = "mesh" THEN 0 .. l.patches - 1 ELSE l.begin .. l.end - 1

\* However a range-for or a mesh-for is cut, the body runs for no index twice
\* and for none outside the range, and when the call returns it has run for
\* all of them: also for empty and reversed ranges, and for blocks that do not
\* divide the range (cpu_parallel_range_for, cpu_parallel_mesh_for,
\* make_cpu_multithreaded_range_for).
EveryIndexOnce ==
  loop.kind \in {"range", "threads", "mesh"} /\ BoundsFit(loop) =>
    /\ \A i \in BagToSet(visits) : i \in Indices(loop) /\ visits[i] = 1
    /\ Finished => BagToSet(visits) = Indices(loop)

\* The parts an element is cut into cover it: num_splits divides the size.
SplitsEvenly(l) == ElementSize % NumSplits(l) = 0

\* A struct-for runs its body for no cell twice and for no inactive one, while
\* bodies activate further cells; where the parts cover the elements, it runs
\* for every cell that was active when the kernel was launched
\* (element_listgen_*, parallel_struct_for).
ActiveCellsOnce ==
  loop.kind = "struct" =>
    /\ \A c \in BagToSet(visits) : visits[c] = 1
    /\ step = "running" => \A c \in BagToSet(visits) : IsActive(c)
    /\ Finished /\ SplitsEvenly(loop) => due \subseteq BagToSet(visits)

\* docs/lang/articles/internals/internal.md:158: "Struct-fors in Taichi loop
\* over all active elements of a (sparse) data structure in parallel."
AllActiveElements ==
  loop.kind = "struct" /\ Finished => due \subseteq BagToSet(visits)

\* A reduction of a parallel loop adds up: every index contributes once, whatever
\* thread, task or patch it was part of, and the buffers start from zero
\* (make_thread_local, the prologues and epilogues of the tasks and patches).
ReductionsAddUp ==
  Finished => total = SumFunction([i \in BagToSet(visits) |-> i * visits[i]])

\* Every kernel that is launched comes to its end.
KernelsEnd == step # "idle" ~> step = "idle"
=============================================================================
