# Taichi: a verification project

TLA+ modules for the stateful and concurrent parts of Taichi, the TLC
configurations that check them on small instances, and TLAPS proofs of the
main results.  Paths are relative to `src/`.

## 1. Inventory

Taichi compiles Python kernels to native tasks and launches them.  Most of the
repository is a compiler: a kernel becomes a tree of CHI IR statements that some
forty passes rewrite in place, several of them again and again until nothing
changes.  The state that outlives a call, and the concurrency, is in the runtime
around it.

| Part | State | Operations | Hard because |
|---|---|---|---|
| CPU thread pool (`taichi/system/threading.*`) | task counter, job number, who runs | `run`, `target`, destructor | lock-free counter next to a mutex and two condition variables |
| Compilation workers (`taichi/program/parallel_executor.*`) | task queue, status | `enqueue`, `flush`, worker loop, destructor | three condition variables, notifications outside the mutex |
| CPU loop splitting (`runtime.cpp`: `cpu_parallel_range_for`, `parallel_struct_for`, mesh-for) | none | index range to tasks | rounding, empty and reversed ranges |
| Sparse data runtime (`taichi/runtime/llvm/runtime_module/`) | lists of chunks, free and recycled lists per SNode, cell locks | `NodeManager::allocate/recycle/gc`, pointer, dynamic, bitmasked activation | every loop iteration is an actor; double-checked locks; reuse only after a GC |
| Host memory pool (`taichi/rhi/common/`) | chunks with a bump pointer | `allocate`, `release`, `reset` | reuse and overlap |
| Device memory pool (`taichi/rhi/llvm/allocator.*`, `device_memory_pool.*`) | free blocks by size and by address | `allocate`, `release`, merge, trim | splitting and merging, two indices that must agree |
| Program and SNode trees (`taichi/program/program.cpp`, `snode_tree_buffer_manager.*`) | trees, free tree ids, ndarrays, argpacks | add, destroy, finalize | ids are reused |
| GFX runtime (`taichi/runtime/gfx/`) | current command list, buffers and ndarrays in use, image layouts | launch, flush, synchronize, track image | work is deferred: the host object may go before the device uses it |
| Vulkan stream (`taichi/rhi/vulkan/vulkan_device.*`) | submitted command buffers with their resources | submit, command_sync | lifetime of what the device still reads |
| Kernel cache (`taichi/compilation_manager/`, `taichi/util/offline_cache.*`, `taichi/util/lock.h`) | in-memory table, files, metadata file, lock file | load, compile, dump, clean | several processes; crashes between files |
| Runtime errors (`runtime.cpp`: `taichi_assert_format`) | error code, message, arguments | record, retrieve | many threads fail at once |
| Compiler passes (`taichi/transforms/`, `taichi/analysis/`, `taichi/ir/`) | one IR tree per kernel | `lower_ast`, the passes of `full_simplify`, the control-flow graph passes, demotion, caching | every pass relies on what the others leave behind; aliasing, early exits, repetition to a fixpoint |
| Code generators, JIT | modules | | translation, large |
| C API, AOT loader | handles | wrappers | thin over the RHI |
| Python frontend (`python/taichi/`), GGUI, profiler | Python objects | | single-threaded glue |
| Other RHI back ends (CUDA, AMDGPU, DX11/12, Metal, OpenGL) | driver objects | | wrappers over drivers |

How they interact: a `Program` owns a back end (`ProgramImpl`).  Launching a
kernel asks the kernel cache for a compiled kernel, which LLVM back ends compile
with a pool of workers, one task per offload, against the struct modules of the
SNode trees; then a launcher runs its tasks: on the CPU through the thread
pool's `parallel_for`, on GFX back ends by recording a command list that a
Vulkan (or other) stream executes later.  Tasks
on CPU and CUDA call the sparse runtime, which takes memory from the host or
the device pool.  Nothing in the runtime is told when Python drops a field or
an array other than by `destroy_snode_tree` and `delete_ndarray`.

## 2. Plan

Order: first what every parallel kernel rests on and what many threads or
processes touch at once; then single-threaded books that must agree.

| # | Module | Composes | State |
|---|---|---|---|
| 1 | `ParallelFor` (abstract), `ThreadPool` | ThreadPool implements ParallelFor | done, proved |
| 2 | `CellStore` (abstract), `NodeManager` | NodeManager implements CellStore | done, proved |
| 3 | `DynamicNode` | extends CellStore: dynamic lists take their chunks from it | done, proved |
| 4 | `KernelCache` | processes over one directory | done, proved |
| 5 | `DeviceMemory`, `HostMemory` | | done, proved |
| 6 | `KernelLoops` | has a `ParallelFor` as its pool | done, proved |
| 7 | `ChiIR`, `KernelAst`, `LowerAst`, `ControlFlowGraph`, `SimplifyPasses`, `CompilePasses`, `Compiler` | the passes, in the order of `compile_to_offloads`, against what the kernel means | done |
| 8 | `GfxRuntime`: command list, `ndarrays_in_use_`, `argpacks_in_use_`, streams of Vulkan and OpenGL | | done, proved |
| 9 | `TaskQueue` (abstract), `ParallelExecutor`: compilation workers and `flush` | ParallelExecutor implements TaskQueue | done, proved |
| 10 | `SNodeTrees`: ids and struct modules of trees created and destroyed, kernels compiled against them | has a `TaskQueue` as its workers | done, proved |

Proofs about single passes of the compiler were considered and left: each pass
is a recursion over the tree of a program, and what it computes for every
program is an induction over data (section 6).

Four abstract specifications carry the structure.  `ParallelFor` is what a
compiled kernel assumes of the pool: `ThreadPool` is shown to implement it, and
`KernelLoops`, which is built on it by `INSTANCE`, to use it in no other way
(both by proof), so that what `KernelLoops` shows of a kernel holds over the
real pool.  `CellStore` is what
an SNode assumes of its memory: `NodeManager` is shown to implement it, and
`DynamicNode` extends it.  `TaskQueue` is what compiling a kernel assumes of its
workers: `ParallelExecutor` is shown to implement it, and `SNodeTrees` is built
on it.  `KernelAst` is what a kernel means to who wrote it,
and every pass of `Compiler` has to keep it.

## 3. Modules

Comments in each module name the function an action stands for; the lines are
in `PROJECT.json` under `map`.  Operators marked `MUTANT` or `Variant` are deliberate bugs,
each next to the definition it would replace; no specification uses them.

### ThreadPool, ParallelFor

`ThreadPool.tla` models `taichi/system/threading.*`: one action per critical
section, evaluation of a condition, notification and atomic access.  `run()` is
`RunLock` `RunPublish` `RunNotify` `RunWait` `RunReturn`; the worker loop
`target()` is `TakeThreadId` `Sleep`/`Wake` `Leave`/`Skip`/`JoinJob`
`FetchTask` `NoTaskLeft`/`CallFunc` `FuncReturns` `Finish` `Signal`; the
destructor is `Exit` `ExitNotify` `Join`.  The critical section of `run()`
writes variables that workers read without the mutex, so it is two steps.
Sleepers may wake spuriously and a notification reaches only who sleeps.
`task_head` wraps at `IntMax`.  `InitialDesired` is what the uninitialized
`desired_num_threads` may hold.

`ParallelFor.tla` has three variables: the open call, its tasks that nobody has
picked, what each thread runs.  The refinement mapping: the call is open from
`RunPublish` to `RunReturn`, pending tasks are those from `task_head` on,
a thread is active between `CallFunc` and `FuncReturns`.

### CellStore, NodeManager

`NodeManager.tla` models a pointer SNode (`node_pointer.h`) over `NodeManager`
and `ListManager` (`runtime.cpp`): activation with its unlocked test, lock and
second test; deactivation; drawing from the free list or the data list;
allocating a list's chunk on first touch; `recycle` with its `ptr2index` scan;
and the collection, as one serial function (CPU) or as the three parallel
kernels `gc_parallel_0..2` (CUDA, AMDGPU) whose moves and zero-fills happen in
any order.  `CellStore.tla` promises that a cell is handed to one user at a
time, zero-filled, and again only after a collection cleaned it.

### DynamicNode

`DynamicNode.tla` models `node_dynamic.h`: `append` and `activate` raise `n`
without a lock, walk the chain of chunks, and extend it under the node's lock;
`deactivate` gives the chain back.  A walk that overlaps a deactivation reads
freed memory; programs keep the two apart and so does the model (see 8).

### KernelCache

`KernelCache.tla` models `KernelCompilationManager`, `CacheCleaner::run`, the
lock file of `util/lock.h` and `clean_offline_cache_files`.  A session is
`Start`, loading the metadata under the lock (or giving up), kernel uses,
`Finalize`, cleaning, dumping.  Each file operation that another process can
see the middle of is two steps: opening (which truncates: "torn") and writing.
A process may crash at any step and takes its memory along, not the lock file;
the two remedies the warnings name remove that.

### DeviceMemory

`DeviceMemory.tla` models `CachingAllocator` (`allocator.cpp`), the allocation
paths of `CudaDevice`/`AmdgpuDevice`, and the runtime's own objects that are cut
from the head of the preallocated chunk.  `mem_blocks_` and `ptr_map_` are kept
as they are, including the size-0 entries that a lookup with `operator[]`
leaves behind.  `CreateObject` is any page-aligned object of the runtime;
`CreateAllocator` is what `initialize_llvm_runtime_snodes` does for a pointer or
dynamic SNode, two calls in a row: its `NodeManager`, whose last `ListManager`
is such an object, and right behind it the ambient element, the only piece that
is not aligned to a page.

### HostMemory

`HostMemory.tla` models `HostMemoryPool` and `UnifiedAllocator`: shared chunks
with a head, exclusive chunks, `mmap` of any free range, release, `reset` by
`Program::finalize`, and releases after the reset by ndarrays still alive.

### TaskQueue, ParallelExecutor

`ParallelExecutor.tla` models `parallel_executor.*` with the one thread that
owns the executor and the threads of `worker_loop()`.  Every critical section is
a step (`Enqueue`, `FlushTest`, `Finalize`; `WaitForTask`, `TakeTask`,
`FinishTask`, `Retire`), and so is every notification, which the code makes
after it has released the mutex (`NotifyWorkers`, `NotifyFinalized`,
`NotifyFlush`) and which reaches only who sleeps at that moment.  Sleepers may
wake spuriously.  A pool may have no threads, then `enqueue()` runs the task
itself.  `init_cv_` is left out: the constructor sets `status_` before any
thread gets the mutex, so nobody waits on it.

`TaskQueue.tla` has three variables: the queue, what each thread runs, and
whether the caller is in `flush()`.  The refinement mapping takes them from
`task_queue_`, from `held` (the local `task` of each thread) and from where the
caller is.

### SNodeTrees

`SNodeTrees.tla` models `Program::add_snode_tree` and `destroy_snode_tree` with
the tables that are indexed by a tree's id: `snode_trees_`, the metadata in
`LlvmOfflineCache::fields`, the runtime's `roots`, and the struct modules of
every thread and of the linking context.  Ids are taken from the stack of freed
ones first.  A materialization may fail in its allocation, after module and
metadata are stored (`AddTreeFails`).  Each offload of a kernel is a task of a
`TaskQueue`: it enters its thread in `per_thread_data_`, clones the modules one
by one if the thread has none (`FetchModules`, `CloneModule`, `AllCloned`),
compiles and stores the result (`CompileTask`).  `Link` ends the life of the
locals the tasks have captured.  The main thread changes the modules of all
threads without a lock; that no task is around then is a property, not a guard.

### KernelLoops

`KernelLoops.tla` models how loops become tasks: `cpu_parallel_range_for` and
the pass `make_cpu_multithreaded_range_for`, `cpu_parallel_mesh_for`,
and a struct-for with its list generation (`clear_list`, `element_listgen`),
`parallel_struct_for`'s splitting of list elements, block-local bounds, TLS
reductions, and bodies that activate cells while the loop runs.  The field is
`root.pointer(a).dense|bitmasked(b)`.  `Pool == INSTANCE ParallelFor`.

### Compiler

A program is a record of statements and of blocks, which are sequences of
statement ids (`ChiIR`), as in `ir.h`: constants, the argument, allocas, binary
operations, loads and stores of locals and of one dense field of `N` cells,
atomic additions, `if`, `while` with its mask, `for`, loop index, break and
continue.  `Outcome` runs a program, as the code generator's loops, branches and
exits do; `Meaning` of `KernelAst` runs the kernel itself, in the form the
Python frontend builds.

| Module | Code |
|---|---|
| `LowerAst` | `lower_ast.cpp`, the `flatten` of expressions, `detect_fors_with_break.cpp` |
| `ControlFlowGraph` | `build_cfg.cpp`, alias analysis, `same_statements.cpp`, reaching definitions, live variables, store-to-load forwarding, dead store elimination (`control_flow_graph.cpp`), `die.cpp` |
| `SimplifyPasses` | `extract_constant`, `unreachable_code_elimination`, `binary_op_simplify`, `constant_fold`, `alg_simp`, `loop_invariant_code_motion`, `simplify` |
| `CompilePasses` | `whole_kernel_cse`, `eliminate_immutable_local_vars`, `demote_atomics`, `cache_loop_invariant_global_vars` |
| `Compiler` | `compile_to_offloads`, `offload_to_executable`, `full_simplify`: one action per pass, with its loop until nothing is modified |

The kernel is one serial task (`ti.loop_config(serialize=True)` at every
top-level loop), so that statement order is its whole meaning; how parallel
tasks run is the subject of `KernelLoops`.  What a pass prints, the source
locations of statements and their types are left out.

### GfxRuntime

`GfxRuntime.tla` models the runtime of Vulkan and OpenGL with the objects of a
Program that live on the device.  `rt` is `GfxRuntime` with its device: the open
command list (`current_cmdlist_`) and the buffers it refers to, what was
submitted and not yet waited for, `ctx_buffers_`, `ndarrays_in_use_` and
`argpacks_in_use_`.  `Launch` is `launch_kernel`: it allocates the buffers of
arguments, results and external arrays, uploads, records, and either waits
(`device_to_host`), leaves the list open, or finds it old and submits it.
`LaunchFails` is a dispatch that throws.  `Flush` and `Synchronize`, creating,
reading, writing and dropping ndarrays, packs and fields are one action each;
`DeviceRuns` lets the GPU run the next submitted command.  Helpers such as
`Submit`, `Idle`, `Flushed` and `Synced` take a runtime and return the next, as
the calls follow each other in the code.

What an object should hold is the history variable `want`, updated when Python
asks for something; what it does hold follows when commands run.  A kernel loads
one object and stores to another, so that order, staleness and freed memory all
show as a wrong value (`Garbage` for memory nobody holds).

The code disables `physical_storage_buffer` (`vulkan_device_creator.cpp:825`,
`&& false`), so that every buffer a kernel uses is bound and therefore referred
to by its command list; the model rests on this.

## 4. Runs

`tlc -config X.cfg MC<module>`.  The `MC` modules give constants values; two of
them, `MCThreads` and `MCMemory`, check components that do not depend on
each other side by side: all but one rest in their initial states while that one
runs, so that their state spaces add up.  `MCThreads` therefore asks fairness of
the thread pool, whose workers can take their first step at once, only while it
is the pool that runs.  `MCNodeManager` restricts `NodeManager` in one respect
(`TwoAfterwards`): the third thread and slot are used in the first task only.

| Run | Shows | Bounds, and why they are enough |
|---|---|---|
| `threads` | Pool: `QuiescentBetweenRuns`: no worker is in the task loop when no call is open. `AllTasksTaken`: the assertion of `run()`. `ImplementsParallelFor` (with liveness: calls return). `TearDown`: the destructor joins. Compilation: `WakeupsOnTheWay`: whoever sleeps in the executor has nothing to do, or somebody is about to notify. `ImplementsTaskQueue` (with liveness: tasks are run and `flush()` returns). `ThreadsJoin`: the destructor ends. `ModulesErasable`: the assertions of `delete_snode_tree`, and the module erased is that of the tree. `TasksOfTheKernel`: no task is around while trees change, none outlives its call. `LinkedWhole`: a kernel is linked from offloads that found the modules of their trees | pool: 2 workers, 2 calls, -1, 0, 1 or 3 tasks, 1, 2 or 4 threads wanted; a worker can oversleep a whole job and meet the next, which is what job numbers are for; safety is proved for every size. Executor: 0 to 3 threads, 3 tasks, so that threads can be asleep, running and past their test at once. Trees: 3 trees, one failure, 2 kernels of up to 2 offloads, main thread and up to 2 workers: an id is used again, by a tree that follows one destroyed or one failed, and a worker comes up before, between and after the trees |
| `nodemanager` | `CellsOwnedOnce`: a cell is in exactly one of: a slot, a thread's hands, free, recycled. `GapsInFlight`: the chunk of a pointer whose index is looked up is there, and an earlier one is missing only while other threads hold all its cells and are about to allocate it. `ImplementsCellStore`. `OperationsEnd` | 3 cells in chunks of 2, 3 tasks, 3 threads and 3 slots in the first of them, 2 and 2 afterwards. In the first task a chunk can be missing before one in use, which takes a thread for each of its cells and one more (finding 4); in the others reuse after a collection and reuse of reused cells occur |
| `nodemanager_scan` | violation of `PtrFound`: the assertion "ptr not found" of `ptr2index` | the first task of the same |
| `dynamicnode` | `ChunksAllocated`: an element a thread has been given has its chunk. `NoChunkLost`. `EndsInPlace`: an operation ends at the chunk of its index. `OperationsEnd` | 3 threads, lists of up to 5 in chunks of 2, 3 cells: three threads race for one link, and a second link, and chunks come back after a collection |
| `kernelcache` | `MetaAccounts` (the size that triggers cleaning is the sum of the entries), `EntriesBacked`, `ListedFilesStable`, `DumpStoresUnraced`, `SessionEnds` | 2 processes under lru or version cleaning, 1 under fifo, 2 kernels, 3 uses, one crash, one failed write, limit of 2 files: the limit is reached and exceeded |
| `kernelcache_race` | violation of `DumpStores` | as above with 5 uses, no faults |
| `memory` | device: `AllocationsDisjoint`, `ObjectsKept`, `NothingLost` (every page below the head is allocated, an object's, or cached), `MapListsBlocks` (the two indices agree). Host: `DeviceMemoryKept`, `PiecesKept` (but for the piece that opens a chunk, see 8), `ChunksBacked` (the two books agree) | device: buffer of 5 pages, 4 allocations of 1 to 3 pages, whole or odd, beside page-aligned objects and ambient elements, with and without merging: split, merge left, right and both; an odd allocation ends in the middle of the page before an ambient element's object. Host: 6 pages, 3 exclusive allocations, 4 pieces, 2 Programs: addresses are mapped again after a release |
| `kernelloops` | `EveryIndexOnce`, `ActiveCellsOnce`, `ReductionsAddUp`, `KernelsEnd` | 2 threads, int scaled to 15, ranges that are empty, reversed, across 0 and near the end of int; three shapes; 2 loops, 2 activations. Splits of every kind occur: one part, several, uneven |
| `kernelloops_splits` | violation of `AllActiveElements` | the same |
| `compiler` | `WellFormed`: after every pass each operand is computed where its user sees it. `MeaningKept`: after every pass the program does to the field what the kernel means. `SimplifyEnds`: each `full_simplify` ends within `MaxRounds` iterations | 544 kernels, see below |
| `gfxruntime` | `ProgramOrder`: once everything pending has run each object holds what the order of the program gives it. `HostReads`: what the host gets is what that order says. `MemoryHeld`: nothing is freed under a pending command | 2 ndarrays, a pack, a field, 4 buffers, values mod 2, up to 2 pending commands: a list that is open behind one that is submitted, buffers used again after they were freed, every pair of source and target. An element is written after a `ti.sync()`, see finding 3 |
| `gfxruntime_write` | violation of `ProgramOrder` | the same, without the `ti.sync()` |

The kernels of `compiler` are all combinations of a few statements in six
shapes: straight lines that access `F[0]` and `F[p]` for an argument `p`;
arithmetic with constants on either side, with `//` by a constant power of two
and by an unknown; branches whose two sides share statements, or that repeat or
fix their condition; `for` loops with every pair of body statements and with
exits; `while` loops; nests of two loops with and without break and continue.  A
pass that confuses two pointers, two branches or two iterations needs three or
four statements to be seen, and the kernels hold up to eight.  Each is run on
arguments 0, 1 and 2 (every cell, and loops that run zero times, once and
twice) and two contents of a field of 3 cells, with at most `Fuel` = 12
iterations, which no kernel uses up.  Kernels that access the field out of
bounds have no meaning to keep.  `MaxRounds` = 5: for these kernels at most four
iterations of a `full_simplify` change something.
Arithmetic stays within small numbers, so that i32 never wraps; `Log2` covers
powers up to 16.

Where a run says `CHECK_DEADLOCK FALSE` the program may really stop: memory is
full or all bounded Programs are over (`memory`), all bounded launches are done
(`kernelloops`).  Elsewhere a disjunct (`Terminated`, `Destroyed`,
`ProgramEnds`) names the only states that may stop, and TLC looks for deadlocks.

Handles are symmetric in the memory run, buffers and ndarrays in the GFX
runs (no temporal property there, no `CHOOSE`); no other run uses symmetry.

What follows at once from the inductive invariants is proved and not repeated in
the runs: the type invariants, and `OnlyDesiredThreads` (the pool),
`MutualExclusion` (the cache), `NothingLeftBehind` (the executor), `IdsInUseOnce`
and `RootsOfTheirOwn` (the trees).

## 5. Fairness

* `ThreadPool`: weak fairness of the caller inside `run()` and the destructor
  and of each worker: the operating system schedules runnable threads, a thread
  that waits for the mutex gets it (critical sections are short and end), and
  loop bodies return.  Nothing is assumed of spurious wakeups or of the program
  calling `run()` again.
* `NodeManager`, `DynamicNode`: weak fairness of each thread within an
  operation it has begun, none of beginning one.  A spin lock has no queue; the
  bounded number of operations is why it is won in the end.
* `KernelCache`: weak fairness of each process until its session is through,
  none of using kernels, crashing, failing or being repaired by hand.
* `ParallelExecutor`: weak fairness of the caller within a call, and of each
  thread: both are scheduled, tasks return, and who asks for the mutex gets it.
  None of beginning another call or of spurious wakeups.
* `GfxRuntime`, `SNodeTrees`: none, their properties are safety.
* `Compiler`: none; a pass that does not end shows as `SimplifyEnds`.
* `KernelLoops`: weak fairness of the launched kernel, which is `ParallelFor`'s
  own promise (`ThreadPool` implements it) plus bodies that end.

## 6. Proofs

All proofs hold for every value of the constants within the assumptions named
in the modules.

`Threads_proofs` has three parts.  The first: `TypeCorrect`, `Quiescence`,
`AssertionHolds`, `DesiredOnly`, `Refinement`.  The properties are not inductive: that no worker
is in the task loop between calls follows only from counting.  The invariant
`IInv` therefore says that `running_threads` is the number of workers in the
loop, that `started` is set once somebody joined, that a worker which has seen
the current job number is either out of the loop or on this job, and that
`last_finished` trails `timestamp` exactly while a job is open.  Two assumptions
beyond the types: `NoStrayWorkers` (the uninitialized `desired_num_threads`
does not happen to be positive) and `SplitsFit` (splits plus threads fit in an
int, else `task_head` wraps and tasks run twice).  `Refinement` maps every step
to a step of `ParallelFor` or a stutter.

The second: `ExecTypeCorrect`, `NoWakeupLost` (`WakeupsOnTheWay`),
`DestructorLeavesNothing` (`NothingLeftBehind`) and `ExecRefinement`
(`ExecSafeSpec => TQ!SafeSpec`), for any pools, tasks and number of calls.  That
a notification outside the mutex is enough rests on counting: `ExecInv` says
that `running_threads_` is the number of threads with a task (`TasksCounted`), so
that just the thread that brings it to 0 over an empty queue owes `flush()` its
notification.  `Phases` and `Retirement` follow the destructor: threads go only
after `status_` is final, and it becomes final only when the queue is empty and
nobody runs, so that none of them can leave a task behind.

The third: `TreeIdsUnique` (`IdsInUseOnce`), `EraseAssertionsHold`
(`ModulesErasable`), `NoTaskOutlivesItsKernel` (`TasksOfTheKernel`),
`LinkedAgainstOwnTrees` (`LinkedWhole`) and `RootsFromOwnOrFailed`
(`RootsOfTheirOwn`), for any number of trees, failures, threads, kernels and
offloads.  `TreesInv` is about ids and what is stored under them; an id is in a
slot, on the stack of free ones, or was burnt by a tree that failed.  `WorkInv`
is about compiling: a thread known to the main thread has just the main thread's
modules, or is cloning them and lacks just those in `todo` (`Copies`); a task in
the queue or in a thread is one of the kernel's (`TasksKnown`); the main thread is
where its pool lets it be (`Waiting`); and each offload that was enqueued is
pending or has its result (`Results`).  These hold while the main thread changes
modules behind the threads' backs because no task is around then, which `Waiting`
says and `TaskQueue` gives.

`KernelCache_proofs`: `Mutex` (`MutualExclusion`) and `FilesStable`
(`ListedFilesStable`), for any number of processes and kernels, any policy and
any crashes.  `IInv` is: at most one process is in a locked region, then the
lock file exists, and what a dump is still going to write is not listed in the
metadata.  Each action is shown to obey three rules (it touches only its own
process; the lock changes hands only when free or by its holder; the metadata
changes only in the holder's hands), and one lemma shows that steps which obey
them keep `IInv`.  The third part is what makes kernel files readable without
the lock.

Its second part: `ListedAreThere` (`EntriesBacked`) and `DumpsStore`
(`DumpStoresUnraced`), both under `NoRace`: at most one process, or a policy
under which the cleaner evicts nothing.  A step changes files or metadata, never
both, so `FInv` carries what the lock holder knows from the one to the other:
a dump's table lists all it compiled (`Own`), what it has counted is whole and
what it has still to write is not counted (`Backs`); what a cleaner removes is
listed neither in the metadata nor in the table it is about to save.  A process
keeps this knowledge while another one steps because the metadata has one holder
(`IInv`) and, by `NoRace`, nobody removes files next to it (`Alone`).

Its third part: `SizeIsCounted` (`MetaAccounts`), with races, too.  An entry has
size 0 or 1, so that the sum in the property is a number of entries
(`SumOfOnes`: counting satisfies the equation of the fold, and only one function
does), and `SInv` adds to `FInv` that the metadata and the table of the lock
holder are both `Sound`: their size is the number of entries with size 1.
Evicting subtracts just those (`WithoutSound`), a merge adds none (`MergeSound`),
and a file is counted once because its entry had size 0 (`WrittenSound`).

`NodeManager_proofs`: `GapsClosing` (`GapsInFlight`), for any number of threads,
slots, cells and tasks.  Its `IInv` says that cells in slots and lists have their
chunks, that the slot locks exclude each other, and that a cell without a chunk
is in the hands of a thread that is about to touch it.  An element's chunk is
allocated before the element leaves the hands of its thread, so that only
threads between `reserve_new_element`'s two lines keep a gap open.  Nothing
bounds their number, which is why `PtrFound`, without the gap, is not a theorem
but a finding.

Its second part: `Refinement` (`ImplementsCellStore`), for any number of
threads, slots, cells and tasks and on any arch.  `IInv` is joined by `Owned`,
which follows a cell from the *shelf* (places of the free list still to be
handed out) to a *hand* (a thread that has drawn it), a slot, and the cells
*awaiting* collection: on the shelf and in hands all cells differ and are clean,
in slots and awaiting they differ and are dirty, and a slot's cell is in
`recycled_list` just while its slot is being cleared.  While `gc_parallel_0`
runs, the shelf is what it has filled and what it has not emptied yet, and
sources and destinations never meet.  `Room` says that the bound `MaxCells` of
the model is never exceeded; it belongs to the model, not to the code.
`OneOwnerEach` (`CellsOwnedOnce`) needs the converse as well, that no cell falls
out of these places (`Kept`): a step that takes one from a place puts it into
the next, and the collections empty `recycled_list` into the shelf.

`DynamicNode_proofs`: `WalksOnPlaces` (`TypeOK`: no walk follows a null
pointer), `ElementsHaveChunks` (`ChunksAllocated`), `ChunksHeldOnce`
(`NoChunkLost`), `OperationsEndInPlace` (`EndsInPlace`) and `ChunksFreedOnce`,
for any number of threads and cells, any chunk size and any length.  The chunks
are a path `at[0], ..., at[L]` from the node through all cells it holds, on
which no place comes twice.  `IInv` says that there is such a path, that whoever
appends or activates stands on it, no further than the chunk of its element
(`Growers`), that whoever frees has given back what is behind it and nothing
else (`Freers`, `Keeping`), and that `n` is ahead of the chunks only while a
thread is on its way to the last element (`Reaching`).  Appending and freeing do
not overlap in the model (see 8); appends and activations overlap freely, and
only the one that holds the node's lock adds to the path.  `PathChain` shows
that the path is what the model's `Chain`, a recursive function, finds.

`DeviceMemory_proofs`: `AllocationsApart`, `MapIsTrue`, `ObjectsSafe`,
`NoPageLost`, for any page, buffer, sizes and order of operations.  `IInv` says
that live and free regions lie apart, that `ptr_map_` lists free blocks only,
and that nothing reaches beyond the last page that was begun.  The last part is
needed because an allocation is noted with its size rounded up while the head
moves by what was asked for: the rest of that page belongs to the allocation.
What a step cuts begins on a new page, and the ambient element is cut in one
step with the object it follows (`ObjectsKeep`, `ObjectParts`).

`HostMemory_proofs`: `TypeCorrect`, `ChunksAreMapped`, `DeviceMemoryStays`,
`PiecesStay`, for any page and space and any number of allocations, pieces and
Programs.  `IInv` keeps to the chunks: each is mapped whole and they lie apart,
a piece lies in a shared chunk below its head (unless it has opened the chunk,
see 8), an allocation of a living Program has an exclusive
chunk of its own.  What has no chunk in common cannot overlap.

`GfxRuntime_proofs`: `BuffersStay` (`MemoryHeld`), for any objects, buffers and
number of pending commands, on both devices and with launches that fail.  The
two devices need different reasons, both in `Counted`: a Vulkan list refers to
its buffers, and what was submitted keeps the references until the queue is
idle; on OpenGL only the open list is pending, and each of its buffers is one of
`ctx_buffers_`, is in use, or is a field's, which OpenGL never destroys.
`Apart` says that these kinds never mix and that each is allocated, `Owned` that
the ndarrays and packs of a pending command are in use.  A launch that fails
keeps this only on Vulkan; on OpenGL, where no dispatch fails, it would not.

Its second part: `ObjectsInOrder` (`ProgramOrder`) and `HostInOrder`
(`HostReads`), assuming `WritersSync`, that Python synchronizes before it writes
an element (without it `ProgramOrder` is violated, finding 3).  `Final` is the
memory that the pending commands will leave behind.  `OrderInv` says that it
holds `want` in every object, and each step is shown to do one of three things
to it: nothing, because a command only changes its place (`Alike`, for flushing,
submitting and the GPU's own progress); nothing, because it becomes the memory
(`Done`, for what synchronizes); or what the program asked for (`Effect`, for a
launch).  That memory handed out anew does not disturb it follows from the first
part: a buffer of a pending command is not free.

`KernelLoops_proofs`: `LoopsTyped` (`TypeOK`), `EachIndexOnce`
(`EveryIndexOnce`), `EachActiveCellOnce` (`ActiveCellsOnce`), `SumsAddUp`
(`ReductionsAddUp`) and `PoolAsPromised` (`Spec => Pool!SafeSpec`), for any shape
of the field, any ranges and blocks, any number of threads and ints of any
width.

* How a loop is cut is arithmetic: the tasks of each kind of loop are the parts
  of a `Cut` of its range, which are disjoint and cover it (`CutApart`,
  `CutAll`), and within `BoundsFit` no sum wraps.  `BoundsFit` has a part that
  was found in this proof: for a reversed range the difference of its ends may
  wrap, too, so that with `IntMax` = 15 the range 15 .. -14 in blocks of 2 is
  cut into tasks although it is empty.
* A list that is cleared and generated anew holds the cells of each active block
  once (`LeafLists`); its elements are cut like ranges.
* From there on an index is in one of three places: in a task that nobody has
  picked, in the hand of a thread, visited (`Sharing`).  Activations during the
  loop (`Activity`) add no task and take no cell away.
* `SumInv`: the total and the threads' buffers together are the sum over the
  visited indices.  Sums over finite sets come with lemmas of their own, down to
  the fold that defines them (`Sums`, `SumChange`, `SumGrow`).

Induction.  The induction theorems of the library take an operator as a
parameter, which the provers cannot instantiate.  What the proofs need is
derived from `WFMin`: a set of naturals that is not empty has a least element.
The property is then a set (`NatInd`, `SetInd`, `SeqInd`).

Only model-checked: all liveness (calls return, operations end, sessions end,
kernels end, `flush()` returns, the destructor ends), which needs fairness and
`ENABLED`; and the compiler (`WellFormed`, `MeaningKept`, `SimplifyEnds`), whose
passes and whose meaning follow the tree of a program by `RECURSIVE` operators,
which the provers do not handle.

## 7. Findings

Each has a run whose counterexample shows it; the details are in
`PROJECT.json`.

1. `kernelcache_race`: the cleaner removes kernel files after it has released
   the lock (`offline_cache.h:291`); another process may have listed and written
   them anew.  The entry without a file is never repaired.
2. `kernelloops_splits`: a list element is cut into a number of parts that is
   rounded up, each of a size that is rounded down: cells at its end are not
   looped over.
3. `gfxruntime_write`: writing an element of an ndarray or a pack
   (`ndarray.cpp:213`, `argpack.cpp:102`) copies first and synchronizes then.
   A kernel launched before may still be in the open command list, and runs
   after the write.  Fields synchronize first.
4. `nodemanager_scan`: an element is reserved before its chunk is allocated
   (`runtime.cpp:442-445`), so that a later chunk may be in use before an
   earlier one is there; `ptr2index`, which `recycle` calls for a cell of the
   later chunk, then fails its assertion (`runtime.cpp:495`) on a valid pointer.
   This takes as many threads between the two lines as a chunk has cells: 16384,
   or fewer for cells above 8 KB, for which the number is halved until a chunk
   fits 128 MB (`runtime.cpp:642`).  `GapsInFlight` is what does hold.

## 8. Noticed, without a run

These are hypotheses of the models or lie beside them.

The compiler.  The kernels of the run stay clear of five shapes in which
`MeaningKept` fails; each was seen with the model.

* `constant_fold.cpp:96` folds `//` of two integer constants with C++'s
  truncating division: after `x = -7`, `x // 2` is -3 when the compiler knows
  `x` and -4 when it does not; `operator.md:22` promises the "floored quotient".
* A store in a loop kills the store of the iteration before
  (`control_flow_graph.cpp:776`): in
  `while True: k = j; F[k] = 1; if k >= arg: break; F[k] = 2; j += 1`
  the address of `F[k]` is one statement but another cell in each iteration, and
  dead store elimination takes `F[k] = 2` away, the last store to its cell.
* `control_flow_graph.cpp:867-871`: a load takes its pointer out of
  `killed_in_this_node`.  In `x = F[0]; F[p] = F[p] + 1; F[2] = x + F[0]` the
  load of `F[p]` hides the store to it, and the two loads of `F[0]` are merged.
* `cache_loop_invariant_global_vars.cpp:202`: whether a cell may live in a local
  variable during an inner loop is decided from its own index alone.  With
  `F[0] += 1; F[j] += 1` in two nested loops, each misses what the other adds.
* `same_statements.cpp:198-221` compares two `if` statements by their first
  branches when the first of them has no `else`, and
  `whole_kernel_cse.cpp:174-197` moves them out of both branches of an `if`:
  `if arg: (if F[0]: F[1] = 5); F[2] = 1` with
  `else: (if F[0]: F[1] = 5 else: F[2] = 6)` loses the inner `else`.

Also seen while reading: `verify.cpp` never removes the statements of a block
that is through, so that it accepts an operand from a block that has ended
(`WellFormed` does not); loop-invariant code motion and the caching of cells
execute divisions and loads of loops that run zero times; `(a << b) << c`
becomes `a << (b + c)` also when the sum reaches the width of the type.

The runtime.

* `runtime.cpp:790`: on CUDA a thread that fails an assertion ends at once.  In
  finding 4 it does so while it holds the lock of its slot, and whoever
  activates or deactivates that slot next spins forever.
* `desired_num_threads` is not initialized (`threading.h`); a positive value
  admits workers before the first `run()`.  A job of nearly INT_MAX splits wraps
  `task_head`.
* `make_cpu_multithreaded_range_for.cpp:125`: a loop that begins within a block
  times the threads of INT_MAX wraps and loses its last blocks.  In
  `cpu_parallel_range_for` the length of a reversed range may wrap to a positive
  one.  `EveryIndexOnce` holds under `BoundsFit`.
* The branch for `step == -1` of `cpu_parallel_range_for` is not modelled: no
  code generator passes it.
* `parallel_executor.cpp:115`: `flush_cv_.notify_one()` wakes one caller; two
  threads in `flush()` at once would not both be woken.  The model has one
  caller, as a Program has.
* `llvm_program.cpp:100`: `cache_field` keeps what it has (`TODO` in the line
  below).  When the allocation of a tree fails, the metadata stay at its id; if the
  id was not a freed one the next tree gets it, and its memory is laid out by
  them.  `RootsOfTheirOwn`
  names the exception.
* `fields_builder.py:53-57`: the finalized roots include those of destroyed
  trees, so that `ti.deactivate_all_snodes()` (`impl.py:586`) compiles a kernel
  for one of them, and `get_struct_function` (`llvm_context.cpp:1001`) calls
  through a null module (`ModuleMissing`).  `LiveModulesFound` says that this
  happens for no tree that is alive.
* `node_dynamic.h:48`: an append that overlaps a deactivation in one kernel can
  leave a length without a chain.
* `program_impl.cpp:13-20`, `kernel_compilation_manager.cpp:85`: uses are
  recorded by the dump, which comes after the cleaning and is skipped when
  nothing was compiled, so that the policy `lru` discards the kernels that every
  run of a finished program uses.
* `cuda_device.cpp:53`, `amdgpu_device.cpp:58`: the page-rounded size of an
  allocation is noted, but the exact size is cut from the chunk.  A piece of
  small alignment that came next would lie in the rest of that page, which is
  zero-filled and reused with it.  The code has one such piece, the ambient
  element, and nothing but the order of two calls
  (`llvm_runtime_executor.cpp:460-465`) keeps it behind an object of its own.
* `kernel_compilation_manager.cpp:118`: a kernel whose file could not be
  written stays listed and is never written again.
* `allocator.cpp`: looking for a right neighbour inserts an entry of size 0,
  which may later keep two free neighbours from merging; and an iterator is read
  after its element was erased (taken to be still readable).
* `host_memory_pool.cpp:116`: an ndarray of an old Program that is released
  after the next Program has allocated may release that one's memory; the model
  lets it go before, as dropping the Program does.
* `unified_allocator.cpp:77`: the piece that opens a shared chunk does not move
  the chunk's head, and the next piece gets the same address (line 33: "never
  reuses the previously allocated memory").  On the CPU these are the result
  buffer and the `LLVMRuntime`.  Seen with the model, when `PiecesKept` is
  claimed for all pieces.

The graphics backends.

* `gfx/runtime.cpp:649`: `synchronize` does not clear `argpacks_in_use_`, so that
  a pack which was launched once is never freed.  For ndarrays, too,
  `delete_ndarray` (`program.cpp:422`) drops a request that comes while the
  array is in use; nobody asks again before the Program ends.
* `gfx/runtime.cpp:68-85` and `:135-155`: an external array that a kernel only
  stores to is not uploaded, but copied back whole; elements that the kernel did
  not store become whatever the new buffer held.  The kernels of the model store
  to all of an object.
* `gfx/runtime.cpp:659`: a flush without an open list submits a list that holds only
  a barrier.  The model submits nothing.
* `texture.cpp:202-237`: `from_ndarray` and `from_snode` transition the image
  without telling `last_image_layouts_`.
* `gfx/snode_tree_manager.cpp`: trees are looked up by their id in tables that
  only grow, while `Program` gives the id of a destroyed tree to the next one.

## 9. Not modelled

* Of the compilation workers and SNode trees: a second thread that enqueues or
  flushes, the `compile_only` branch of AOT, the content of modules, the copies
  of the runtime module, and dense trees without garbage-collected nodes, which
  skip part of what is modelled.
* Of the graphics backends: textures and image layouts, `buffer_copy` and
  `copy_image`, gradients of ndarrays, profiling, several threads with streams of
  their own, DX11 and Metal.
* Of the compiler: matrices, types other than i32, sparse and several fields,
  external arrays, functions, autodiff, parallel tasks, block-local and mesh
  passes, `lower_access`, quantized types; `demote_operations`, which rewrites
  `//` after the last pass of the model; the passes before the final
  `full_simplify` that have nothing to do in a serial task.
* Code generators: the loops, branches and exits of the LLVM one are the
  interpreter of `ChiIR`; where one cuts a loop it is in `KernelLoops`.
* JIT sessions, launchers, other devices, sparse solvers: wrappers over LLVM,
  drivers and libraries.
* AOT modules, C API, graphs, launch contexts: serialization and handles, used
  by one thread.
* Python frontend, GGUI, profilers, logging: one thread, or diagnostics.
* Runtime errors: one flag and one lock, the first failing thread wins.
* Within the modelled parts: out-of-memory paths (the program ends), hash nodes
  (the front end refuses them), kernels in memory-only cache mode, and the
  content of cells, files and arguments beyond what the properties tell apart.
