----------------------------- MODULE SNodeTrees -----------------------------
(***************************************************************************)
(* The SNode trees of an LLVM program and what its threads know of them:   *)
(* Program::add_snode_tree and destroy_snode_tree (src/taichi/program/     *)
(* program.cpp), LlvmProgramImpl, and the struct modules that              *)
(* TaichiLLVMContext keeps for every thread (src/taichi/runtime/llvm/      *)
(* llvm_context.cpp).                                                      *)
(*                                                                         *)
(* A tree gets an id, which the next tree inherits when it is destroyed.   *)
(* An LLVM module belongs to one context and a context to one thread, so   *)
(* each thread that compiles has a copy of the struct module of every      *)
(* tree, looked up by the tree's id.  A kernel is compiled by the threads  *)
(* of a TaskQueue (KernelCodeGen::compile_kernel_to_module): one task per  *)
(* offload, which fetches the copies if its thread has none yet, compiles, *)
(* and stores the result; the main thread links the results with modules   *)
(* of its own linking context.  Only the main thread adds and destroys     *)
(* trees, and it takes no lock when it goes through the data of all        *)
(* threads.                                                                *)
(*                                                                         *)
(* Trees are numbered in the order of their creation, failed ones too: a   *)
(* number stands for the tree, its module and its metadata.                *)
(***************************************************************************)
EXTENDS Integers, Sequences, FiniteSets

CONSTANTS
  Runners,      \* threads that may compile: the main thread and compilation workers
  MainThread,
  MaxTrees,     \* bound on the trees created in a behaviour
  MaxFailures,  \* bound on the materializations that fail
  MaxKernels,   \* bound on the kernels compiled
  MaxOffloads   \* bound on the offloaded tasks of a kernel

ASSUME RunnersAssumption == IsFiniteSet(Runners) /\ MainThread \in Runners
ASSUME TreeBoundsAssumption ==
  MaxTrees \in Nat /\ MaxFailures \in Nat /\ MaxKernels \in Nat /\ MaxOffloads \in Nat

\* linking_context_data is a ThreadLocalData that belongs to no thread.
Linking == "linking"
Owners == Runners \cup {Linking}
ASSUME LinkingAssumption == Linking \notin Runners

Ids == 0 .. MaxTrees - 1
Trees == 1 .. MaxTrees
None == 0          \* no tree, no module

NotCompiled == [done |-> FALSE]   \* a null pointer in `data'
Compiled(modules) == [done |-> TRUE, against |-> modules]

\* A compile_func, named by the call whose locals it captures and its offload.
CompileFunc(k, n) == [kernel |-> k, offload |-> n]
CompileFuncs == {CompileFunc(k, n) : k \in 1 .. MaxKernels, n \in 1 .. MaxOffloads}
NoFunc == CompileFunc(0, 0)

VARIABLES
  snode_trees_,         \* Program::snode_trees_, the tree at index id + 1
  free_snode_tree_ids_, \* a stack, its top at the end
  id_,                  \* SNodeTree::id_ of each tree created so far
  destroyed,            \* trees whose Python object is marked destroyed
  failures,
  fields,               \* LlvmOfflineCache::fields: whose metadata, by id
  roots,                \* LLVMRuntime::roots: by whose metadata it was made
  struct_modules,       \* per owner and id
  per_thread_data_,     \* the threads that have an entry
  main,                 \* where the main thread is
  kernels,              \* number of kernels begun
  uses,                 \* per offload of the current kernel, the trees it uses
  next,                 \* the offload to enqueue next
  data,                 \* per offload, the modules its code was compiled against
  stage,                \* where each runner is in its task
  todo,                 \* ids of the modules it has still to clone
  workers,              \* the threads of compilation_workers
  queued, running, flushing  \* its tasks

treeVars == <<snode_trees_, free_snode_tree_ids_, id_, destroyed, failures,
              fields, roots>>
moduleVars == <<struct_modules, per_thread_data_>>
kernelVars == <<main, kernels, uses, next, data>>
taskVars == <<stage, todo>>
poolVars == <<queued, running, flushing, workers>>
sntVars == <<treeVars, moduleVars, kernelVars, taskVars, poolVars>>

Q == INSTANCE TaskQueue
       WITH Caller <- MainThread, Tasks <- CompileFuncs, NoTask <- NoFunc

Created == Len(id_)
Live == {v \in 1 .. Created : /\ v \notin destroyed
                              /\ id_[v] < Len(snode_trees_)
                              /\ snode_trees_[id_[v] + 1] = v}

NoModules == [i \in Ids |-> None]

TreesInit ==
  /\ snode_trees_ = <<>> /\ free_snode_tree_ids_ = <<>> /\ id_ = <<>>
  /\ destroyed = {} /\ failures = 0
  /\ fields = NoModules /\ roots = NoModules
  /\ struct_modules = [o \in Owners |-> NoModules]
  /\ per_thread_data_ = {MainThread}
  /\ main = "idle" /\ kernels = 0
  /\ uses = <<>> /\ next = 1 /\ data = <<>>
  /\ stage = [r \in Runners |-> "none"]
  /\ todo = [r \in Runners |-> {}]
  /\ workers \in SUBSET (Runners \ {MainThread})
  /\ Q!Init

-----------------------------------------------------------------------------
(* Trees.                                                                  *)

\* allocate_snode_tree_id(), and the stack it leaves behind.
AllocatedId == IF free_snode_tree_ids_ = <<>>
               THEN Len(snode_trees_)
               ELSE free_snode_tree_ids_[Len(free_snode_tree_ids_)]
RestOfIds == IF free_snode_tree_ids_ = <<>>
             THEN <<>>
             ELSE SubSeq(free_snode_tree_ids_, 1, Len(free_snode_tree_ids_) - 1)

\* Mutant of add_struct_module(): the workers are left to what they fetched.
AddedToMain(i, v) ==
  [o \in Owners |-> IF o \in {MainThread, Linking}
                    THEN [struct_modules[o] EXCEPT ![i] = v] ELSE struct_modules[o]]

\* add_struct_module(): every thread known so far, and the linking context.
Added(i, v) ==
  [o \in Owners |-> IF o \in per_thread_data_ \cup {Linking}
                    THEN [struct_modules[o] EXCEPT ![i] = v]
                    ELSE struct_modules[o]]

\* cache_field() keeps what is there.
CachedField(i, v) == IF fields[i] = None THEN [fields EXCEPT ![i] = v] ELSE fields

\* Up to the allocation in initialize_llvm_runtime_snodes().
CompileTree(v, i) ==
  /\ main = "idle" /\ Created < MaxTrees
  /\ v = Created + 1 /\ i = AllocatedId
  /\ free_snode_tree_ids_' = RestOfIds
  /\ id_' = Append(id_, i)
  /\ struct_modules' = Added(i, v)
  /\ fields' = CachedField(i, v)
  /\ UNCHANGED <<destroyed, per_thread_data_, kernelVars, taskVars, poolVars>>

\* FieldsBuilder.finalize()
AddTree(v, i) ==
  /\ CompileTree(v, i)
  /\ roots' = [roots EXCEPT ![i] = fields'[i]]
  /\ snode_trees_' = IF i < Len(snode_trees_)
                     THEN [snode_trees_ EXCEPT ![i + 1] = v]
                     ELSE Append(snode_trees_, v)
  /\ UNCHANGED failures

\* The allocation throws, and Python catches it.
AddTreeFails(v, i) ==
  /\ failures < MaxFailures
  /\ failures' = failures + 1
  /\ CompileTree(v, i)
  /\ UNCHANGED <<roots, snode_trees_>>

\* delete_snode_tree(): every thread known so far, and the linking context.
Erased(i) ==
  [o \in Owners |-> IF o \in per_thread_data_ \cup {Linking}
                    THEN [struct_modules[o] EXCEPT ![i] = None]
                    ELSE struct_modules[o]]

\* SNodeTree.destroy(); a second call raises.  What was compiled is forgotten.
DestroyTree(v) ==
  /\ main = "idle" /\ v \in Live
  /\ fields' = [fields EXCEPT ![id_[v]] = None]
  /\ struct_modules' = Erased(id_[v])
  /\ roots' = [roots EXCEPT ![id_[v]] = None]
  /\ free_snode_tree_ids_' = Append(free_snode_tree_ids_, id_[v])
  /\ destroyed' = destroyed \cup {v}
  /\ UNCHANGED <<snode_trees_, id_, failures, per_thread_data_, kernelVars,
                 taskVars, poolVars>>

-----------------------------------------------------------------------------
(* compile_kernel_to_module(): the main thread.                            *)

BeginKernel(trees) ==
  /\ main = "idle" /\ main' = "enqueue"
  /\ kernels < MaxKernels /\ kernels' = kernels + 1
  /\ uses' = trees
  /\ next' = 1
  /\ data' = [k \in 1 .. Len(trees) |-> NotCompiled]
  /\ UNCHANGED <<treeVars, moduleVars, taskVars, poolVars>>

\* A kernel of the program uses trees that are there.
UserKernel ==
  \E n \in 0 .. MaxOffloads : \E trees \in [1 .. n -> SUBSET Live] :
    BeginKernel(trees)

\* deactivate_all_snodes() compiles a kernel for the root at each index of
\* snode_trees_, which may be that of a tree destroyed.
DeactivationKernel ==
  \E k \in 1 .. Len(snode_trees_) : MaxOffloads >= 1 /\ BeginKernel(<<{snode_trees_[k]}>>)

\* worker.enqueue(compile_func), with and without threads.
EnqueueOffload ==
  /\ main = "enqueue" /\ next <= Len(uses)
  /\ \/ workers # {} /\ Q!Enqueue(CompileFunc(kernels, next)) /\ UNCHANGED stage
     \/ /\ workers = {} /\ Q!RunInline(CompileFunc(kernels, next))
        /\ stage' = [stage EXCEPT ![MainThread] = "fetch"]
  /\ next' = next + 1
  /\ UNCHANGED <<treeVars, moduleVars, main, kernels, uses, data, todo, workers>>

\* Mutant: the results are linked without waiting for them.
DoNotFlush ==
  /\ main = "enqueue" /\ next > Len(uses) /\ main' = "link"
  /\ UNCHANGED <<treeVars, moduleVars, kernels, uses, next, data, taskVars, poolVars>>

\* worker.flush()
CallFlushOf ==
  /\ main = "enqueue" /\ next > Len(uses) /\ main' = "flush"
  /\ Q!Flush
  /\ UNCHANGED <<treeVars, moduleVars, kernels, uses, next, data, taskVars, workers>>

FlushReturns ==
  /\ main = "flush" /\ main' = "link"
  /\ Q!Return
  /\ UNCHANGED <<treeVars, moduleVars, kernels, uses, next, data, taskVars, workers>>

\* link_compiled_tasks(), and the return, which ends the life of the locals
\* that the compile_funcs have captured.
Link ==
  /\ main = "link" /\ main' = "idle"
  /\ UNCHANGED <<treeVars, moduleVars, kernels, uses, next, data, taskVars, poolVars>>

-----------------------------------------------------------------------------
(* compile_func.                                                           *)

Proceeds(r, from, to) == stage[r] = from /\ stage' = [stage EXCEPT ![r] = to]

StartTask(r) ==
  /\ r \in workers
  /\ Q!Begin(r)
  /\ Proceeds(r, "none", "fetch")
  /\ UNCHANGED <<treeVars, moduleVars, kernelVars, todo, workers>>

\* fetch_this_thread_struct_module(): get_this_thread_data() enters the thread
\* in the map; the ids to clone are those of the main thread's modules.
FetchModules(r) ==
  /\ per_thread_data_' = per_thread_data_ \cup {r}
  /\ IF struct_modules[r] = NoModules
     THEN /\ Proceeds(r, "fetch", "clone")
          /\ todo' = [todo EXCEPT ![r] =
                        {i \in Ids : struct_modules[MainThread][i] # None}]
     ELSE Proceeds(r, "fetch", "compile") /\ UNCHANGED todo
  /\ UNCHANGED <<treeVars, struct_modules, kernelVars, poolVars>>

CloneModule(r, i) ==
  /\ stage[r] = "clone" /\ i \in todo[r]
  /\ struct_modules' =
       [struct_modules EXCEPT ![r][i] = struct_modules[MainThread][i]]
  /\ todo' = [todo EXCEPT ![r] = @ \ {i}]
  /\ UNCHANGED <<treeVars, per_thread_data_, kernelVars, stage, poolVars>>

AllCloned(r) ==
  /\ todo[r] = {} /\ Proceeds(r, "clone", "compile")
  /\ UNCHANGED <<treeVars, moduleVars, kernelVars, todo, poolVars>>

\* The modules that get_struct_function() finds for the trees of r's offload.
Found(r) ==
  {struct_modules[r][id_[v]] : v \in uses[running[r].offload]}

\* Mutant: the index is captured by reference.
CompileTaskByReference(r) ==
  /\ Proceeds(r, "compile", "end")
  /\ None \notin Found(r)
  /\ data' = [data EXCEPT ![next - 1] = Compiled(Found(r))]
  /\ UNCHANGED <<treeVars, moduleVars, main, kernels, uses, next, todo, poolVars>>

\* compile_task(), and the store to data[i].
CompileTask(r) ==
  /\ Proceeds(r, "compile", "end")
  /\ None \notin Found(r)
  /\ data' = [data EXCEPT ![running[r].offload] = Compiled(Found(r))]
  /\ UNCHANGED <<treeVars, moduleVars, main, kernels, uses, next, todo, poolVars>>

\* There is no module at a tree's id: struct_modules[tree_id]->getFunction()
\* calls through a null pointer, and the process ends.
ModuleMissing(r) ==
  /\ stage[r] = "compile" /\ None \in Found(r)
  /\ main' = "crashed"
  /\ UNCHANGED <<treeVars, moduleVars, kernels, uses, next, data, taskVars, poolVars>>

EndTask(r) ==
  /\ Proceeds(r, "end", "none")
  /\ Q!End(r)
  /\ UNCHANGED <<treeVars, moduleVars, kernelVars, todo, workers>>

-----------------------------------------------------------------------------
ProgramChooses ==
  \/ \E v \in Trees, i \in Ids : AddTree(v, i) \/ AddTreeFails(v, i)
  \/ \E v \in Trees : DestroyTree(v)
  \/ UserKernel
  \/ DeactivationKernel

MainRuns == EnqueueOffload \/ CallFlushOf \/ FlushReturns \/ Link

RunnerRuns(r) ==
  /\ main # "crashed"
  /\ \/ StartTask(r) \/ FetchModules(r) \/ AllCloned(r)
     \/ \E i \in Ids : CloneModule(r, i)
     \/ CompileTask(r) \/ ModuleMissing(r) \/ EndTask(r)

ProgramEnds == main \in {"idle", "crashed"} /\ UNCHANGED sntVars

TreesNext ==
  \/ ProgramChooses
  \/ MainRuns
  \/ \E r \in Runners : RunnerRuns(r)
  \/ ProgramEnds

TreesSpec == TreesInit /\ [][TreesNext]_sntVars

-----------------------------------------------------------------------------
(* Properties.                                                             *)

\* Two trees never have the same id, and no id that is in use is free.
IdsInUseOnce ==
  /\ \A u, v \in Live : id_[u] = id_[v] => u = v
  /\ \A k \in 1 .. Len(free_snode_tree_ids_) :
       \A v \in Live : id_[v] # free_snode_tree_ids_[k]

\* The two assertions of delete_snode_tree(): whenever a tree can be
\* destroyed, the linking context and every thread known so far have a module
\* to erase, also threads that came up after the tree or before it.
\* Moreover it is the module of that tree, not of one that had its id.
ModulesErasable ==
  main = "idle" =>
    \A v \in Live, o \in per_thread_data_ \cup {Linking} :
      struct_modules[o][id_[v]] = v

\* While the main thread may add or destroy a tree no task is queued or
\* running: neither per_thread_data_ nor the modules that it changes without a
\* lock are in use, and the locals that the tasks of a kernel captured live as
\* long as those tasks.
TasksOfTheKernel ==
  /\ main \in {"idle", "link"} => Q!Quiet
  /\ \A r \in Runners : running[r] # NoFunc => running[r].kernel = kernels
  /\ \A k \in 1 .. Len(queued) : queued[k].kernel = kernels

\* When a kernel is linked, all its offloads have been compiled, against the
\* modules of the trees they use, whichever threads compiled them; and the
\* linker finds the same modules.
LinkedModules ==
  main = "link" =>
    \A n \in 1 .. Len(uses) :
      /\ data[n].done
      /\ uses[n] \subseteq Live =>
           /\ data[n].against = uses[n]
           /\ \A v \in uses[n] : struct_modules[Linking][id_[v]] = v

\* A task finds the modules of trees that are alive, whichever thread runs it
\* and whenever that thread came up: a task for which there is none is one of a
\* tree destroyed.
LiveModulesFound ==
  main = "crashed" =>
    \E r \in Runners : running[r] # NoFunc /\ ~(uses[running[r].offload] \subseteq Live)

\* A kernel whose trees are alive becomes whole: each of its tasks finds the
\* modules of those trees in the thread that runs it, and no others are linked.
LinkedWhole == LinkedModules /\ LiveModulesFound

\* A tree's memory has been laid out by its own metadata, unless an attempt
\* to create a tree had failed and left its metadata at the id.
RootsOfTheirOwn ==
  \A v \in Live : \/ roots[id_[v]] = v
                  \/ /\ roots[id_[v]] \in 1 .. Created \ Live
                     /\ id_[roots[id_[v]]] = id_[v]
                     /\ roots[id_[v]] \notin destroyed
=============================================================================
