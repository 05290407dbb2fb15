----------------------------- MODULE MCThreads ------------------------------
(* Instances of ThreadPool, of ParallelExecutor, and of SNodeTrees over the
   TaskQueue that the executor implements.  None depends on the state of
   another, so that two rest while the third is checked: a pool that nobody has
   used, an executor that has no thread and is asked for nothing, a program that
   has no tree and compiles nothing. *)
EXTENDS ThreadPool, ParallelExecutor, SNodeTrees, TLC

CONSTANTS w1, w2, w3, main_thread, t1, t2, c1, c2

TwoWorkers == {w1, w2}
TwoContexts == {c1, c2}

\* A job with no task (an empty range), with fewer and with more tasks than
\* threads, and a negative task count (end < begin).
AllSplits == {-1, 0, 1, 3}

\* Asking for one thread, for all, and for more than there are.
AllDesired == {1, 2, 4}

\* The uninitialized word happens to be zero: nothing runs before run().
NoGarbage == {0}

ThreeThreads == {w1, w2, w3}
TwoTasks == {t1, t2}

\* num_compile_threads = 0, the single thread of print_ir, two and three.
AllPools == {{}, {w1}, {w1, w2}, ThreeThreads}

ThreeRunners == {main_thread, w1, w2}

PoolRests == master = "idle" /\ timestamp = 1 /\ thread_counter = 0 /\ context = c1
ExecutorRests == threads_ = {} /\ enqueued = 0 /\ caller = "idle"
TreesRest == workers = {} /\ Created = 0 /\ kernels = 0

ThreadsInit ==
  /\ Init /\ ExecInit /\ TreesInit
  /\ \/ PoolRests /\ ExecutorRests
     \/ PoolRests /\ TreesRest
     \/ ExecutorRests /\ TreesRest

PoolChecked == ExecutorRests /\ TreesRest

ThreadsNext ==
  \/ PoolChecked /\ Next /\ UNCHANGED <<execVars, sntVars>>
  \/ PoolRests /\ TreesRest /\ ExecNext /\ UNCHANGED <<vars, sntVars>>
  \/ PoolRests /\ ExecutorRests /\ TreesNext /\ UNCHANGED <<vars, execVars>>

\* Fairness of ThreadPool, whose workers are ready to run from the start, while
\* it is the pool that is checked.
PoolFairness ==
  /\ WF_vars(PoolChecked /\ Master)
  /\ \A w \in Workers : WF_vars(PoolChecked /\ Worker(w))

ThreadsSpec ==
  /\ ThreadsInit
  /\ [][ThreadsNext]_<<vars, execVars, sntVars>>
  /\ PoolFairness /\ ExecFairness
=============================================================================
