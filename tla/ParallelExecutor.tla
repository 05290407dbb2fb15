-------------------------- MODULE ParallelExecutor --------------------------
(***************************************************************************)
(* ParallelExecutor (src/taichi/program/parallel_executor.{h,cpp}): the    *)
(* compilation workers of an LLVM program.  One thread, the caller,        *)
(* constructs it, enqueues tasks, flushes, and destroys it; the threads of *)
(* the pool sit in worker_loop().                                          *)
(*                                                                         *)
(* Everything the threads share is guarded by mut_, so that a critical     *)
(* section is one step.  A thread that finds its predicate false falls     *)
(* asleep in that step.  The notifications are made after the mutex is     *)
(* released, as steps of their own; they wake only who sleeps at that      *)
(* moment.  Any sleeper may also wake spuriously.                          *)
(*                                                                         *)
(* The constructor starts the threads and sets status_ under the mutex, so *)
(* that whoever gets it finds status_ # uninitialized: nobody ever waits   *)
(* on init_cv_, which is left out.                                         *)
(***************************************************************************)
EXTENDS Integers, Sequences, FiniteSets

CONSTANTS
  Threads,   \* threads there may be
  Pools,     \* sets of threads the constructor may be asked for; the empty one
             \* for num_threads <= 0, one thread when print_ir is set
  TheCaller, \* the thread that owns the executor
  Tasks,     \* values of TaskType
  NoTask,
  MaxTasks   \* bound on the calls of enqueue() in a behaviour

ASSUME PoolsAssumption == Pools \subseteq SUBSET Threads
ASSUME ThreadsAssumption == IsFiniteSet(Threads) /\ TheCaller \notin Threads
ASSUME TasksAssumption == NoTask \notin Tasks
ASSUME MaxTasksAssumption == MaxTasks \in Nat

VARIABLES
  threads_,          \* the threads of the pool: num_threads_ is their number
  task_queue_,
  running_threads_,
  status_,
  caller,            \* where the calling thread is
  closing,           \* it is in the destructor
  at,                \* where each thread is
  held,              \* the task each runner is running, or NoTask
  enqueued           \* number of calls of enqueue() so far

execVars == <<threads_, task_queue_, running_threads_, status_, caller,
              closing, at, held, enqueued>>

\* flush_cv_cond()
flush_cv_cond == task_queue_ = <<>> /\ running_threads_ = 0

ExecTypes ==
  /\ threads_ \in Pools
  /\ task_queue_ \in Seq(Tasks)
  /\ running_threads_ \in 0 .. Cardinality(threads_)
  /\ status_ \in {"uninitialized", "initialized", "finalized"}
  /\ caller \in {"idle", "notify", "inline", "flush", "asleep", "finalize",
                 "notify finalized", "join", "gone"}
  /\ closing \in BOOLEAN
  /\ at \in [Threads -> {"start", "poll", "asleep", "task", "notify",
                         "last notify", "gone"}]
  /\ held \in [Threads \cup {TheCaller} -> Tasks \cup {NoTask}]
  /\ enqueued \in 0 .. MaxTasks

\* After the constructor; the threads have not come to worker_loop() yet.
ExecInit ==
  /\ threads_ \in Pools
  /\ task_queue_ = <<>>
  /\ running_threads_ = 0
  /\ status_ = IF threads_ = {} THEN "uninitialized" ELSE "initialized"
  /\ caller = "idle"
  /\ closing = FALSE
  /\ at = [w \in Threads |-> IF w \in threads_ THEN "start" ELSE "gone"]
  /\ held = [r \in Threads \cup {TheCaller} |-> NoTask]
  /\ enqueued = 0

-----------------------------------------------------------------------------
(* The caller: enqueue(), flush() and the destructor.                      *)

CallerGoes(where) == caller = "idle" /\ caller' = where

Enqueue(t) ==
  /\ enqueued < MaxTasks
  /\ enqueued' = enqueued + 1
  /\ IF threads_ = {}
     THEN /\ CallerGoes("inline")
          /\ held' = [held EXCEPT ![TheCaller] = t]
          /\ UNCHANGED task_queue_
     ELSE /\ CallerGoes("notify")
          /\ task_queue_' = Append(task_queue_, t)
          /\ UNCHANGED held
  /\ UNCHANGED <<threads_, running_threads_, status_, closing, at>>

InlineReturns ==
  /\ caller = "inline" /\ caller' = "idle"
  /\ held' = [held EXCEPT ![TheCaller] = NoTask]
  /\ UNCHANGED <<threads_, task_queue_, running_threads_, status_, closing, at,
                 enqueued>>

\* worker_cv_.notify_all()
WakeWorkers == at' = [w \in Threads |-> IF at[w] = "asleep" THEN "poll" ELSE at[w]]

\* Mutant: nobody is woken.
NotifyNobody ==
  /\ caller = "notify" /\ caller' = "idle"
  /\ UNCHANGED <<threads_, task_queue_, running_threads_, status_, closing, at,
                 held, enqueued>>

NotifyWorkers ==
  /\ caller = "notify" /\ caller' = "idle"
  /\ WakeWorkers
  /\ UNCHANGED <<threads_, task_queue_, running_threads_, status_, closing,
                 held, enqueued>>

CallFlush ==
  /\ CallerGoes("flush")
  /\ UNCHANGED <<threads_, task_queue_, running_threads_, status_, closing, at,
                 held, enqueued>>

\* ~ParallelExecutor: without threads there is nothing to do; else it flushes.
Close ==
  /\ CallerGoes(IF threads_ = {} THEN "gone" ELSE "flush")
  /\ closing' = TRUE
  /\ UNCHANGED <<threads_, task_queue_, running_threads_, status_, at, held,
                 enqueued>>

\* One evaluation of the loop condition of flush(), under the mutex.
FlushTest ==
  /\ caller = "flush"
  /\ caller' = IF flush_cv_cond
               THEN IF closing THEN "finalize" ELSE "idle"
               ELSE "asleep"
  /\ UNCHANGED <<threads_, task_queue_, running_threads_, status_, closing, at,
                 held, enqueued>>

Finalize ==
  /\ caller = "finalize" /\ caller' = "notify finalized"
  /\ status_' = "finalized"
  /\ UNCHANGED <<threads_, task_queue_, running_threads_, closing, at, held,
                 enqueued>>

NotifyFinalized ==
  /\ caller = "notify finalized" /\ caller' = "join"
  /\ WakeWorkers
  /\ UNCHANGED <<threads_, task_queue_, running_threads_, status_, closing,
                 held, enqueued>>

JoinThreads ==
  /\ caller = "join" /\ caller' = "gone"
  /\ \A w \in threads_ : at[w] = "gone"
  /\ UNCHANGED <<threads_, task_queue_, running_threads_, status_, closing, at,
                 held, enqueued>>

-----------------------------------------------------------------------------
(* A thread of the pool: worker_loop().                                    *)

Moves(w, from, to) == at[w] = from /\ at' = [at EXCEPT ![w] = to]

\* Up to the main loop; status_ is initialized by now.
Initialized(w) ==
  /\ Moves(w, "start", "poll")
  /\ UNCHANGED <<threads_, task_queue_, running_threads_, status_, caller,
                 closing, held, enqueued>>

\* Mutant: the loop tests the queue only, and waits on when it is destroyed.
WaitForever(w) ==
  /\ task_queue_ = <<>>
  /\ Moves(w, "poll", "asleep")
  /\ UNCHANGED <<threads_, task_queue_, running_threads_, status_, caller,
                 closing, held, enqueued>>

WaitForTask(w) ==
  /\ task_queue_ = <<>> /\ status_ = "initialized"
  /\ Moves(w, "poll", "asleep")
  /\ UNCHANGED <<threads_, task_queue_, running_threads_, status_, caller,
                 closing, held, enqueued>>

TakeTask(w) ==
  /\ task_queue_ # <<>>
  /\ Moves(w, "poll", "task")
  /\ held' = [held EXCEPT ![w] = Head(task_queue_)]
  /\ running_threads_' = running_threads_ + 1
  /\ task_queue_' = Tail(task_queue_)
  /\ UNCHANGED <<threads_, status_, caller, closing, enqueued>>

\* Mutant: whoever finishes a task leaves the notification to the others.
DecideQuietly(w, from, running) ==
  LET done == status_ = "finalized" /\ task_queue_ = <<>>
  IN  Moves(w, from, IF done THEN "gone" ELSE "poll")

\* The end of the critical section: notify_flush_cv and done are decided with
\* the number of running threads it leaves behind.
Decide(w, from, running) ==
  LET notify_flush_cv == task_queue_ = <<>> /\ running = 0
      done == status_ = "finalized" /\ task_queue_ = <<>>
  IN  Moves(w, from, IF notify_flush_cv
                     THEN IF done THEN "last notify" ELSE "notify"
                     ELSE IF done THEN "gone" ELSE "poll")

\* task() has returned.
FinishTask(w) ==
  /\ Decide(w, "task", running_threads_ - 1)
  /\ held' = [held EXCEPT ![w] = NoTask]
  /\ running_threads_' = running_threads_ - 1
  /\ UNCHANGED <<threads_, task_queue_, status_, caller, closing, enqueued>>

\* There is no task left and the executor is being destroyed.
Retire(w) ==
  /\ task_queue_ = <<>> /\ status_ = "finalized"
  /\ Decide(w, "poll", running_threads_)
  /\ UNCHANGED <<threads_, task_queue_, running_threads_, status_, caller,
                 closing, held, enqueued>>

\* flush_cv_.notify_one()
NotifyFlush(w) ==
  /\ \/ Moves(w, "notify", "poll")
     \/ Moves(w, "last notify", "gone")
  /\ caller' = IF caller = "asleep" THEN "flush" ELSE caller
  /\ UNCHANGED <<threads_, task_queue_, running_threads_, status_, closing,
                 held, enqueued>>

-----------------------------------------------------------------------------
StraySignal ==
  /\ \/ (\E w \in Threads : Moves(w, "asleep", "poll")) /\ UNCHANGED caller
     \/ caller = "asleep" /\ caller' = "flush" /\ UNCHANGED at
  /\ UNCHANGED <<threads_, task_queue_, running_threads_, status_, closing,
                 held, enqueued>>

\* What the caller chooses to do, and what it then does on its own.
CallerChooses == (\E t \in Tasks : Enqueue(t)) \/ CallFlush \/ Close

CallerRuns ==
  \/ InlineReturns \/ NotifyWorkers \/ FlushTest
  \/ Finalize \/ NotifyFinalized \/ JoinThreads

ThreadRuns(w) ==
  \/ Initialized(w) \/ WaitForTask(w) \/ TakeTask(w) \/ FinishTask(w)
  \/ Retire(w) \/ NotifyFlush(w)

Destroyed == caller = "gone" /\ UNCHANGED execVars

ExecNext ==
  \/ CallerChooses
  \/ CallerRuns
  \/ \E w \in Threads : ThreadRuns(w)
  \/ StraySignal
  \/ Destroyed

\* Every thread that can make a step is scheduled, tasks return, and the mutex
\* is handed to a thread that keeps asking for it.
ExecFairness ==
  WF_execVars(CallerRuns) /\ \A w \in Threads : WF_execVars(ThreadRuns(w))

ExecSafeSpec == ExecInit /\ [][ExecNext]_execVars
ExecSpec == ExecSafeSpec /\ ExecFairness

-----------------------------------------------------------------------------
(* Properties.                                                             *)

\* No wakeup is lost, the part of liveness that one state shows.  A thread
\* sleeps only while there is nothing to take, or its notification is on the
\* way; and when all is done while the caller sleeps in flush(), there is a
\* thread that is about to wake it: the last one that saw the queue empty and
\* nobody running.
WakeupsOnTheWay ==
  /\ task_queue_ # <<>> /\ caller # "notify" =>
       \A w \in threads_ : at[w] # "asleep"
  /\ caller \in {"join", "gone"} => \A w \in Threads : at[w] # "asleep"
  /\ caller = "asleep" /\ flush_cv_cond =>
       \E w \in threads_ : at[w] = "notify"

\* The destructor leaves no task behind and no thread running: the threads use
\* members of the executor until they are gone.
NothingLeftBehind ==
  /\ caller \in {"finalize", "notify finalized", "join", "gone"} =>
       flush_cv_cond /\ \A w \in Threads : at[w] # "task"
  /\ caller = "gone" => \A w \in Threads : at[w] = "gone"

\* The destructor comes to its end.
ThreadsJoin == closing ~> caller = "gone"

TQ == INSTANCE TaskQueue
        WITH Runners <- Threads \cup {TheCaller}, Caller <- TheCaller,
             queued <- task_queue_, running <- held,
             flushing <- caller \in {"flush", "asleep"}

\* Tasks are run in the order they came, each of them once, and flush()
\* returns, and only when none is left or running.
ImplementsTaskQueue == TQ!Spec
=============================================================================
