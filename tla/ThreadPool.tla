----------------------------- MODULE ThreadPool -----------------------------
(***************************************************************************)
(* taichi::ThreadPool (src/taichi/system/threading.{h,cpp}): the pool that *)
(* runs every CPU kernel.  One caller (the program's thread) hands a job   *)
(* to run(), sleeps on master_cv and gets control back when all tasks are  *)
(* done; max_num_threads workers sit in target(), asleep on slave_cv       *)
(* between jobs.                                                           *)
(*                                                                         *)
(* The mutex.  A critical section that touches only variables no one reads *)
(* without the mutex is one step.  The one in run() also writes task_head, *)
(* task_tail and the context, which a worker in its task loop reads        *)
(* without the mutex, so it is two steps and the caller owns the mutex     *)
(* between them (master = "publish").                                      *)
(*                                                                         *)
(* Condition variables.  A thread that finds its predicate false falls     *)
(* asleep in the same step that releases the mutex.  notify_all and        *)
(* notify_one are steps of their own, made after the mutex is released;    *)
(* they wake only threads that sleep at that moment.  Any sleeper may also *)
(* wake spuriously.                                                        *)
(***************************************************************************)
EXTENDS Integers, FiniteSets

CONSTANTS
  Workers,         \* the pool's threads
  Contexts,        \* values of range_for_task_context
  Splits,          \* values a caller passes as `splits'
  DesiredThreads,  \* values a caller passes as `desired_num_threads'
  InitialDesired,  \* what the member desired_num_threads may hold before the
                   \* first run(): the constructor does not initialize it
  IntMax,          \* largest int; task_head wraps past it
  MaxRuns          \* bound on the calls of run() in a behaviour

ASSUME WorkersAssumption == IsFiniteSet(Workers) /\ Workers # {}
ASSUME DesiredAssumption == DesiredThreads \subseteq Int
ASSUME InitialDesiredAssumption == InitialDesired \subseteq Int
ASSUME BoundsAssumption == IntMax \in Nat /\ MaxRuns \in Nat
ASSUME SplitsAssumption == Splits \subseteq (-IntMax - 1) .. IntMax

VARIABLES
  task_head, task_tail,       \* next task, number of tasks
  context,                    \* range_for_task_context
  desired_num_threads,
  timestamp, last_finished,   \* number of the current job, of the last done
  started, exiting,
  running_threads,
  thread_counter,
  master,                     \* where the calling thread is
  pc,                         \* where each worker is
  thread_id, last_timestamp, task_id,  \* locals of each worker's target()
  argument                    \* the context each worker's func was called with

\* Written by the caller only; by a worker only, among its locals.
callerVars == <<task_tail, context, desired_num_threads, timestamp, exiting>>
locals == <<thread_id, last_timestamp, task_id, argument>>
counters == <<last_finished, running_threads, thread_counter>>
vars == <<task_head, started, counters, master, pc, callerVars, locals>>

max_num_threads == Cardinality(Workers)

MutexFree == master # "publish"

\* std::min, and std::atomic<int>::fetch_add's two's complement increment.
Smaller(a, b) == IF a < b THEN a ELSE b
Increment(i) == IF i = IntMax THEN -IntMax - 1 ELSE i + 1

TypeOK ==
  /\ task_head \in (-IntMax - 1) .. IntMax
  /\ task_tail \in (-IntMax - 1) .. IntMax
  /\ context \in Contexts
  /\ desired_num_threads \in Int
  /\ timestamp \in Nat
  /\ last_finished \in Nat
  /\ started \in BOOLEAN
  /\ exiting \in BOOLEAN
  /\ running_threads \in 0 .. max_num_threads
  /\ thread_counter \in Nat
  /\ master \in {"idle", "publish", "notify", "wait", "asleep", "return",
                 "exit", "join", "gone"}
  /\ pc \in [Workers -> {"start", "wait", "asleep", "fetch", "compare",
                         "func", "leave", "signal", "done"}]
  /\ thread_id \in [Workers -> Nat]
  /\ last_timestamp \in [Workers -> Nat]
  /\ task_id \in [Workers -> Int]
  /\ argument \in [Workers -> Contexts]

Init ==
  /\ task_head = 0 /\ task_tail = 0
  /\ context \in Contexts
  /\ desired_num_threads \in InitialDesired
  /\ timestamp = 1 /\ last_finished = 0
  /\ started = FALSE /\ exiting = FALSE
  /\ running_threads = 0
  /\ thread_counter = 0
  /\ master = "idle"
  /\ pc = [w \in Workers |-> "start"]
  /\ thread_id = [w \in Workers |-> 0]
  /\ last_timestamp = [w \in Workers |-> 0]
  /\ task_id = [w \in Workers |-> 0]
  /\ argument = [w \in Workers |-> context]

-----------------------------------------------------------------------------
(* The calling thread: run() and the destructor.                           *)

\* Mutant: started is not reset for the new job.
RunLockKeepsStarted(desired, ctx) ==
  /\ master = "idle" /\ timestamp <= MaxRuns
  /\ context' = ctx
  /\ desired_num_threads' = Smaller(desired, max_num_threads)
  /\ task_head' = 0
  /\ master' = "publish"
  /\ UNCHANGED <<started, task_tail, timestamp, exiting, counters, pc, locals>>

\* run() up to the store to task_head; the mutex stays locked.
RunLock(desired, ctx) ==
  /\ master = "idle"
  /\ timestamp <= MaxRuns
  /\ Smaller(desired, max_num_threads) > 0
  /\ context' = ctx
  /\ desired_num_threads' = Smaller(desired, max_num_threads)
  /\ started' = FALSE
  /\ task_head' = 0
  /\ master' = "publish"
  /\ UNCHANGED <<task_tail, timestamp, exiting, counters, pc, locals>>

\* The rest of the critical section.
RunPublish(splits) ==
  /\ master = "publish"
  /\ task_tail' = splits
  /\ timestamp' = timestamp + 1
  /\ master' = "notify"
  /\ UNCHANGED <<task_head, context, desired_num_threads, exiting, started,
                 counters, pc, locals>>

NotifyAllWorkers ==
  pc' = [w \in Workers |-> IF pc[w] = "asleep" THEN "wait" ELSE pc[w]]

\* Mutants: the workers are not woken.
RunNotifyNobody ==
  /\ master = "notify" /\ master' = "wait"
  /\ UNCHANGED <<task_head, started, counters, pc, callerVars, locals>>
ExitNotifyNobody ==
  /\ master = "exit" /\ master' = "join"
  /\ UNCHANGED <<task_head, started, counters, pc, callerVars, locals>>

RunNotify ==
  /\ master = "notify"
  /\ NotifyAllWorkers
  /\ master' = "wait"
  /\ UNCHANGED <<task_head, started, counters, callerVars, locals>>

\* master_cv.wait: one evaluation of its predicate under the mutex.
RunWait ==
  /\ master = "wait"
  /\ master' = IF started /\ running_threads = 0 THEN "return" ELSE "asleep"
  /\ UNCHANGED <<task_head, started, counters, pc, callerVars, locals>>

RunReturn ==
  /\ master = "return"
  /\ master' = "idle"
  /\ UNCHANGED <<task_head, started, counters, pc, callerVars, locals>>

\* ~ThreadPool
Exit ==
  /\ master = "idle"
  /\ exiting' = TRUE
  /\ master' = "exit"
  /\ UNCHANGED <<task_head, started, counters, pc, task_tail, context,
                 desired_num_threads, timestamp, locals>>

ExitNotify ==
  /\ master = "exit"
  /\ NotifyAllWorkers
  /\ master' = "join"
  /\ UNCHANGED <<task_head, started, counters, callerVars, locals>>

Join ==
  /\ master = "join"
  /\ \A w \in Workers : pc[w] = "done"
  /\ master' = "gone"
  /\ UNCHANGED <<task_head, started, counters, pc, callerVars, locals>>

-----------------------------------------------------------------------------
(* A worker: target().                                                     *)

Goto(w, label) == pc' = [pc EXCEPT ![w] = label]

TakeThreadId(w) ==
  /\ pc[w] = "start" /\ MutexFree
  /\ thread_id' = [thread_id EXCEPT ![w] = thread_counter]
  /\ thread_counter' = thread_counter + 1
  /\ Goto(w, "wait")
  /\ UNCHANGED <<task_head, started, last_finished, running_threads, master,
                 callerVars, last_timestamp, task_id, argument>>

\* The predicate of slave_cv.wait.
HasJob(w) ==
  \/ timestamp > last_timestamp[w] /\ thread_id[w] < desired_num_threads
  \/ exiting

Sleep(w) ==
  /\ pc[w] = "wait" /\ MutexFree
  /\ ~HasJob(w)
  /\ Goto(w, "asleep")
  /\ UNCHANGED <<task_head, started, counters, master, callerVars, locals>>

Wake(w) ==
  /\ pc[w] = "wait" /\ MutexFree
  /\ HasJob(w)
  /\ last_timestamp' = [last_timestamp EXCEPT ![w] = timestamp]
  /\ UNCHANGED <<task_head, master, last_finished, thread_counter, callerVars,
                 thread_id, task_id, argument>>

Leave(w) ==
  /\ Wake(w) /\ exiting
  /\ Goto(w, "done")
  /\ UNCHANGED <<started, running_threads>>

\* Woken after the others finished the whole job: back to the wait.
Skip(w) ==
  /\ Wake(w) /\ ~exiting /\ last_finished >= timestamp
  /\ UNCHANGED <<pc, started, running_threads>>

\* Mutant: last_finished is not consulted.
JoinJobLate(w) ==
  /\ Wake(w) /\ ~exiting
  /\ started' = TRUE /\ running_threads' = running_threads + 1
  /\ Goto(w, "fetch")

JoinJob(w) ==
  /\ Wake(w) /\ ~exiting /\ last_finished < timestamp
  /\ started' = TRUE
  /\ running_threads' = running_threads + 1
  /\ Goto(w, "fetch")

\* task_id = task_head.fetch_add(1), without the mutex.
FetchTask(w) ==
  /\ pc[w] = "fetch"
  /\ task_id' = [task_id EXCEPT ![w] = task_head]
  /\ task_head' = Increment(task_head)
  /\ Goto(w, "compare")
  /\ UNCHANGED <<started, counters, master, callerVars, thread_id,
                 last_timestamp, argument>>

\* Mutant: task_id > task_tail instead of >=.
CallFuncOffByOne(w) ==
  /\ pc[w] = "compare" /\ task_id[w] <= task_tail
  /\ argument' = [argument EXCEPT ![w] = context]
  /\ Goto(w, "func")
  /\ UNCHANGED <<task_head, started, counters, master, callerVars, thread_id,
                 last_timestamp, task_id>>

\* The call of func, with the context it is given.
CallFunc(w) ==
  /\ pc[w] = "compare" /\ task_id[w] < task_tail
  /\ argument' = [argument EXCEPT ![w] = context]
  /\ Goto(w, "func")
  /\ UNCHANGED <<task_head, started, counters, master, callerVars, thread_id,
                 last_timestamp, task_id>>

NoTaskLeft(w) ==
  /\ pc[w] = "compare" /\ task_id[w] >= task_tail
  /\ Goto(w, "leave")
  /\ UNCHANGED <<task_head, started, counters, master, callerVars, locals>>

FuncReturns(w) ==
  /\ pc[w] = "func"
  /\ Goto(w, "fetch")
  /\ UNCHANGED <<task_head, started, counters, master, callerVars, locals>>

Finish(w) ==
  /\ pc[w] = "leave" /\ MutexFree
  /\ running_threads' = running_threads - 1
  /\ IF running_threads = 1
     THEN last_finished' = last_timestamp[w] /\ Goto(w, "signal")
     ELSE UNCHANGED last_finished /\ Goto(w, "wait")
  /\ UNCHANGED <<task_head, started, thread_counter, master, callerVars,
                 locals>>

\* master_cv.notify_one, after the mutex is released.
Signal(w) ==
  /\ pc[w] = "signal"
  /\ master' = IF master = "asleep" THEN "wait" ELSE master
  /\ Goto(w, "wait")
  /\ UNCHANGED <<task_head, started, counters, callerVars, locals>>

-----------------------------------------------------------------------------
SpuriousWakeup ==
  /\ \/ \E w \in Workers : pc[w] = "asleep" /\ Goto(w, "wait")
        /\ UNCHANGED master
     \/ master = "asleep" /\ master' = "wait" /\ UNCHANGED pc
  /\ UNCHANGED <<task_head, started, counters, callerVars, locals>>

\* What the caller chooses to do, and what it then does on its own.
Request ==
  \/ \E d \in DesiredThreads, c \in Contexts : RunLock(d, c)
  \/ Exit

Master ==
  \/ \E n \in Splits : RunPublish(n)
  \/ RunNotify \/ RunWait \/ RunReturn
  \/ ExitNotify \/ Join

Worker(w) ==
  \/ TakeThreadId(w)
  \/ Sleep(w) \/ Leave(w) \/ Skip(w) \/ JoinJob(w)
  \/ FetchTask(w) \/ CallFunc(w) \/ NoTaskLeft(w) \/ FuncReturns(w)
  \/ Finish(w) \/ Signal(w)

Terminated == master = "gone" /\ UNCHANGED vars

Next ==
  \/ Request
  \/ Master
  \/ \E w \in Workers : Worker(w)
  \/ SpuriousWakeup
  \/ Terminated

\* The scheduler runs every thread that can make a step, and the mutex is
\* handed to a thread that keeps asking for it.  Neither the caller's requests
\* nor spurious wakeups are promised.
Fairness == WF_vars(Master) /\ \A w \in Workers : WF_vars(Worker(w))

SafeSpec == Init /\ [][Next]_vars
Spec == SafeSpec /\ Fairness

-----------------------------------------------------------------------------
(* Properties.                                                             *)

InLoop(w) == pc[w] \in {"fetch", "compare", "func", "leave"}
JobOpen == master \in {"notify", "wait", "asleep", "return"}

\* Between two jobs no worker is in its task loop.  The caller then rewrites
\* the context, func and task_head, task_tail, which the loop reads without the
\* mutex, and pops the stack frame the context points to (runtime.cpp,
\* cpu_parallel_range_for and its siblings).
QuiescentBetweenRuns == ~JobOpen => \A w \in Workers : ~InLoop(w)

\* TI_ASSERT(task_head >= task_tail) at the end of run(), which reads both
\* without the mutex.
AllTasksTaken == master = "return" => task_head >= task_tail

\* Only the threads the caller asked for work on its job: a kernel sizes
\* per-thread storage by the num_threads it passes.
OnlyDesiredThreads ==
  \A w \in Workers : InLoop(w) => thread_id[w] < desired_num_threads

\* The destructor gets every worker out of its wait and joins it.
TearDown == master = "exit" ~> master = "gone"

\* The state of ParallelFor that a state of the pool stands for.  A task is
\* pending until a worker calls func for it: it is still in the counter, or
\* fetched and about to be compared with task_tail.
Fetched == {w \in Workers : pc[w] = "compare" /\ task_id[w] < task_tail}

OpenCall == IF JobOpen
            THEN [open |-> TRUE, ctx |-> context, n |-> task_tail]
            ELSE [open |-> FALSE]
PendingTasks == IF JobOpen
                THEN task_head .. (task_tail - 1) \cup {task_id[w] : w \in Fetched}
                ELSE {}
ActiveTasks == [w \in Workers |->
                  IF pc[w] = "func"
                  THEN [busy |-> TRUE, ctx |-> argument[w], task |-> task_id[w]]
                  ELSE [busy |-> FALSE]]

PF == INSTANCE ParallelFor WITH Threads <- Workers, call <- OpenCall,
                                pending <- PendingTasks, active <- ActiveTasks

\* Every task of a job is run by exactly one thread, with the context of that
\* job, after run() was entered and before it returns.
SafeParallelFor == PF!SafeSpec

\* In addition run() returns: no wakeup is lost on slave_cv or master_cv, also
\* when all workers are through before the caller waits (the TODO in run()).
ImplementsParallelFor == PF!Spec

=============================================================================
