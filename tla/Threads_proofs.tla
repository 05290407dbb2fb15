--------------------------- MODULE Threads_proofs ---------------------------
(***************************************************************************)
(* The threads of the runtime and of the compiler: the CPU thread pool,    *)
(* the compilation workers, and what the threads that compile know of the  *)
(* SNode trees.  Three parts, each for every set of threads and every      *)
(* bound of its module; none uses a fact of another.                       *)
(***************************************************************************)
EXTENDS ThreadPool, ParallelExecutor, SNodeTrees, FiniteSetTheorems,
        SequenceTheorems, TLAPS

(***************************************************************************)
(* Part 1.  ThreadPool.                                                    *)
(*                                                                         *)
(* The argument.  A worker enters its task loop only for the current job,  *)
(* while the caller waits for it; it leaves the loop only when the counter *)
(* has passed the last task.  So when running_threads is back to 0 the     *)
(* counter has passed the last task and last_finished says so, which keeps *)
(* everybody out until the next job is published.                          *)
(***************************************************************************)

\* Two conditions on the constants: no worker takes itself for wanted before
\* the first job, and the counter of tasks does not run past INT_MAX.
NoStrayWorkers == \A d \in InitialDesired : d <= 0
SplitsFit == \A n \in Splits \cup {0} : n + max_num_threads <= IntMax

Loopers == {w \in Workers : InLoop(w)}

\* The workers that drew a number past the last task of the current job, or
\* came too late to draw one: none of them will increment task_head again.
Through(w) ==
  \/ pc[w] = "compare" /\ task_id[w] >= task_tail
  \/ pc[w] \notin {"fetch", "compare", "func"} /\ last_timestamp[w] = timestamp
AllThrough == {w \in Workers : Through(w)}

Types ==
  /\ task_head \in (-IntMax - 1) .. IntMax
  /\ task_tail \in (-IntMax - 1) .. IntMax
  /\ context \in Contexts
  /\ desired_num_threads \in Int
  /\ timestamp \in Nat /\ timestamp >= 1
  /\ last_finished \in Nat /\ last_finished <= timestamp
  /\ started \in BOOLEAN
  /\ exiting \in BOOLEAN
  /\ running_threads \in Int
  /\ thread_counter \in Nat
  /\ master \in {"idle", "publish", "notify", "wait", "asleep", "return",
                 "exit", "join", "gone"}
  /\ pc \in [Workers -> {"start", "wait", "asleep", "fetch", "compare",
                         "func", "leave", "signal", "done"}]
  /\ thread_id \in [Workers -> Nat]
  /\ last_timestamp \in [Workers -> Nat]
  /\ \A w \in Workers : last_timestamp[w] <= timestamp
  /\ task_id \in [Workers -> Int]
  /\ argument \in [Workers -> Contexts]

Counted == running_threads = Cardinality(Loopers)

\* Who is in the loop, and when.
LoopInv ==
  \A w \in Workers : InLoop(w) =>
    /\ JobOpen /\ started
    /\ last_timestamp[w] = timestamp /\ last_finished < timestamp
    /\ thread_id[w] < desired_num_threads

\* Where the caller is, against what the workers have recorded.
MasterInv ==
  /\ master = "idle" => last_finished = timestamp \/ desired_num_threads <= 0
  /\ master = "publish" => ~started /\ task_head = 0
  /\ master = "return" => started /\ running_threads = 0
  /\ master \in {"exit", "join", "gone"} => exiting
  /\ JobOpen /\ started /\ running_threads = 0 => last_finished = timestamp

\* Which task numbers are out.
TaskInv ==
  /\ JobOpen => task_head >= 0 /\ task_tail \in Splits
  /\ JobOpen /\ last_finished = timestamp => task_head >= task_tail
  /\ \A w \in Workers :
       /\ pc[w] \in {"compare", "func"} => task_id[w] \in 0 .. task_head - 1
       /\ pc[w] = "func" => task_id[w] < task_tail /\ argument[w] = context
       /\ pc[w] = "leave" => task_head >= task_tail
  /\ \A v, w \in Workers :
       v # w /\ pc[v] \in {"compare", "func"} /\ pc[w] \in {"compare", "func"}
         => task_id[v] # task_id[w]

\* How far past the last task the counter can be.
WidthInv ==
  JobOpen =>
    task_head <= (IF task_tail > 0 THEN task_tail ELSE 0) + Cardinality(AllThrough)

IInv == Types /\ Counted /\ LoopInv /\ MasterInv /\ TaskInv /\ WidthInv

-----------------------------------------------------------------------------
LEMMA MaxThreads == max_num_threads \in Nat \ {0}
  BY WorkersAssumption, FS_CardinalityType, FS_EmptySet DEF max_num_threads

LEMMA SetsFinite ==
  /\ IsFiniteSet(Loopers) /\ Cardinality(Loopers) \in 0 .. max_num_threads
  /\ IsFiniteSet(AllThrough) /\ Cardinality(AllThrough) \in Nat
  <1>1. Loopers \in SUBSET Workers /\ AllThrough \in SUBSET Workers
    BY DEF Loopers, AllThrough
  <1>2. QED
    BY <1>1, WorkersAssumption, FS_Subset, FS_CardinalityType, MaxThreads
    DEF max_num_threads

LEMMA InitIInv ==
  ASSUME NoStrayWorkers, Init
  PROVE  IInv
  <1> USE DEF Init
  <1>1. Types
    <2>1. task_tail \in (-IntMax - 1) .. IntMax
      BY BoundsAssumption
    <2>2. desired_num_threads \in Int
      BY InitialDesiredAssumption
    <2>3. started \in BOOLEAN /\ exiting \in BOOLEAN
      BY Zenon
    <2>4. QED
      BY <2>1, <2>2, <2>3 DEF Types
  <1>2. Counted
    <2>1. Loopers = {}
      BY DEF Loopers, InLoop
    <2>2. QED
      BY <2>1, FS_EmptySet DEF Counted
  <1>3. LoopInv /\ MasterInv /\ TaskInv
    BY InitialDesiredAssumption DEF LoopInv, MasterInv, TaskInv, InLoop, JobOpen, NoStrayWorkers
  <1>4. WidthInv
    BY DEF WidthInv, JobOpen
  <1>5. QED
    BY <1>1, <1>2, <1>3, <1>4 DEF IInv

-----------------------------------------------------------------------------
(* Each part of the invariant is preserved.                                *)

LEMMA TypesStep ==
  ASSUME IInv, SplitsFit, Next
  PROVE  Types'
  <1> USE DEF IInv, Types, callerVars, locals, counters
  <1>1. ASSUME NEW d \in DesiredThreads, NEW c \in Contexts, RunLock(d, c)
        PROVE  Types'
    <2>1. desired_num_threads' \in Int
      BY <1>1, DesiredAssumption, MaxThreads DEF RunLock, Smaller
    <2>2. started' \in BOOLEAN
      BY <1>1, Zenon DEF RunLock
    <2>3. QED
      BY <1>1, <2>1, <2>2, BoundsAssumption DEF RunLock
  <1>2. CASE Exit
    BY <1>2 DEF Exit
  <1>3. ASSUME NEW n \in Splits, RunPublish(n)
        PROVE  Types'
    BY <1>3, SplitsAssumption, BoundsAssumption DEF RunPublish
  <1>4. CASE RunNotify \/ ExitNotify
    BY <1>4 DEF RunNotify, ExitNotify, NotifyAllWorkers
  <1>5. CASE RunWait \/ RunReturn \/ Join
    BY <1>5 DEF RunWait, RunReturn, Join
  <1>6. ASSUME NEW w \in Workers, TakeThreadId(w) \/ Sleep(w)
        PROVE  Types'
    BY <1>6 DEF TakeThreadId, Sleep, Goto
  <1>7. ASSUME NEW w \in Workers, Leave(w) \/ Skip(w) \/ JoinJob(w)
        PROVE  Types'
    <2>1. last_timestamp' = [last_timestamp EXCEPT ![w] = timestamp]
      BY <1>7 DEF Leave, Skip, JoinJob, Wake
    <2>2. timestamp' = timestamp
      BY <1>7 DEF Leave, Skip, JoinJob, Wake
    <2>3. /\ last_timestamp' \in [Workers -> Nat]
          /\ \A v \in Workers : last_timestamp'[v] <= timestamp'
      BY <2>1, <2>2
    <2>4. started' \in BOOLEAN
      BY <1>7, Zenon DEF Leave, Skip, JoinJob
    <2>5. QED
      BY <1>7, <2>3, <2>4 DEF Leave, Skip, JoinJob, Wake, Goto
  <1>8. ASSUME NEW w \in Workers, FetchTask(w)
        PROVE  Types'
    BY <1>8, BoundsAssumption DEF FetchTask, Increment, Goto
  <1>9. ASSUME NEW w \in Workers, CallFunc(w) \/ NoTaskLeft(w) \/ FuncReturns(w)
        PROVE  Types'
    BY <1>9 DEF CallFunc, NoTaskLeft, FuncReturns, Goto
  <1>10. ASSUME NEW w \in Workers, Finish(w) \/ Signal(w)
        PROVE  Types'
    BY <1>10 DEF Finish, Signal, Goto
  <1>11. CASE SpuriousWakeup
    BY <1>11 DEF SpuriousWakeup, Goto
  <1>12. CASE Terminated
    BY <1>12 DEF Terminated, vars
  <1>13. QED
    BY <1>1, <1>2, <1>3, <1>4, <1>5, <1>6, <1>7, <1>8, <1>9, <1>10, <1>11,
       <1>12 DEF Next, Request, Master, Worker

LEMMA CountedStep ==
  ASSUME IInv, Next
  PROVE  Counted'
  <1> USE DEF IInv, Types, Counted, callerVars, locals, counters
  <1>1. ASSUME Loopers' = Loopers, running_threads' = running_threads
        PROVE  Counted'
    BY <1>1
  <1>2. ASSUME NEW d \in DesiredThreads, NEW c \in Contexts, RunLock(d, c)
        PROVE  Counted'
    BY <1>1, <1>2 DEF RunLock, Loopers, InLoop
  <1>3. CASE Exit
    BY <1>1, <1>3 DEF Exit, Loopers, InLoop
  <1>4. ASSUME NEW n \in Splits, RunPublish(n)
        PROVE  Counted'
    BY <1>1, <1>4 DEF RunPublish, Loopers, InLoop
  <1>5. CASE RunNotify \/ ExitNotify
    BY <1>1, <1>5 DEF RunNotify, ExitNotify, NotifyAllWorkers, Loopers, InLoop
  <1>6. CASE RunWait \/ RunReturn \/ Join
    BY <1>1, <1>6 DEF RunWait, RunReturn, Join, Loopers, InLoop
  <1>7. ASSUME NEW w \in Workers,
               TakeThreadId(w) \/ Sleep(w) \/ Leave(w) \/ Skip(w)
        PROVE  Counted'
    BY <1>1, <1>7 DEF TakeThreadId, Sleep, Leave, Skip, Wake, Goto, Loopers, InLoop
  <1>8. ASSUME NEW w \in Workers, JoinJob(w)
        PROVE  Counted'
    <2>1. Loopers' = Loopers \cup {w} /\ w \notin Loopers
      BY <1>8 DEF JoinJob, Wake, Goto, Loopers, InLoop
    <2>2. Cardinality(Loopers') = Cardinality(Loopers) + 1
      BY <2>1, SetsFinite, FS_AddElement
    <2>3. QED
      BY <1>8, <2>2 DEF JoinJob
  <1>9. ASSUME NEW w \in Workers,
               FetchTask(w) \/ CallFunc(w) \/ NoTaskLeft(w) \/ FuncReturns(w) \/ Signal(w)
        PROVE  Counted'
    BY <1>1, <1>9 DEF FetchTask, CallFunc, NoTaskLeft, FuncReturns, Signal, Goto, Loopers, InLoop
  <1>10. ASSUME NEW w \in Workers, Finish(w)
        PROVE  Counted'
    <2>1. Loopers' = Loopers \ {w} /\ w \in Loopers
      BY <1>10 DEF Finish, Goto, Loopers, InLoop
    <2>2. Cardinality(Loopers') = Cardinality(Loopers) - 1
      BY <2>1, SetsFinite, FS_RemoveElement
    <2>3. QED
      BY <1>10, <2>2 DEF Finish
  <1>11. CASE SpuriousWakeup
    BY <1>1, <1>11 DEF SpuriousWakeup, Goto, Loopers, InLoop
  <1>12. CASE Terminated
    BY <1>1, <1>12 DEF Terminated, vars, Loopers, InLoop
  <1>13. QED
    BY <1>2, <1>3, <1>4, <1>5, <1>6, <1>7, <1>8, <1>9, <1>10, <1>11, <1>12
    DEF Next, Request, Master, Worker

\* A worker only joins the loop of the job the caller is waiting for.
LEMMA JoinOnlyOpenJob ==
  ASSUME IInv, NEW w \in Workers, JoinJob(w)
  PROVE  /\ JobOpen /\ master # "return"
         /\ timestamp > last_timestamp[w]
         /\ thread_id[w] < desired_num_threads
  BY MaxThreads DEF IInv, Types, MasterInv, JoinJob, Wake, HasJob, MutexFree, JobOpen

LEMMA LoopStep ==
  ASSUME IInv, Next
  PROVE  LoopInv'
  <1> USE DEF IInv, Types, LoopInv, InLoop, JobOpen, callerVars, locals, counters
  <1>1. ASSUME NEW d \in DesiredThreads, NEW c \in Contexts, RunLock(d, c)
        PROVE  LoopInv'
    BY <1>1 DEF RunLock
  <1>2. CASE Exit
    BY <1>2 DEF Exit
  <1>3. ASSUME NEW n \in Splits, RunPublish(n)
        PROVE  LoopInv'
    BY <1>3 DEF RunPublish
  <1>4. CASE RunNotify \/ ExitNotify
    BY <1>4 DEF RunNotify, ExitNotify, NotifyAllWorkers
  <1>5. CASE RunWait
    BY <1>5 DEF RunWait
  <1>6. CASE RunReturn
    <2>1. Loopers = {}
      BY <1>6, SetsFinite, FS_EmptySet DEF RunReturn, MasterInv, Counted
    <2>2. QED
      BY <1>6, <2>1 DEF RunReturn, Loopers
  <1>7. CASE Join
    BY <1>7 DEF Join
  <1>8. ASSUME NEW w \in Workers,
               TakeThreadId(w) \/ Sleep(w) \/ Leave(w) \/ Skip(w)
        PROVE  LoopInv'
    BY <1>8 DEF TakeThreadId, Sleep, Leave, Skip, Wake, Goto
  <1>9. ASSUME NEW w \in Workers, JoinJob(w)
        PROVE  LoopInv'
    BY <1>9, JoinOnlyOpenJob DEF JoinJob, Wake, Goto
  <1>10. ASSUME NEW w \in Workers,
               FetchTask(w) \/ CallFunc(w) \/ NoTaskLeft(w) \/ FuncReturns(w) \/ Signal(w)
        PROVE  LoopInv'
    BY <1>10 DEF FetchTask, CallFunc, NoTaskLeft, FuncReturns, Signal, Goto
  <1>11. ASSUME NEW w \in Workers, Finish(w)
        PROVE  LoopInv'
    <2>1. w \in Loopers
      BY <1>11 DEF Finish, Loopers
    <2>2. running_threads = 1 => \E v : Loopers = {v}
      BY SetsFinite, FS_Singleton DEF Counted
    <2>3. running_threads = 1 => Loopers = {w}
      BY <2>1, <2>2
    <2>4. QED
      BY <1>11, <2>3 DEF Finish, Goto, Loopers
  <1>12. CASE SpuriousWakeup
    BY <1>12 DEF SpuriousWakeup, Goto
  <1>13. CASE Terminated
    BY <1>13 DEF Terminated, vars
  <1>14. QED
    BY <1>1, <1>2, <1>3, <1>4, <1>5, <1>6, <1>7, <1>8, <1>9, <1>10, <1>11,
       <1>12, <1>13 DEF Next, Request, Master, Worker

LEMMA MasterStep ==
  ASSUME IInv, Next
  PROVE  MasterInv'
  <1> USE DEF IInv, Types, MasterInv, JobOpen, callerVars, locals, counters
  <1>1. ASSUME NEW d \in DesiredThreads, NEW c \in Contexts, RunLock(d, c)
        PROVE  MasterInv'
    BY <1>1 DEF RunLock
  <1>2. CASE Exit
    BY <1>2 DEF Exit
  <1>3. ASSUME NEW n \in Splits, RunPublish(n)
        PROVE  MasterInv'
    BY <1>3 DEF RunPublish
  <1>4. CASE RunNotify \/ ExitNotify
    BY <1>4 DEF RunNotify, ExitNotify
  <1>5. CASE RunWait \/ RunReturn \/ Join
    BY <1>5 DEF RunWait, RunReturn, Join
  <1>6. ASSUME NEW w \in Workers,
               TakeThreadId(w) \/ Sleep(w) \/ Leave(w) \/ Skip(w)
        PROVE  MasterInv'
    BY <1>6 DEF TakeThreadId, Sleep, Leave, Skip, Wake
  <1>7. ASSUME NEW w \in Workers, JoinJob(w)
        PROVE  MasterInv'
    <2>1. running_threads >= 0
      BY SetsFinite, MaxThreads DEF Counted
    <2>2. master \in {"notify", "wait", "asleep"}
      BY <1>7, JoinOnlyOpenJob
    <2>3. master' = master /\ running_threads' # 0
      BY <1>7, <2>1 DEF JoinJob, Wake
    <2>4. QED
      BY <2>2, <2>3
  <1>8. ASSUME NEW w \in Workers,
               FetchTask(w) \/ CallFunc(w) \/ NoTaskLeft(w) \/ FuncReturns(w)
        PROVE  MasterInv'
    BY <1>8 DEF FetchTask, CallFunc, NoTaskLeft, FuncReturns, LoopInv, InLoop
  <1>s. ASSUME NEW w \in Workers, Signal(w)
        PROVE  MasterInv'
    BY <1>s DEF Signal
  <1>9. ASSUME NEW w \in Workers, Finish(w)
        PROVE  MasterInv'
    <2>1. /\ JobOpen /\ last_timestamp[w] = timestamp
          /\ running_threads # 0
      <3>1. w \in Loopers
        BY <1>9 DEF Finish, Loopers, InLoop
      <3>2. QED
        BY <1>9, <3>1, SetsFinite, FS_EmptySet DEF LoopInv, Loopers, Counted
    <2>2. QED
      BY <1>9, <2>1 DEF Finish
  <1>10. CASE SpuriousWakeup
    BY <1>10 DEF SpuriousWakeup
  <1>11. CASE Terminated
    BY <1>11 DEF Terminated, vars
  <1>12. QED
    BY <1>1, <1>2, <1>3, <1>4, <1>5, <1>6, <1>7, <1>8, <1>s, <1>9, <1>10, <1>11
    DEF Next, Request, Master, Worker

\* A worker about to draw a task number finds the counter short of IntMax.
LEMMA NoWrap ==
  ASSUME IInv, SplitsFit, NEW w \in Workers, pc[w] = "fetch"
  PROVE  /\ task_head \in Nat /\ task_head < IntMax
         /\ Increment(task_head) = task_head + 1
         /\ task_head < task_head + 1
  <1>1. AllThrough \subseteq Workers \ {w}
    BY DEF AllThrough, Through
  <1>2. /\ IsFiniteSet(Workers \ {w})
        /\ Cardinality(Workers \ {w}) = max_num_threads - 1
    BY WorkersAssumption, FS_RemoveElement DEF max_num_threads
  <1>3. Cardinality(AllThrough) <= max_num_threads - 1
    BY <1>1, <1>2, FS_Subset
  <1>4. /\ JobOpen /\ task_head \in Nat /\ task_tail \in Splits
        /\ task_head <= (IF task_tail > 0 THEN task_tail ELSE 0)
                          + Cardinality(AllThrough)
    BY DEF IInv, Types, LoopInv, InLoop, TaskInv, WidthInv
  <1>5. task_head < IntMax
    BY <1>3, <1>4, SetsFinite, MaxThreads, SplitsAssumption, BoundsAssumption
    DEF SplitsFit
  <1>6. QED
    BY <1>4, <1>5, BoundsAssumption DEF Increment

LEMMA TaskStep ==
  ASSUME IInv, SplitsFit, Next
  PROVE  TaskInv'
  <1> USE DEF IInv, Types, TaskInv, JobOpen, callerVars, locals, counters
  <1>1. ASSUME NEW d \in DesiredThreads, NEW c \in Contexts, RunLock(d, c)
        PROVE  TaskInv'
    BY <1>1 DEF RunLock, LoopInv, InLoop
  <1>2. CASE Exit
    BY <1>2 DEF Exit
  <1>3. ASSUME NEW n \in Splits, RunPublish(n)
        PROVE  TaskInv'
    BY <1>3 DEF RunPublish, LoopInv, InLoop, MasterInv
  <1>4. CASE RunNotify \/ ExitNotify
    BY <1>4 DEF RunNotify, ExitNotify, NotifyAllWorkers
  <1>5. CASE RunWait \/ RunReturn \/ Join
    BY <1>5 DEF RunWait, RunReturn, Join
  <1>6. ASSUME NEW w \in Workers,
               TakeThreadId(w) \/ Sleep(w) \/ Leave(w) \/ Skip(w) \/ JoinJob(w)
        PROVE  TaskInv'
    BY <1>6 DEF TakeThreadId, Sleep, Leave, Skip, JoinJob, Wake, Goto
  <1>7. ASSUME NEW w \in Workers, FetchTask(w)
        PROVE  TaskInv'
    BY <1>7, NoWrap DEF FetchTask, Goto
  <1>8. ASSUME NEW w \in Workers,
               CallFunc(w) \/ NoTaskLeft(w) \/ FuncReturns(w) \/ Signal(w)
        PROVE  TaskInv'
    BY <1>8 DEF CallFunc, NoTaskLeft, FuncReturns, Signal, Goto
  <1>9. ASSUME NEW w \in Workers, Finish(w)
        PROVE  TaskInv'
    BY <1>9 DEF Finish, Goto
  <1>10. CASE SpuriousWakeup
    BY <1>10 DEF SpuriousWakeup, Goto
  <1>11. CASE Terminated
    BY <1>11 DEF Terminated, vars
  <1>12. QED
    BY <1>1, <1>2, <1>3, <1>4, <1>5, <1>6, <1>7, <1>8, <1>9, <1>10, <1>11
    DEF Next, Request, Master, Worker

LEMMA WidthStep ==
  ASSUME IInv, SplitsFit, Next
  PROVE  WidthInv'
  <1> USE DEF IInv, Types, WidthInv, JobOpen, callerVars, locals, counters
  <1>0. IsFiniteSet(AllThrough') /\ Cardinality(AllThrough') \in Nat
    <2>1. AllThrough' \in SUBSET Workers
      BY DEF AllThrough
    <2>2. QED
      BY <2>1, WorkersAssumption, FS_Subset, FS_CardinalityType
  <1>1. ASSUME AllThrough \subseteq AllThrough', JobOpen' => JobOpen,
               task_head' = task_head, task_tail' = task_tail
        PROVE  WidthInv'
    <2>1. Cardinality(AllThrough) <= Cardinality(AllThrough')
      BY <1>0, <1>1, FS_Subset
    <2>2. QED
      BY <1>0, <1>1, <2>1, SetsFinite
  <1>2. ASSUME NEW d \in DesiredThreads, NEW c \in Contexts, RunLock(d, c)
        PROVE  WidthInv'
    BY <1>2 DEF RunLock
  <1>3. CASE Exit
    BY <1>3 DEF Exit
  <1>4. ASSUME NEW n \in Splits, RunPublish(n)
        PROVE  WidthInv'
    BY <1>0, <1>4, SplitsAssumption, BoundsAssumption DEF RunPublish, MasterInv
  <1>5. CASE RunNotify
    BY <1>1, <1>5 DEF RunNotify, NotifyAllWorkers, AllThrough, Through
  <1>6. CASE RunWait \/ RunReturn
    BY <1>1, <1>6 DEF RunWait, RunReturn, AllThrough, Through
  <1>7. CASE ExitNotify \/ Join
    BY <1>7 DEF ExitNotify, Join
  <1>8. ASSUME NEW w \in Workers,
               TakeThreadId(w) \/ Sleep(w) \/ Leave(w) \/ Skip(w)
        PROVE  WidthInv'
    BY <1>1, <1>8
    DEF TakeThreadId, Sleep, Leave, Skip, Wake, Goto, AllThrough, Through
  <1>9. ASSUME NEW w \in Workers, JoinJob(w)
        PROVE  WidthInv'
    <2>1. pc[w] = "wait" /\ timestamp > last_timestamp[w]
      BY <1>9, JoinOnlyOpenJob DEF JoinJob, Wake
    <2>2. w \notin AllThrough
      BY <2>1 DEF AllThrough, Through
    <2>3. AllThrough \subseteq AllThrough'
      BY <1>9, <2>2 DEF JoinJob, Wake, Goto, AllThrough, Through
    <2>4. QED
      BY <1>1, <1>9, <2>3 DEF JoinJob, Wake
  <1>10. ASSUME NEW w \in Workers, FetchTask(w)
        PROVE  WidthInv'
    <2>1. task_head' = task_head + 1 /\ task_tail' = task_tail /\ JobOpen
      BY <1>10, NoWrap DEF FetchTask, LoopInv, InLoop
    <2>2. AllThrough \subseteq AllThrough' /\ w \notin AllThrough
      BY <1>10 DEF FetchTask, Goto, AllThrough, Through
    <2>3. CASE task_head < task_tail
      <3>1. Cardinality(AllThrough) <= Cardinality(AllThrough')
        BY <1>0, <2>2, FS_Subset
      <3>2. QED
        BY <1>0, <2>1, <2>3, <3>1, SetsFinite DEF TaskInv
    <2>4. CASE task_head >= task_tail
      <3>1. AllThrough \cup {w} \subseteq AllThrough'
        BY <1>10, <2>2, <2>4 DEF FetchTask, Goto, AllThrough, Through
      <3>2. Cardinality(AllThrough) + 1 <= Cardinality(AllThrough')
        BY <1>0, <2>2, <3>1, SetsFinite, FS_AddElement, FS_Subset
      <3>3. QED
        BY <1>0, <2>1, <3>2, SetsFinite
    <2>5. QED
      BY <2>3, <2>4
  <1>11. ASSUME NEW w \in Workers,
                CallFunc(w) \/ NoTaskLeft(w) \/ FuncReturns(w) \/ Signal(w) \/ Finish(w)
        PROVE  WidthInv'
    BY <1>1, <1>11
    DEF CallFunc, NoTaskLeft, FuncReturns, Signal, Finish, Goto, AllThrough,
        Through, LoopInv, InLoop
  <1>12. CASE SpuriousWakeup
    BY <1>1, <1>12 DEF SpuriousWakeup, Goto, AllThrough, Through
  <1>13. CASE Terminated
    BY <1>1, <1>13 DEF Terminated, vars, AllThrough, Through
  <1>14. QED
    BY <1>2, <1>3, <1>4, <1>5, <1>6, <1>7, <1>8, <1>9, <1>10, <1>11,
       <1>12, <1>13 DEF Next, Request, Master, Worker

LEMMA StutterStep ==
  ASSUME IInv, UNCHANGED vars
  PROVE  IInv'
  BY DEF IInv, Types, Counted, LoopInv, MasterInv, TaskInv, WidthInv, vars,
         callerVars, locals, counters, JobOpen, InLoop, Loopers, AllThrough, Through

THEOREM Invariance ==
  ASSUME NoStrayWorkers, SplitsFit
  PROVE  SafeSpec => []IInv
  <1>1. Init => IInv
    BY InitIInv
  <1>2. IInv /\ [Next]_vars => IInv'
    BY TypesStep, CountedStep, LoopStep, MasterStep, TaskStep, WidthStep,
       StutterStep DEF IInv
  <1>3. QED
    BY <1>1, <1>2, PTL DEF SafeSpec

\* Every variable keeps its type; running_threads stays between 0 and the number
\* of workers and task_head does not wrap.
THEOREM TypeCorrect ==
  ASSUME NoStrayWorkers, SplitsFit
  PROVE  SafeSpec => []TypeOK
  <1>1. ASSUME IInv
        PROVE  TypeOK
    <2>1. running_threads \in 0 .. max_num_threads
      BY <1>1, SetsFinite DEF IInv, Counted
    <2>2. QED
      BY <1>1, <2>1 DEF IInv, Types, TypeOK
  <1>2. QED
    BY <1>1, Invariance, PTL

\* Between two jobs no worker is in its task loop, so run() may rewrite what
\* the loop reads without the mutex.
THEOREM Quiescence ==
  ASSUME NoStrayWorkers, SplitsFit
  PROVE  SafeSpec => []QuiescentBetweenRuns
  <1>1. IInv => QuiescentBetweenRuns
    BY DEF IInv, LoopInv, QuiescentBetweenRuns
  <1>2. QED
    BY <1>1, Invariance, PTL

\* run()'s final assertion never fails.
THEOREM AssertionHolds ==
  ASSUME NoStrayWorkers, SplitsFit
  PROVE  SafeSpec => []AllTasksTaken
  <1>1. IInv => AllTasksTaken
    BY DEF IInv, MasterInv, TaskInv, AllTasksTaken, JobOpen
  <1>2. QED
    BY <1>1, Invariance, PTL

\* Only threads with an id below desired_num_threads work on a job.
THEOREM DesiredOnly ==
  ASSUME NoStrayWorkers, SplitsFit
  PROVE  SafeSpec => []OnlyDesiredThreads
  <1>1. IInv => OnlyDesiredThreads
    BY DEF IInv, LoopInv, OnlyDesiredThreads
  <1>2. QED
    BY <1>1, Invariance, PTL

-----------------------------------------------------------------------------
(* The pool implements ParallelFor.                                        *)

Mapped == <<OpenCall, PendingTasks, ActiveTasks>>

LEMMA NobodyFetched ==
  ASSUME LoopInv, ~JobOpen \/ Loopers = {}
  PROVE  Fetched = {} /\ ActiveTasks = [w \in Workers |-> PF!Resting]
  BY DEF LoopInv, InLoop, Loopers, Fetched, ActiveTasks, PF!Resting

\* Steps that leave the counter, the job and the workers' places alone.
LEMMA MappedUnchanged ==
  ASSUME UNCHANGED <<task_head, task_tail, context, task_id, argument>>,
         JobOpen' = JobOpen,
         \A w \in Workers : /\ (pc'[w] = "compare") = (pc[w] = "compare")
                            /\ (pc'[w] = "func") = (pc[w] = "func")
  PROVE  UNCHANGED Mapped
  BY DEF Mapped, OpenCall, PendingTasks, ActiveTasks, Fetched

LEMMA InitMaps ==
  ASSUME Init
  PROVE  PF!Init
  BY DEF Init, PF!Init, PF!Idle, PF!Resting, OpenCall, PendingTasks,
         ActiveTasks, JobOpen

LEMMA StepMaps ==
  ASSUME IInv, IInv', SplitsFit, Next
  PROVE  PF!Next \/ UNCHANGED Mapped
  <1> USE DEF IInv, Types, callerVars, locals, counters
  <1>1. ASSUME NEW d \in DesiredThreads, NEW c \in Contexts, RunLock(d, c)
        PROVE  UNCHANGED Mapped
    <2>1. ~JobOpen /\ ~JobOpen'
      BY <1>1 DEF RunLock, JobOpen
    <2>2. ActiveTasks' = ActiveTasks
      BY <1>1, <2>1 DEF RunLock, ActiveTasks
    <2>3. QED
      BY <2>1, <2>2 DEF Mapped, OpenCall, PendingTasks
  <1>2. ASSUME NEW n \in Splits, RunPublish(n)
        PROVE  PF!Enter(context, n)
    <2>1. ~JobOpen /\ JobOpen' /\ task_head = 0
      BY <1>2 DEF RunPublish, JobOpen, MasterInv
    <2>2. Fetched' = {}
      BY <1>2, <2>1 DEF RunPublish, LoopInv, InLoop, Fetched
    <2>3. PendingTasks' = 0 .. (n - 1)
      BY <1>2, <2>1, <2>2 DEF RunPublish, PendingTasks
    <2>4. ActiveTasks' = ActiveTasks
      BY <1>2 DEF RunPublish, ActiveTasks
    <2>5. OpenCall = PF!Idle /\ OpenCall' = PF!Call(context, n)
      BY <1>2, <2>1 DEF RunPublish, OpenCall, PF!Idle, PF!Call
    <2>6. QED
      BY <2>3, <2>4, <2>5 DEF PF!Enter
  <1>3. CASE RunNotify
    <2>1. JobOpen' = JobOpen
      BY <1>3 DEF RunNotify, JobOpen
    <2>2. QED
      BY <1>3, <2>1, MappedUnchanged DEF RunNotify, NotifyAllWorkers
  <1>4. CASE RunWait
    <2>1. JobOpen' = JobOpen
      BY <1>4 DEF RunWait, JobOpen
    <2>2. QED
      BY <1>4, <2>1, MappedUnchanged DEF RunWait
  <1>5. ASSUME RunReturn
        PROVE  PF!Return
    <2>1. JobOpen /\ ~JobOpen' /\ task_head >= task_tail /\ Loopers = {}
      BY <1>5, SetsFinite, FS_EmptySet
      DEF RunReturn, JobOpen, MasterInv, TaskInv, Counted
    <2>2. PendingTasks = {} /\ PendingTasks' = {}
      BY <2>1, NobodyFetched DEF PendingTasks
    <2>3. ActiveTasks' = ActiveTasks /\ \A w \in Workers : ActiveTasks[w] = PF!Resting
      BY <1>5, <2>1, NobodyFetched DEF RunReturn, ActiveTasks
    <2>4. OpenCall # PF!Idle /\ OpenCall' = PF!Idle
      BY <2>1 DEF OpenCall, PF!Idle
    <2>5. QED
      BY <2>2, <2>3, <2>4 DEF PF!Return
  <1>6. CASE Exit \/ ExitNotify \/ Join
    <2>1. ~JobOpen /\ ~JobOpen'
      BY <1>6 DEF Exit, ExitNotify, Join, JobOpen
    <2>2. \A w \in Workers : /\ (pc'[w] = "func") = (pc[w] = "func")
                             /\ (pc'[w] = "compare") = (pc[w] = "compare")
      BY <1>6 DEF Exit, ExitNotify, Join, NotifyAllWorkers
    <2>3. UNCHANGED <<task_head, task_tail, context, task_id, argument>>
      BY <1>6 DEF Exit, ExitNotify, Join
    <2>4. ActiveTasks' = ActiveTasks
      BY <2>2, <2>3 DEF ActiveTasks
    <2>5. QED
      BY <2>1, <2>4 DEF Mapped, OpenCall, PendingTasks
  <1>7. ASSUME NEW w \in Workers,
               TakeThreadId(w) \/ Sleep(w) \/ Leave(w) \/ Skip(w) \/ JoinJob(w)
        PROVE  UNCHANGED Mapped
    <2>1. JobOpen' = JobOpen
      BY <1>7 DEF TakeThreadId, Sleep, Leave, Skip, JoinJob, Wake, JobOpen
    <2>2. QED
      BY <1>7, <2>1, MappedUnchanged
      DEF TakeThreadId, Sleep, Leave, Skip, JoinJob, Wake, Goto
  <1>8. ASSUME NEW w \in Workers, FetchTask(w)
        PROVE  UNCHANGED Mapped
    <2>1. JobOpen /\ JobOpen'
      BY <1>8 DEF FetchTask, LoopInv, InLoop, JobOpen
    <2>2. /\ task_head' = task_head + 1 /\ task_head \in Nat
          /\ task_tail' = task_tail /\ task_tail \in Int
      BY <1>8, NoWrap DEF FetchTask
    <2>3. ActiveTasks' = ActiveTasks /\ OpenCall' = OpenCall
      BY <1>8, <2>1 DEF FetchTask, Goto, ActiveTasks, OpenCall
    <2>4. CASE task_head < task_tail
      <3>1. Fetched' = Fetched \cup {w} /\ task_id'[w] = task_head
        BY <1>8, <2>2, <2>4 DEF FetchTask, Goto, Fetched
      <3>2. {task_id'[v] : v \in Fetched'} = {task_id[v] : v \in Fetched} \cup {task_head}
        BY <1>8, <3>1 DEF FetchTask, Fetched
      <3>3. task_head .. task_tail - 1 = {task_head} \cup task_head + 1 .. task_tail - 1
        BY <2>2, <2>4
      <3>4. PendingTasks' = PendingTasks
        BY <2>1, <2>2, <3>2, <3>3 DEF PendingTasks
      <3>5. QED
        BY <2>3, <3>4 DEF Mapped
    <2>5. CASE task_head >= task_tail
      <3>1. Fetched' = Fetched
        BY <1>8, <2>2, <2>5 DEF FetchTask, Goto, Fetched
      <3>2. {task_id'[v] : v \in Fetched'} = {task_id[v] : v \in Fetched}
        BY <1>8, <3>1 DEF FetchTask, Fetched
      <3>3. task_head .. task_tail - 1 = {} /\ task_head + 1 .. task_tail - 1 = {}
        BY <2>2, <2>5
      <3>4. PendingTasks' = PendingTasks
        BY <2>1, <2>2, <3>2, <3>3 DEF PendingTasks
      <3>5. QED
        BY <2>3, <3>4 DEF Mapped
    <2>6. QED
      BY <2>2, <2>4, <2>5
  <1>9. ASSUME NEW w \in Workers, CallFunc(w)
        PROVE  PF!Begin(w, task_id[w]) /\ task_id[w] \in PendingTasks
    <2>1. /\ JobOpen /\ JobOpen'
          /\ w \in Fetched /\ Fetched' = Fetched \ {w}
      BY <1>9 DEF CallFunc, Goto, LoopInv, InLoop, JobOpen, Fetched
    <2>2. task_id[w] \notin task_head .. task_tail - 1
      BY <1>9 DEF CallFunc, TaskInv
    <2>3. \A v \in Fetched \ {w} : task_id[v] # task_id[w]
      BY <1>9 DEF CallFunc, TaskInv, Fetched
    <2>4. {task_id[v] : v \in Fetched'} = {task_id[v] : v \in Fetched} \ {task_id[w]}
      BY <2>1, <2>3
    <2>5. /\ task_id[w] \in PendingTasks
          /\ PendingTasks' = PendingTasks \ {task_id[w]}
      <3>1. UNCHANGED <<task_head, task_tail>>
        BY <1>9 DEF CallFunc
      <3>2. task_id[w] \in {task_id[v] : v \in Fetched}
        BY <2>1
      <3>3. UNCHANGED task_id
        BY <1>9 DEF CallFunc
      <3>4. {task_id'[v] : v \in Fetched'} = {task_id[v] : v \in Fetched'}
        BY <3>3
      <3>5. QED
        BY <2>1, <2>2, <2>4, <3>1, <3>2, <3>4 DEF PendingTasks
    <2>6. OpenCall # PF!Idle /\ OpenCall.ctx = context /\ OpenCall' = OpenCall
      BY <1>9, <2>1 DEF CallFunc, OpenCall, PF!Idle
    <2>7. /\ ActiveTasks[w] = PF!Resting
          /\ ActiveTasks' = [ActiveTasks EXCEPT ![w] = PF!Running(context, task_id[w])]
      BY <1>9 DEF CallFunc, Goto, ActiveTasks, PF!Resting, PF!Running
    <2>8. QED
      BY <2>5, <2>6, <2>7 DEF PF!Begin
  <1>10. ASSUME NEW w \in Workers, NoTaskLeft(w)
        PROVE  UNCHANGED Mapped
    <2>1. JobOpen' = JobOpen /\ Fetched' = Fetched
      BY <1>10 DEF NoTaskLeft, Goto, JobOpen, Fetched
    <2>2. {task_id'[v] : v \in Fetched'} = {task_id[v] : v \in Fetched}
      BY <1>10, <2>1 DEF NoTaskLeft
    <2>3. ActiveTasks' = ActiveTasks
      BY <1>10 DEF NoTaskLeft, Goto, ActiveTasks
    <2>4. QED
      BY <1>10, <2>1, <2>2, <2>3 DEF NoTaskLeft, Mapped, OpenCall, PendingTasks
  <1>11. ASSUME NEW w \in Workers, FuncReturns(w)
        PROVE  PF!End(w)
    <2>1. JobOpen' = JobOpen /\ Fetched' = Fetched
      BY <1>11 DEF FuncReturns, Goto, JobOpen, Fetched
    <2>2. OpenCall' = OpenCall /\ PendingTasks' = PendingTasks
      BY <1>11, <2>1 DEF FuncReturns, OpenCall, PendingTasks
    <2>3. /\ ActiveTasks[w] # PF!Resting
          /\ ActiveTasks' = [ActiveTasks EXCEPT ![w] = PF!Resting]
      BY <1>11 DEF FuncReturns, Goto, ActiveTasks, PF!Resting
    <2>4. QED
      BY <2>2, <2>3 DEF PF!End
  <1>12. ASSUME NEW w \in Workers, Finish(w) \/ Signal(w)
        PROVE  UNCHANGED Mapped
    <2>1. JobOpen' = JobOpen
      BY <1>12 DEF Finish, Signal, JobOpen
    <2>2. QED
      BY <1>12, <2>1, MappedUnchanged DEF Finish, Signal, Goto
  <1>13. CASE SpuriousWakeup
    <2>1. JobOpen' = JobOpen
      BY <1>13 DEF SpuriousWakeup, JobOpen
    <2>2. \A w \in Workers : /\ (pc'[w] = "func") = (pc[w] = "func")
                             /\ (pc'[w] = "compare") = (pc[w] = "compare")
      BY <1>13 DEF SpuriousWakeup, Goto
    <2>3. QED
      BY <1>13, <2>1, <2>2, MappedUnchanged DEF SpuriousWakeup
  <1>14. CASE Terminated
    BY <1>14 DEF Terminated, vars, Mapped, OpenCall, PendingTasks, ActiveTasks,
                 JobOpen, Fetched
  <1>15. QED
    BY <1>1, <1>2, <1>3, <1>4, <1>5, <1>6, <1>7, <1>8, <1>9, <1>10, <1>11,
       <1>12, <1>13, <1>14
    DEF Next, Request, Master, Worker, PF!Next, PF!Work

\* Every task of a job is run by exactly one thread, with that job's context,
\* before run() returns: each step of the pool is a step of ParallelFor or
\* leaves it alone.
THEOREM Refinement ==
  ASSUME NoStrayWorkers, SplitsFit
  PROVE  SafeSpec => SafeParallelFor
  <1>1. Init => PF!Init
    BY InitMaps
  <1>2. IInv /\ IInv' /\ [Next]_vars => [PF!Next]_(PF!vars)
    <2>1. ASSUME UNCHANGED vars
          PROVE  UNCHANGED Mapped
      BY <2>1 DEF vars, callerVars, locals, counters, Mapped, OpenCall,
                  PendingTasks, ActiveTasks, JobOpen, Fetched
    <2>2. QED
      BY <2>1, StepMaps DEF PF!vars, Mapped
  <1>3. QED
    BY <1>1, <1>2, Invariance, PTL DEF SafeSpec, SafeParallelFor, PF!SafeSpec

-----------------------------------------------------------------------------
(***************************************************************************)
(* Part 2.  ParallelExecutor.                                              *)
(*                                                                         *)
(* The argument.  running_threads_ is the number of threads in a task, so  *)
(* that flush_cv_cond says that nothing is queued and nothing is run.      *)
(* Whoever makes it true is the thread that ends a task (no task can be    *)
(* enqueued while the caller sleeps), and that thread goes on to notify;   *)
(* hence, at every moment, either flush_cv_cond is false, or the caller is *)
(* awake, or a thread is about to wake it.  The workers' condition changes *)
(* at two places, enqueue() and the destructor, and at both the caller     *)
(* notifies before it can do anything else.  The destructor flushes first, *)
(* and nobody enqueues after that: the queue stays empty to the end.       *)
(***************************************************************************)

InTask == {w \in Threads : at[w] = "task"}

\* running_threads_ counts the threads in a task; and who is in a task has one.
TasksCounted ==
  /\ running_threads_ = Cardinality(InTask)
  /\ \A w \in Threads : held[w] # NoTask <=> at[w] = "task"
  /\ held[TheCaller] # NoTask <=> caller = "inline"

\* Threads that were never started, and an executor that has none.
NotStarted ==
  /\ \A w \in Threads \ threads_ : at[w] = "gone"
  /\ threads_ = {} =>
       /\ task_queue_ = <<>>
       /\ caller \in {"idle", "inline", "flush", "gone"}
       /\ caller # "gone" => ~closing
  /\ caller = "inline" => threads_ = {}

\* How far the destructor has come.
Phases ==
  /\ status_ = "uninitialized" <=> threads_ = {}
  /\ status_ = "finalized" => caller \in {"notify finalized", "join", "gone"}
  /\ caller \in {"notify finalized", "join"} => status_ = "finalized"
  /\ caller \in {"finalize", "notify finalized", "join", "gone"} => closing
  /\ closing => caller \notin {"idle", "notify", "inline"}

\* What the threads have seen of it.
Retirement ==
  /\ caller \in {"finalize", "notify finalized", "join", "gone"} => flush_cv_cond
  /\ \A w \in threads_ : at[w] \in {"last notify", "gone"} => status_ = "finalized"
  /\ caller = "gone" => \A w \in threads_ : at[w] = "gone"

ExecInv ==
  ExecTypes /\ TasksCounted /\ NotStarted /\ Phases /\ Retirement /\ WakeupsOnTheWay

LEMMA InTaskFinite ==
  ASSUME ExecTypes, NotStarted
  PROVE  /\ IsFiniteSet(Threads) /\ IsFiniteSet(InTask)
         /\ threads_ \subseteq Threads /\ IsFiniteSet(threads_)
         /\ Cardinality(threads_) \in Nat
         /\ Cardinality(InTask) \in 0 .. Cardinality(threads_)
         /\ Cardinality(InTask) = 0 <=> InTask = {}
  <1>1. threads_ \in SUBSET Threads /\ InTask \in SUBSET threads_
    BY PoolsAssumption DEF ExecTypes, NotStarted, InTask
  <1>2. IsFiniteSet(threads_) /\ IsFiniteSet(InTask)
    BY <1>1, ThreadsAssumption, FS_Subset
  <1>3. QED
    BY <1>1, <1>2, ThreadsAssumption, FS_Subset, FS_CardinalityType, FS_EmptySet

LEMMA FirstTask ==
  ASSUME ExecTypes, task_queue_ # <<>>
  PROVE  Head(task_queue_) \in Tasks /\ Tail(task_queue_) \in Seq(Tasks)
  <1>1. task_queue_ \in Seq(Tasks)
    BY DEF ExecTypes
  <1>2. QED
    BY <1>1

LEMMA ExecInitInv ==
  ASSUME ExecInit
  PROVE  ExecInv
  <1> USE DEF ExecInit
  <1>1. threads_ \subseteq Threads /\ IsFiniteSet(threads_) /\ Cardinality(threads_) \in Nat
    BY PoolsAssumption, ThreadsAssumption, FS_Subset, FS_CardinalityType
  <1>2. ExecTypes
    <2>1. closing \in BOOLEAN
      BY Zenon
    <2>2. at \in [Threads -> {"start", "gone"}] /\ running_threads_ \in 0 .. Cardinality(threads_)
      BY <1>1
    <2>3. enqueued \in 0 .. MaxTasks
      BY MaxTasksAssumption
    <2>4. QED
      BY <2>1, <2>2, <2>3 DEF ExecTypes
  <1>3. TasksCounted
    <2>1. InTask = {}
      BY DEF InTask
    <2>2. QED
      BY <2>1, FS_EmptySet, ThreadsAssumption DEF TasksCounted
  <1>4. NotStarted /\ Phases /\ Retirement /\ WakeupsOnTheWay
    <2>1. \A w \in Threads : at[w] = IF w \in threads_ THEN "start" ELSE "gone"
      OBVIOUS
    <2>2. closing = FALSE
      BY Zenon
    <2>3. NotStarted
      BY <2>1, <2>2 DEF NotStarted
    <2>4. Phases /\ Retirement
      BY <1>1, <2>1, <2>2 DEF Phases, Retirement
    <2>5. QED
      BY <2>1, <2>3, <2>4 DEF WakeupsOnTheWay
  <1>5. QED
    BY <1>2, <1>3, <1>4 DEF ExecInv

\* What the steps of the caller leave alone.
LEMMA CallerLeavesTasks ==
  ASSUME ExecInv, NotifyWorkers \/ CallFlush \/ Close \/ FlushTest \/ Finalize
                  \/ NotifyFinalized \/ JoinThreads \/ Destroyed
  PROVE  /\ UNCHANGED <<threads_, task_queue_, running_threads_, held, enqueued>>
         /\ InTask' = InTask
         /\ caller # "inline" /\ caller' # "inline"
  BY DEF ExecInv, ExecTypes, NotifyWorkers, CallFlush, Close, FlushTest, Finalize,
         NotifyFinalized, JoinThreads, Destroyed, CallerGoes, WakeWorkers, InTask, execVars

LEMMA TasksCountedStep ==
  ASSUME ExecInv, ExecNext
  PROVE  TasksCounted'
  <1> USE TasksAssumption, ThreadsAssumption DEF ExecInv, ExecTypes, TasksCounted
  <1>1. ASSUME NEW t \in Tasks, Enqueue(t)
        PROVE  TasksCounted'
    <2>1. InTask' = InTask
      BY <1>1 DEF Enqueue, InTask
    <2>2. CASE threads_ = {}
      BY <1>1, <2>1, <2>2 DEF Enqueue, CallerGoes
    <2>3. CASE threads_ # {}
      BY <1>1, <2>1, <2>3 DEF Enqueue, CallerGoes
    <2>4. QED
      BY <2>2, <2>3
  <1>2. CASE InlineReturns
    <2>1. InTask' = InTask
      BY <1>2 DEF InlineReturns, InTask
    <2>2. QED
      BY <1>2, <2>1 DEF InlineReturns
  <1>3. CASE NotifyWorkers \/ CallFlush \/ Close \/ FlushTest \/ Finalize
             \/ NotifyFinalized \/ JoinThreads \/ Destroyed
    <2>1. \A w \in Threads : at'[w] = "task" <=> at[w] = "task"
      BY <1>3, CallerLeavesTasks DEF InTask
    <2>2. QED
      BY <1>3, <2>1, CallerLeavesTasks
  <1>4. ASSUME NEW w \in Threads,
               Initialized(w) \/ WaitForTask(w) \/ Retire(w) \/ NotifyFlush(w)
        PROVE  TasksCounted'
    <2>1. InTask' = InTask /\ \A v \in Threads : at'[v] = "task" <=> at[v] = "task"
      BY <1>4 DEF Initialized, WaitForTask, Retire, NotifyFlush, Decide, Moves, InTask
    <2>2. UNCHANGED <<running_threads_, held>> /\ (caller' = "inline" <=> caller = "inline")
      BY <1>4 DEF Initialized, WaitForTask, Retire, NotifyFlush
    <2>3. QED
      BY <2>1, <2>2
  <1>5. ASSUME NEW w \in Threads, TakeTask(w)
        PROVE  TasksCounted'
    <2>1. InTask' = InTask \cup {w} /\ w \notin InTask
      BY <1>5 DEF TakeTask, Moves, InTask
    <2>2. Cardinality(InTask') = Cardinality(InTask) + 1
      BY <2>1, InTaskFinite, FS_AddElement
    <2>3. Head(task_queue_) \in Tasks
      BY <1>5, FirstTask DEF TakeTask
    <2>4. QED
      BY <1>5, <2>2, <2>3 DEF TakeTask, Moves
  <1>6. ASSUME NEW w \in Threads, FinishTask(w)
        PROVE  TasksCounted'
    <2>1. at[w] = "task" /\ at' = [at EXCEPT ![w] = at'[w]] /\ at'[w] # "task"
      BY <1>6 DEF FinishTask, Decide, Moves
    <2>2. InTask' = InTask \ {w} /\ w \in InTask
      BY <2>1 DEF InTask
    <2>3. Cardinality(InTask') = Cardinality(InTask) - 1
      BY <2>2, InTaskFinite, FS_RemoveElement
    <2>4. QED
      BY <1>6, <2>1, <2>3 DEF FinishTask
  <1>7. CASE StraySignal
    <2>1. InTask' = InTask /\ \A v \in Threads : at'[v] = "task" <=> at[v] = "task"
      BY <1>7 DEF StraySignal, Moves, InTask
    <2>2. QED
      BY <1>7, <2>1 DEF StraySignal
  <1>8. QED
    BY <1>1, <1>2, <1>3, <1>4, <1>5, <1>6, <1>7
    DEF ExecNext, CallerChooses, CallerRuns, ThreadRuns

LEMMA NotStartedStep ==
  ASSUME ExecInv, ExecNext
  PROVE  NotStarted'
  <1> USE DEF ExecInv, ExecTypes, NotStarted
  <1>0. threads_ \subseteq Threads
    BY PoolsAssumption
  <1>1. ASSUME NEW t \in Tasks, Enqueue(t)
        PROVE  NotStarted'
    BY <1>1 DEF Enqueue, CallerGoes, Phases
  <1>2. CASE InlineReturns \/ CallFlush \/ Close
    <2>1. UNCHANGED <<threads_, task_queue_, at>>
      BY <1>2 DEF InlineReturns, CallFlush, Close
    <2>2. threads_ = {} => caller' \in {"idle", "flush", "gone"}
      BY <1>2 DEF InlineReturns, CallFlush, Close, CallerGoes
    <2>3. threads_ = {} /\ caller' # "gone" => ~closing'
      BY <1>2 DEF InlineReturns, CallFlush, Close, CallerGoes
    <2>4. caller' # "inline"
      BY <1>2 DEF InlineReturns, CallFlush, Close, CallerGoes
    <2>5. QED
      BY <2>1, <2>2, <2>3, <2>4
  <1>3. CASE FlushTest \/ Finalize \/ JoinThreads \/ Destroyed
    <2>1. UNCHANGED <<threads_, task_queue_, at, closing>>
      BY <1>3 DEF FlushTest, Finalize, JoinThreads, Destroyed, execVars
    <2>2. ASSUME threads_ = {}
          PROVE  caller' \in {"idle", "gone"} /\ (caller' = "gone" <=> caller = "gone")
      <3>1. InTask = {}
        BY <2>2 DEF InTask
      <3>2. flush_cv_cond
        BY <2>2, <3>1, FS_EmptySet DEF flush_cv_cond, TasksCounted
      <3>3. QED
        BY <1>3, <2>2, <3>2 DEF FlushTest, Finalize, JoinThreads, Destroyed, execVars
    <2>3. caller' # "inline"
      BY <1>3, CallerLeavesTasks
    <2>4. QED
      BY <2>1, <2>2, <2>3
  <1>4. CASE NotifyWorkers \/ NotifyFinalized
    BY <1>4 DEF NotifyWorkers, NotifyFinalized, WakeWorkers
  <1>5. ASSUME NEW w \in Threads, ThreadRuns(w)
        PROVE  NotStarted'
    BY <1>5 DEF ThreadRuns, Initialized, WaitForTask, TakeTask, FinishTask, Retire,
                NotifyFlush, Decide, Moves
  <1>6. CASE StraySignal
    BY <1>6 DEF StraySignal, Moves
  <1>7. QED
    BY <1>1, <1>2, <1>3, <1>4, <1>5, <1>6 DEF ExecNext, CallerChooses, CallerRuns

\* When all is done nobody is in a task.
LEMMA QuietThreads ==
  ASSUME ExecInv, flush_cv_cond
  PROVE  /\ task_queue_ = <<>>
         /\ \A w \in Threads : at[w] # "task" /\ held[w] = NoTask
  BY InTaskFinite DEF ExecInv, TasksCounted, flush_cv_cond, InTask

\* Only the caller calls the destructor.
LEMMA ThreadsLeaveCaller ==
  ASSUME NEW w \in Threads, ThreadRuns(w)
  PROVE  /\ UNCHANGED <<threads_, status_, closing, enqueued>>
         /\ caller' = caller \/ (caller = "asleep" /\ caller' = "flush")
  BY DEF ThreadRuns, Initialized, WaitForTask, TakeTask, FinishTask, Retire, NotifyFlush

LEMMA PhasesStep ==
  ASSUME ExecInv, ExecNext
  PROVE  Phases'
  <1> USE DEF ExecInv, ExecTypes, Phases
  <1>1. ASSUME NEW t \in Tasks, Enqueue(t)
        PROVE  Phases'
    BY <1>1 DEF Enqueue, CallerGoes
  <1>2. CASE InlineReturns \/ NotifyWorkers \/ CallFlush
    <2>1. /\ caller \in {"idle", "notify", "inline"} /\ caller' \in {"idle", "flush"}
          /\ UNCHANGED <<threads_, status_, closing>>
      BY <1>2 DEF InlineReturns, NotifyWorkers, CallFlush, CallerGoes
    <2>2. ~closing'
      BY <2>1
    <2>3. QED
      BY <2>1, <2>2
  <1>3. CASE Close
    <2>1. closing' /\ caller' \in {"gone", "flush"} /\ caller = "idle"
      BY <1>3 DEF Close, CallerGoes
    <2>2. QED
      BY <1>3, <2>1 DEF Close
  <1>4. CASE FlushTest
    <2>1. /\ caller = "flush" /\ caller' \in {"asleep", "finalize", "idle"}
          /\ caller' = "finalize" => closing
          /\ caller' = "idle" => ~closing
      BY <1>4 DEF FlushTest
    <2>2. QED
      BY <1>4, <2>1 DEF FlushTest
  <1>5. CASE Finalize
    BY <1>5 DEF Finalize, NotStarted
  <1>6. CASE NotifyFinalized \/ JoinThreads \/ Destroyed
    BY <1>6 DEF NotifyFinalized, JoinThreads, Destroyed, execVars
  <1>7. ASSUME NEW w \in Threads, ThreadRuns(w)
        PROVE  Phases'
    BY <1>7, ThreadsLeaveCaller
  <1>8. CASE StraySignal
    BY <1>8 DEF StraySignal
  <1>9. QED
    BY <1>1, <1>2, <1>3, <1>4, <1>5, <1>6, <1>7, <1>8
    DEF ExecNext, CallerChooses, CallerRuns
LEMMA RetirementStep ==
  ASSUME ExecInv, ExecNext
  PROVE  Retirement'
  <1> USE DEF ExecInv, ExecTypes, Retirement
  <1>1. ASSUME UNCHANGED <<threads_, task_queue_, running_threads_, status_>>,
               \A w \in Threads : at'[w] \in {"last notify", "gone"} =>
                                  at[w] \in {"last notify", "gone"},
               \A w \in Threads : at[w] = "gone" => at'[w] = "gone",
               caller' \in {"finalize", "notify finalized", "join", "gone"} =>
                 caller \in {"finalize", "notify finalized", "join", "gone"},
               caller' = "gone" => caller = "gone"
        PROVE  Retirement'
    <2>1. flush_cv_cond' = flush_cv_cond
      BY <1>1 DEF flush_cv_cond
    <2>2. threads_ \subseteq Threads
      BY PoolsAssumption
    <2>3. QED
      BY <1>1, <2>1, <2>2
  <1>2. ASSUME NEW t \in Tasks, Enqueue(t)
        PROVE  Retirement'
    <2>1. caller' \in {"inline", "notify"}
      BY <1>2 DEF Enqueue, CallerGoes
    <2>2. QED
      BY <1>2, <2>1 DEF Enqueue
  <1>3. CASE InlineReturns \/ CallFlush \/ NotifyWorkers \/ NotifyFinalized
    BY <1>1, <1>3 DEF InlineReturns, CallFlush, NotifyWorkers, NotifyFinalized,
                      CallerGoes, WakeWorkers
  <1>4. CASE Close
    <2>1. CASE threads_ = {}
      <3>1. flush_cv_cond
        <4>1. InTask = {}
          BY <2>1 DEF NotStarted, InTask
        <4>2. QED
          BY <2>1, <4>1, FS_EmptySet DEF flush_cv_cond, TasksCounted, NotStarted
      <3>2. flush_cv_cond'
        BY <1>4, <3>1 DEF Close, flush_cv_cond
      <3>3. QED
        BY <1>4, <2>1, <3>2 DEF Close, CallerGoes
    <2>2. CASE threads_ # {}
      BY <1>1, <1>4, <2>2 DEF Close, CallerGoes
    <2>3. QED
      BY <2>1, <2>2
  <1>5. CASE FlushTest
    <2>1. /\ caller' = "finalize" => flush_cv_cond
          /\ caller' \in {"asleep", "finalize", "idle"}
          /\ flush_cv_cond' = flush_cv_cond
      BY <1>5 DEF FlushTest, flush_cv_cond
    <2>2. QED
      BY <1>5, <2>1 DEF FlushTest
  <1>6. CASE Finalize
    <2>1. flush_cv_cond' = flush_cv_cond
      BY <1>6 DEF Finalize, flush_cv_cond
    <2>2. QED
      BY <1>6, <2>1 DEF Finalize
  <1>7. CASE JoinThreads \/ Destroyed
    <2>1. flush_cv_cond' = flush_cv_cond /\ UNCHANGED <<threads_, status_, at>>
      BY <1>7 DEF JoinThreads, Destroyed, execVars, flush_cv_cond
    <2>2. QED
      BY <1>7, <2>1 DEF JoinThreads, Destroyed, execVars
  <1>8. ASSUME NEW w \in Threads, Initialized(w) \/ WaitForTask(w)
        PROVE  Retirement'
    BY <1>1, <1>8 DEF Initialized, WaitForTask, Moves
  <1>9. ASSUME NEW w \in Threads, TakeTask(w)
        PROVE  Retirement'
    <2>1. ~flush_cv_cond /\ caller' = caller /\ at[w] = "poll" /\ at'[w] = "task"
      BY <1>9 DEF TakeTask, Moves, flush_cv_cond
    <2>2. UNCHANGED <<threads_, status_>> /\ \A v \in Threads : v # w => at'[v] = at[v]
      BY <1>9 DEF TakeTask, Moves
    <2>3. threads_ \subseteq Threads
      BY PoolsAssumption
    <2>4. QED
      BY <2>1, <2>2, <2>3
  <1>10. ASSUME NEW w \in Threads, FinishTask(w) \/ Retire(w)
         PROVE  Retirement'
    <2>1. UNCHANGED <<threads_, task_queue_, status_, caller>>
      BY <1>10 DEF FinishTask, Retire
    <2>2. at'[w] \in {"last notify", "gone"} => status_ = "finalized"
      BY <1>10 DEF FinishTask, Retire, Decide, Moves
    <2>3. at[w] # "gone" /\ \A v \in Threads : v # w => at'[v] = at[v]
      BY <1>10 DEF FinishTask, Retire, Decide, Moves
    <2>4. flush_cv_cond => flush_cv_cond'
      <3>1. CASE FinishTask(w)
        BY <3>1, QuietThreads DEF FinishTask, Decide, Moves
      <3>2. CASE Retire(w)
        BY <3>2 DEF Retire, flush_cv_cond
      <3>3. QED
        BY <1>10, <3>1, <3>2
    <2>5. w \in threads_ /\ threads_ \subseteq Threads
      BY <2>3, PoolsAssumption DEF NotStarted
    <2>6. QED
      BY <2>1, <2>2, <2>3, <2>4, <2>5
  <1>11. ASSUME NEW w \in Threads, NotifyFlush(w)
         PROVE  Retirement'
    BY <1>1, <1>11 DEF NotifyFlush, Moves
  <1>12. CASE StraySignal
    BY <1>1, <1>12 DEF StraySignal, Moves
  <1>13. QED
    BY <1>2, <1>3, <1>4, <1>5, <1>6, <1>7, <1>8, <1>9, <1>10, <1>11, <1>12
    DEF ExecNext, CallerChooses, CallerRuns, ThreadRuns

LEMMA TakeCounts ==
  ASSUME ExecInv, NEW w \in Threads, TakeTask(w)
  PROVE  ~flush_cv_cond'
  <1>1. running_threads_ \in Nat
    BY InTaskFinite DEF ExecInv, TasksCounted
  <1>2. running_threads_' = running_threads_ + 1
    BY DEF TakeTask
  <1>3. QED
    BY <1>1, <1>2 DEF flush_cv_cond

\* Wakeups: nobody falls asleep, no task comes, nobody is taken out of the loop.
LEMMA WakeupsStep ==
  ASSUME ExecInv, ExecNext, NotStarted'
  PROVE  WakeupsOnTheWay'
  <1> USE DEF ExecInv, ExecTypes, WakeupsOnTheWay
  <1>0. threads_ \subseteq Threads
    BY PoolsAssumption
  <1>1. ASSUME UNCHANGED <<threads_, task_queue_, running_threads_>>,
               \A w \in Threads : at'[w] = "asleep" => at[w] = "asleep",
               \A w \in Threads : at[w] = "notify" => at'[w] = "notify",
               caller' # "notify" => caller # "notify",
               caller' \in {"join", "gone"} => caller \in {"join", "gone"},
               caller' = "asleep" => caller = "asleep"
        PROVE  WakeupsOnTheWay'
    <2>1. flush_cv_cond' = flush_cv_cond
      BY <1>1 DEF flush_cv_cond
    <2>2. QED
      BY <1>0, <1>1, <2>1
  <1>2. ASSUME NEW t \in Tasks, Enqueue(t)
        PROVE  WakeupsOnTheWay'
    <2>1. CASE threads_ = {}
      BY <1>1, <1>2, <2>1 DEF Enqueue, CallerGoes
    <2>2. CASE threads_ # {}
      BY <1>2, <2>2 DEF Enqueue, CallerGoes
    <2>3. QED
      BY <2>1, <2>2
  <1>3. CASE InlineReturns \/ CallFlush \/ Finalize \/ Destroyed
    BY <1>1, <1>3 DEF InlineReturns, CallFlush, Finalize, Destroyed, CallerGoes, execVars
  <1>4. CASE NotifyWorkers \/ NotifyFinalized
    <2>1. \A w \in Threads : at'[w] # "asleep"
      BY <1>4 DEF NotifyWorkers, NotifyFinalized, WakeWorkers
    <2>2. caller' \in {"idle", "join"} /\ threads_' = threads_
      BY <1>4 DEF NotifyWorkers, NotifyFinalized
    <2>3. QED
      BY <1>0, <2>1, <2>2
  <1>5. CASE Close
    <2>1. CASE threads_ = {}
      <3>1. caller' = "gone" /\ UNCHANGED <<threads_, task_queue_, at>>
        BY <1>5, <2>1 DEF Close, CallerGoes
      <3>2. QED
        BY <2>1, <3>1 DEF NotStarted
    <2>2. CASE threads_ # {}
      BY <1>1, <1>5, <2>2 DEF Close, CallerGoes
    <2>3. QED
      BY <2>1, <2>2
  <1>6. CASE FlushTest
    <2>1. /\ caller = "flush" /\ caller' \in {"asleep", "finalize", "idle"}
          /\ caller' = "asleep" => ~flush_cv_cond
          /\ flush_cv_cond' = flush_cv_cond
          /\ UNCHANGED <<threads_, task_queue_, at>>
      BY <1>6 DEF FlushTest, flush_cv_cond
    <2>2. QED
      BY <2>1
  <1>7. CASE JoinThreads
    BY <1>1, <1>7 DEF JoinThreads
  <1>8. ASSUME NEW w \in Threads, Initialized(w)
        PROVE  WakeupsOnTheWay'
    BY <1>1, <1>8 DEF Initialized, Moves
  <1>9. ASSUME NEW w \in Threads, WaitForTask(w)
        PROVE  WakeupsOnTheWay'
    <2>1. /\ task_queue_' = <<>> /\ caller' = caller /\ threads_' = threads_
          /\ flush_cv_cond' = flush_cv_cond
      BY <1>9 DEF WaitForTask, flush_cv_cond
    <2>2. caller \notin {"join", "gone"}
      BY <1>9 DEF WaitForTask, Moves, Phases, Retirement, NotStarted
    <2>3. \A v \in Threads : at[v] = "notify" => at'[v] = "notify"
      BY <1>9 DEF WaitForTask, Moves
    <2>4. QED
      BY <1>0, <2>1, <2>2, <2>3
  <1>10. ASSUME NEW w \in Threads, TakeTask(w)
         PROVE  WakeupsOnTheWay'
    <2>1. ~flush_cv_cond'
      BY <1>10, TakeCounts
    <2>2. \A v \in Threads : at'[v] = "asleep" => at[v] = "asleep"
      BY <1>10 DEF TakeTask, Moves
    <2>3. task_queue_ # <<>> /\ caller' = caller /\ threads_' = threads_
      BY <1>10 DEF TakeTask
    <2>4. QED
      BY <1>0, <2>1, <2>2, <2>3
  <1>11. ASSUME NEW w \in Threads, FinishTask(w)
         PROVE  WakeupsOnTheWay'
    <2>1. UNCHANGED <<threads_, task_queue_, status_, caller>>
      BY <1>11 DEF FinishTask
    <2>2. at[w] = "task" /\ at'[w] # "asleep" /\ \A v \in Threads : v # w => at'[v] = at[v]
      BY <1>11 DEF FinishTask, Decide, Moves
    <2>3. w \in threads_
      BY <2>2 DEF NotStarted
    <2>4. caller = "asleep" => status_ # "finalized"
      BY DEF Phases
    <2>5. flush_cv_cond' /\ status_ # "finalized" => at'[w] = "notify"
      BY <1>11 DEF FinishTask, Decide, Moves, flush_cv_cond
    <2>6. QED
      BY <1>0, <2>1, <2>2, <2>3, <2>4, <2>5
  <1>12. ASSUME NEW w \in Threads, Retire(w)
         PROVE  WakeupsOnTheWay'
    <2>1. caller # "asleep"
      BY <1>12 DEF Retire, Phases
    <2>2. \A v \in Threads : at'[v] = "asleep" => at[v] = "asleep"
      BY <1>12 DEF Retire, Decide, Moves
    <2>3. UNCHANGED <<threads_, task_queue_, caller>>
      BY <1>12 DEF Retire
    <2>4. QED
      BY <1>0, <2>1, <2>2, <2>3
  <1>13. ASSUME NEW w \in Threads, NotifyFlush(w)
         PROVE  WakeupsOnTheWay'
    <2>1. \A v \in Threads : at'[v] = "asleep" => at[v] = "asleep"
      BY <1>13 DEF NotifyFlush, Moves
    <2>2. UNCHANGED <<threads_, task_queue_>>
      BY <1>13 DEF NotifyFlush
    <2>3. caller' = IF caller = "asleep" THEN "flush" ELSE caller
      BY <1>13 DEF NotifyFlush
    <2>4. QED
      BY <1>0, <2>1, <2>2, <2>3
  <1>14. CASE StraySignal
    BY <1>1, <1>14 DEF StraySignal, Moves
  <1>15. QED
    BY <1>2, <1>3, <1>4, <1>5, <1>6, <1>7, <1>8, <1>9, <1>10, <1>11, <1>12,
       <1>13, <1>14
    DEF ExecNext, CallerChooses, CallerRuns, ThreadRuns

LEMMA ExecTypesStep ==
  ASSUME ExecInv, ExecNext, TasksCounted', NotStarted'
  PROVE  ExecTypes'
  <1>1. threads_' = threads_
    BY DEF ExecNext, CallerChooses, CallerRuns, ThreadRuns, Enqueue, InlineReturns,
           NotifyWorkers, CallFlush, Close, FlushTest, Finalize, NotifyFinalized,
           JoinThreads, Initialized, WaitForTask, TakeTask, FinishTask, Retire,
           NotifyFlush, StraySignal, Destroyed, execVars
  <1>2. running_threads_' \in 0 .. Cardinality(threads_')
    <2>1. threads_' \in SUBSET Threads /\ InTask' \in SUBSET threads_'
      BY <1>1, PoolsAssumption DEF NotStarted, ExecInv, ExecTypes, InTask
    <2>2. IsFiniteSet(threads_')
      BY <2>1, ThreadsAssumption, FS_Subset
    <2>3. /\ Cardinality(InTask') \in Nat /\ Cardinality(threads_') \in Nat
          /\ Cardinality(InTask') <= Cardinality(threads_')
      BY <2>1, <2>2, FS_Subset, FS_CardinalityType
    <2>4. QED
      BY <2>3 DEF TasksCounted
  <1>3. task_queue_' \in Seq(Tasks)
    <2>1. task_queue_ \in Seq(Tasks)
      BY DEF ExecInv, ExecTypes
    <2>2. ASSUME NEW t \in Tasks, Enqueue(t)
          PROVE  task_queue_' \in Seq(Tasks)
      BY <2>1, <2>2 DEF Enqueue
    <2>3. ASSUME NEW w \in Threads, TakeTask(w)
          PROVE  task_queue_' \in Seq(Tasks)
      BY <2>3, FirstTask DEF ExecInv, TakeTask
    <2>4. QED
      BY <2>1, <2>2, <2>3
      DEF ExecNext, CallerChooses, CallerRuns, ThreadRuns, InlineReturns,
          NotifyWorkers, CallFlush, Close, FlushTest, Finalize, NotifyFinalized,
          JoinThreads, Initialized, WaitForTask, FinishTask, Retire, NotifyFlush,
          StraySignal, Destroyed, execVars
  <1>4. enqueued' \in 0 .. MaxTasks
    <2>1. enqueued \in 0 .. MaxTasks
      BY DEF ExecInv, ExecTypes
    <2>2. ASSUME NEW t \in Tasks, Enqueue(t)
          PROVE  enqueued' \in 0 .. MaxTasks
      BY <2>1, <2>2, MaxTasksAssumption DEF Enqueue
    <2>3. QED
      BY <2>1, <2>2
      DEF ExecNext, CallerChooses, CallerRuns, ThreadRuns, InlineReturns,
          NotifyWorkers, CallFlush, Close, FlushTest, Finalize, NotifyFinalized,
          JoinThreads, Initialized, WaitForTask, TakeTask, FinishTask, Retire,
          NotifyFlush, StraySignal, Destroyed, execVars
  <1>5. status_' \in {"uninitialized", "initialized", "finalized"}
    BY DEF ExecInv, ExecTypes, ExecNext, CallerChooses, CallerRuns, ThreadRuns, Enqueue,
           InlineReturns, NotifyWorkers, CallFlush, Close, FlushTest, Finalize,
           NotifyFinalized, JoinThreads, Initialized, WaitForTask, TakeTask,
           FinishTask, Retire, NotifyFlush, StraySignal, Destroyed, execVars
  <1>6. closing' \in BOOLEAN
    BY Zenon
    DEF ExecInv, ExecTypes, ExecNext, CallerChooses, CallerRuns, ThreadRuns, Enqueue, InlineReturns,
        NotifyWorkers, CallFlush, Close, FlushTest, Finalize, NotifyFinalized,
        JoinThreads, Initialized, WaitForTask, TakeTask, FinishTask, Retire,
        NotifyFlush, StraySignal, Destroyed, execVars
  <1>7. caller' \in {"idle", "notify", "inline", "flush", "asleep", "finalize",
                     "notify finalized", "join", "gone"}
    BY DEF ExecInv, ExecTypes, ExecNext, CallerChooses, CallerRuns, ThreadRuns, CallerGoes, Enqueue, InlineReturns,
        NotifyWorkers, CallFlush, Close, FlushTest, Finalize, NotifyFinalized,
        JoinThreads, Initialized, WaitForTask, TakeTask, FinishTask, Retire,
        NotifyFlush, StraySignal, Destroyed, execVars
  <1>8. at' \in [Threads -> {"start", "poll", "asleep", "task", "notify",
                             "last notify", "gone"}]
    <2>1. ASSUME NEW w \in Threads, ThreadRuns(w)
          PROVE  at' = [at EXCEPT ![w] = at'[w]]
                 /\ at'[w] \in {"start", "poll", "asleep", "task", "notify",
                                "last notify", "gone"}
      BY <2>1 DEF ThreadRuns, Initialized, WaitForTask, TakeTask, FinishTask, Retire,
                  NotifyFlush, Decide, Moves, ExecInv, ExecTypes
    <2>2. CASE StraySignal
      BY <2>2 DEF StraySignal, Moves, ExecInv, ExecTypes
    <2>3. CASE NotifyWorkers \/ NotifyFinalized
      BY <2>3 DEF NotifyWorkers, NotifyFinalized, WakeWorkers, ExecInv, ExecTypes
    <2>4. QED
      BY <2>1, <2>2, <2>3
      DEF ExecInv, ExecTypes, ExecNext, CallerChooses, CallerRuns, Enqueue, InlineReturns, CallFlush,
          Close, FlushTest, Finalize, JoinThreads, Destroyed, execVars
  <1>9. held' \in [Threads \cup {TheCaller} -> Tasks \cup {NoTask}]
    BY FirstTask
    DEF ExecInv, ExecTypes, ExecNext, CallerChooses, CallerRuns, ThreadRuns, Enqueue, InlineReturns,
        NotifyWorkers, CallFlush, Close, FlushTest, Finalize, NotifyFinalized,
        JoinThreads, Initialized, WaitForTask, TakeTask, FinishTask, Retire,
        NotifyFlush, StraySignal, Destroyed, execVars
  <1>10. QED
    BY <1>1, <1>2, <1>3, <1>4, <1>5, <1>6, <1>7, <1>8, <1>9 DEF ExecInv, ExecTypes

LEMMA ExecStutter ==
  ASSUME ExecInv, UNCHANGED execVars
  PROVE  ExecInv'
  BY DEF ExecInv, ExecTypes, TasksCounted, NotStarted, Phases, Retirement,
         WakeupsOnTheWay, flush_cv_cond, InTask, execVars

\* Where the caller is, where the threads are and what the counters say always
\* agree: the strengthening that the three invariants below are read off.
THEOREM ExecInvariance == ExecSafeSpec => []ExecInv
  <1>1. ExecInit => ExecInv
    BY ExecInitInv
  <1>2. ExecInv /\ [ExecNext]_execVars => ExecInv'
    BY TasksCountedStep, NotStartedStep, PhasesStep, RetirementStep, WakeupsStep,
       ExecTypesStep, ExecStutter DEF ExecInv
  <1>3. QED
    BY <1>1, <1>2, PTL DEF ExecSafeSpec

\* running_threads_ never leaves 0 .. num_threads_, for any pool and any tasks.
THEOREM ExecTypeCorrect == ExecSafeSpec => []ExecTypes
  <1>1. ExecInv => ExecTypes
    BY DEF ExecInv
  <1>2. QED
    BY <1>1, ExecInvariance, PTL

\* enqueue(), flush(), the destructor and the threads lose no wakeup.
THEOREM NoWakeupLost == ExecSafeSpec => []WakeupsOnTheWay
  <1>1. ExecInv => WakeupsOnTheWay
    BY DEF ExecInv
  <1>2. QED
    BY <1>1, ExecInvariance, PTL

\* When the destructor goes on from flush() all tasks are done, and when it
\* returns all threads are.
THEOREM DestructorLeavesNothing == ExecSafeSpec => []NothingLeftBehind
  <1>1. ASSUME ExecInv
        PROVE  NothingLeftBehind
    <2>1. flush_cv_cond => \A w \in Threads : at[w] # "task"
      BY <1>1, QuietThreads
    <2>2. caller = "gone" => \A w \in Threads : at[w] = "gone"
      BY <1>1 DEF ExecInv, NotStarted, Retirement
    <2>3. QED
      BY <1>1, <2>1, <2>2 DEF ExecInv, Retirement, NothingLeftBehind
  <1>2. QED
    BY <1>1, ExecInvariance, PTL

-----------------------------------------------------------------------------
(* The executor implements TaskQueue.                                      *)

MappedQueue == <<task_queue_, held, caller \in {"flush", "asleep"}>>

LEMMA ExecStepMaps ==
  ASSUME ExecInv, ExecNext
  PROVE  TQ!Next \/ UNCHANGED MappedQueue
  <1> USE DEF MappedQueue
  <1>1. ASSUME NEW t \in Tasks, Enqueue(t)
        PROVE  TQ!Enqueue(t) \/ TQ!RunInline(t)
    <2>1. caller = "idle" /\ caller' \in {"inline", "notify"}
      BY <1>1 DEF Enqueue, CallerGoes
    <2>2. TQ!CallerFree
      BY <2>1 DEF TQ!CallerFree, ExecInv, TasksCounted
    <2>3. ASSUME threads_ = {}
          PROVE  TQ!RunInline(t)
      <3>1. task_queue_ = <<>> /\ \A r \in Threads \cup {TheCaller} : held[r] = NoTask
        BY <2>1, <2>3 DEF ExecInv, NotStarted, TasksCounted
      <3>2. QED
        BY <1>1, <2>1, <2>2, <2>3, <3>1 DEF Enqueue, TQ!RunInline, TQ!Quiet
    <2>4. ASSUME threads_ # {}
          PROVE  TQ!Enqueue(t)
      BY <1>1, <2>1, <2>2, <2>4 DEF Enqueue, TQ!Enqueue
    <2>5. QED
      BY <2>3, <2>4
  <1>2. CASE InlineReturns
    <2>1. held[TheCaller] # NoTask
      BY <1>2 DEF InlineReturns, ExecInv, TasksCounted
    <2>2. TQ!End(TheCaller)
      BY <1>2, <2>1 DEF InlineReturns, TQ!End
    <2>3. QED
      BY <2>2 DEF TQ!Next, TQ!Work
  <1>3. CASE NotifyWorkers \/ Finalize \/ NotifyFinalized \/ JoinThreads \/ Destroyed
    <2>1. UNCHANGED <<task_queue_, held>>
      BY <1>3 DEF NotifyWorkers, Finalize, NotifyFinalized, JoinThreads, Destroyed, execVars
    <2>2. caller' \in {"flush", "asleep"} <=> caller \in {"flush", "asleep"}
      BY <1>3 DEF NotifyWorkers, Finalize, NotifyFinalized, JoinThreads, Destroyed, execVars
    <2>3. QED
      BY <2>1, <2>2
  <1>4. CASE CallFlush \/ Close
    <2>1. TQ!CallerFree
      BY <1>4 DEF CallFlush, Close, CallerGoes, TQ!CallerFree, ExecInv, TasksCounted
    <2>2. caller = "idle" /\ caller' \in {"flush", "gone"} /\ UNCHANGED <<task_queue_, held>>
      BY <1>4 DEF CallFlush, Close, CallerGoes
    <2>3. CASE caller' = "flush"
      BY <2>1, <2>2, <2>3 DEF TQ!Flush, TQ!Next
    <2>4. CASE caller' = "gone"
      BY <2>2, <2>4
    <2>5. QED
      BY <2>2, <2>3, <2>4
  <1>5. CASE FlushTest
    <2>1. CASE ~flush_cv_cond
      BY <1>5, <2>1 DEF FlushTest
    <2>2. CASE flush_cv_cond
      <3>1. TQ!Quiet
        BY <1>5, <2>2, QuietThreads DEF FlushTest, TQ!Quiet, ExecInv, TasksCounted
      <3>2. caller = "flush" /\ caller' \in {"finalize", "idle"}
            /\ UNCHANGED <<task_queue_, held>>
        BY <1>5, <2>2 DEF FlushTest
      <3>3. QED
        BY <3>1, <3>2 DEF TQ!Return, TQ!Work, TQ!Next
    <2>3. QED
      BY <2>1, <2>2
  <1>6. ASSUME NEW w \in Threads, Initialized(w) \/ WaitForTask(w) \/ Retire(w)
        PROVE  UNCHANGED MappedQueue
    BY <1>6 DEF Initialized, WaitForTask, Retire
  <1>7. ASSUME NEW w \in Threads, TakeTask(w)
        PROVE  TQ!Begin(w)
    <2>1. w # TheCaller
      BY ThreadsAssumption
    <2>2. held[w] = NoTask
      BY <1>7 DEF TakeTask, Moves, ExecInv, TasksCounted
    <2>3. QED
      BY <1>7, <2>1, <2>2 DEF TakeTask, TQ!Begin
  <1>8. ASSUME NEW w \in Threads, FinishTask(w)
        PROVE  TQ!End(w)
    <2>1. held[w] # NoTask
      BY <1>8 DEF FinishTask, Decide, Moves, ExecInv, TasksCounted
    <2>2. QED
      BY <1>8, <2>1 DEF FinishTask, TQ!End
  <1>9. ASSUME NEW w \in Threads, NotifyFlush(w)
        PROVE  UNCHANGED MappedQueue
    <2>1. UNCHANGED <<task_queue_, held>>
      BY <1>9 DEF NotifyFlush
    <2>2. caller' \in {"flush", "asleep"} <=> caller \in {"flush", "asleep"}
      BY <1>9 DEF NotifyFlush
    <2>3. QED
      BY <2>1, <2>2
  <1>10. CASE StraySignal
    BY <1>10 DEF StraySignal
  <1>11. QED
    BY <1>1, <1>2, <1>3, <1>4, <1>5, <1>6, <1>7, <1>8, <1>9, <1>10
    DEF ExecNext, CallerChooses, CallerRuns, ThreadRuns, TQ!Next, TQ!Work

\* Every step of the executor is a step of TaskQueue or leaves it alone: tasks
\* are taken in the order they came, each once, and flush() returns only when
\* none is left or running, for any number of threads, none included.
THEOREM ExecRefinement == ExecSafeSpec => TQ!SafeSpec
  <1>1. ExecInit => TQ!Init
    BY DEF ExecInit, TQ!Init
  <1>2. ExecInv /\ [ExecNext]_execVars => [TQ!Next]_(TQ!queueVars)
    <2>1. ASSUME UNCHANGED execVars
          PROVE  UNCHANGED MappedQueue
      BY <2>1 DEF execVars, MappedQueue
    <2>2. QED
      BY <2>1, ExecStepMaps DEF TQ!queueVars, MappedQueue
  <1>3. QED
    BY <1>1, <1>2, ExecInvariance, PTL DEF ExecSafeSpec, TQ!SafeSpec

-----------------------------------------------------------------------------
(***************************************************************************)
(* Part 3.  SNodeTrees.                                                    *)
(*                                                                         *)
(* The argument.  An id on the free stack belongs to a slot whose tree is  *)
(* destroyed, and stands there once; so an id is given to one living tree  *)
(* at a time.  While the main thread is between two kernels no task exists *)
(* (flush() has returned), so every thread that has an entry in the map    *)
(* has finished fetching, and then has exactly the modules of the main     *)
(* thread: trees are added to and erased from the copies of all of them at *)
(* once.  While a kernel is compiled no tree comes or goes, and a thread   *)
(* that fetches copies from modules that do not change.                    *)
(***************************************************************************)

ModuleOf(i) == struct_modules[MainThread][i]

TreeTypes ==
  /\ snode_trees_ \in Seq(Trees)
  /\ free_snode_tree_ids_ \in Seq(Ids)
  /\ id_ \in Seq(Ids) /\ Created <= MaxTrees
  /\ fields \in [Ids -> {None} \cup Trees]
  /\ roots \in [Ids -> {None} \cup Trees]

\* The slot of a tree is that of its id; there are no more slots than trees.
Slots ==
  /\ Len(snode_trees_) <= Created
  /\ \A k \in 1 .. Len(snode_trees_) :
       snode_trees_[k] \in 1 .. Created /\ id_[snode_trees_[k]] = k - 1
  /\ destroyed \subseteq 1 .. Created

\* The free ids are those of slots whose tree is destroyed, each of them once.
FreeIds ==
  /\ \A k \in 1 .. Len(free_snode_tree_ids_) :
       /\ free_snode_tree_ids_[k] < Len(snode_trees_)
       /\ snode_trees_[free_snode_tree_ids_[k] + 1] \in destroyed
  /\ \A j, k \in 1 .. Len(free_snode_tree_ids_) :
       free_snode_tree_ids_[j] = free_snode_tree_ids_[k] => j = k

\* Metadata are those of a tree that had the id and is not destroyed.
Metadata ==
  \A i \in Ids : fields[i] # None =>
    fields[i] \in (1 .. Created) \ destroyed /\ id_[fields[i]] = i

TreesInv == TreeTypes /\ Slots /\ FreeIds /\ Metadata /\ RootsOfTheirOwn

LEMMA BoundsAreNat == MaxTrees \in Nat /\ MaxKernels \in Nat /\ MaxOffloads \in Nat
  BY TreeBoundsAssumption

LEMMA LiveTrees ==
  ASSUME TreeTypes, NEW v \in Live
  PROVE  /\ v \in 1 .. Created /\ v \in Trees /\ v \notin destroyed
         /\ id_[v] \in Ids /\ id_[v] \in Nat
         /\ id_[v] + 1 \in 1 .. Len(snode_trees_)
         /\ snode_trees_[id_[v] + 1] = v
  <1>1. id_ \in Seq(Ids) /\ Len(id_) \in Nat /\ Len(id_) <= MaxTrees
    BY DEF TreeTypes, Created
  <1>2. /\ v \in 1 .. Len(id_) /\ v \notin destroyed
        /\ id_[v] < Len(snode_trees_) /\ snode_trees_[id_[v] + 1] = v
    BY DEF Live, Created
  <1>3. id_[v] \in Ids /\ id_[v] \in Nat /\ Len(snode_trees_) \in Nat
    BY <1>1, <1>2, BoundsAreNat DEF TreeTypes, Ids
  <1>4. QED
    BY <1>1, <1>2, <1>3, BoundsAreNat DEF Created, Trees

\* The top of the stack, and what is below.
LEMMA Popped ==
  ASSUME NEW S, NEW s \in Seq(S), s # <<>>
  PROVE  /\ Len(s) \in Nat \ {0} /\ s[Len(s)] \in S
         /\ SubSeq(s, 1, Len(s) - 1) \in Seq(S)
         /\ Len(SubSeq(s, 1, Len(s) - 1)) = Len(s) - 1
         /\ \A k \in 1 .. Len(s) - 1 : SubSeq(s, 1, Len(s) - 1)[k] = s[k]
  <1>1. Len(s) \in Nat \ {0} /\ s[Len(s)] \in S
    BY LenProperties, EmptySeq, ElementOfSeq
  <1>2. PICK n \in Nat : n = Len(s) - 1
    BY <1>1
  <1>3. \A k \in 1 .. n : s[k] \in S
    BY <1>1, <1>2, ElementOfSeq
  <1>4. /\ SubSeq(s, 1, n) \in Seq(S)
        /\ Len(SubSeq(s, 1, n)) = IF 1 <= n THEN n - 1 + 1 ELSE 0
        /\ \A k \in 1 .. n - 1 + 1 : SubSeq(s, 1, n)[k] = s[1 + k - 1]
    BY <1>3, SubSeqProperties
  <1>5. Len(SubSeq(s, 1, n)) = n /\ \A k \in 1 .. n : SubSeq(s, 1, n)[k] = s[k]
    BY <1>4
  <1>6. QED
    BY <1>1, <1>2, <1>4, <1>5

\* A new tree gets an id below the bound that no tree that is alive has.
LEMMA NewId ==
  ASSUME TreeTypes, Slots, FreeIds, Created < MaxTrees
  PROVE  /\ AllocatedId \in Ids /\ AllocatedId \in 0 .. Len(snode_trees_)
         /\ \A u \in Live : id_[u] # AllocatedId
         /\ RestOfIds \in Seq(Ids)
         /\ Len(RestOfIds) <= Len(free_snode_tree_ids_)
         /\ \A k \in 1 .. Len(RestOfIds) :
              RestOfIds[k] = free_snode_tree_ids_[k] /\ RestOfIds[k] # AllocatedId
  <1>1. CASE free_snode_tree_ids_ = <<>>
    BY <1>1, BoundsAreNat, LiveTrees DEF TreeTypes, Slots, AllocatedId, RestOfIds, Ids, Created
  <1>2. CASE free_snode_tree_ids_ # <<>>
    <2> DEFINE s == free_snode_tree_ids_
    <2>1. s \in Seq(Ids)
      BY DEF TreeTypes
    <2>2. /\ Len(s) \in Nat \ {0} /\ s[Len(s)] \in Ids
          /\ SubSeq(s, 1, Len(s) - 1) \in Seq(Ids)
          /\ Len(SubSeq(s, 1, Len(s) - 1)) = Len(s) - 1
          /\ \A k \in 1 .. Len(s) - 1 : SubSeq(s, 1, Len(s) - 1)[k] = s[k]
      BY <1>2, <2>1, Popped
    <2>3. AllocatedId = s[Len(s)] /\ RestOfIds = SubSeq(s, 1, Len(s) - 1)
      BY <1>2 DEF AllocatedId, RestOfIds
    <2>4. s[Len(s)] < Len(snode_trees_) /\ snode_trees_[s[Len(s)] + 1] \in destroyed
      BY <2>2 DEF FreeIds
    <2>5. \A k \in 1 .. Len(s) - 1 : s[k] # s[Len(s)]
      BY <2>2 DEF FreeIds
    <2>6. \A u \in Live : id_[u] # s[Len(s)]
      BY <2>4, LiveTrees
    <2>7. s[Len(s)] \in 0 .. Len(snode_trees_)
      BY <2>2, <2>4, BoundsAreNat DEF Ids, TreeTypes
    <2>8. QED
      BY <2>2, <2>3, <2>5, <2>6, <2>7
  <1>3. QED
    BY <1>1, <1>2

\* What CompileTree does to the ids.
LEMMA Compiles ==
  ASSUME TreeTypes, NEW v \in Trees, NEW i \in Ids, CompileTree(v, i)
  PROVE  /\ main = "idle" /\ Created < MaxTrees
         /\ Created \in Nat /\ v = Created + 1 /\ i = AllocatedId
         /\ Created' = Created + 1 /\ id_' \in Seq(Ids)
         /\ id_'[v] = i /\ \A u \in 1 .. Created : id_'[u] = id_[u]
         /\ free_snode_tree_ids_' = RestOfIds /\ destroyed' = destroyed
  BY DEF TreeTypes, CompileTree, Created

\* Which trees are alive after each operation.
LEMMA LiveAdded ==
  ASSUME TreeTypes, Slots, FreeIds, NEW v \in Trees, NEW i \in Ids, AddTree(v, i)
  PROVE  /\ snode_trees_' \in Seq(Trees) /\ Len(snode_trees_') <= Created'
         /\ Len(snode_trees_') >= Len(snode_trees_)
         /\ i + 1 \in 1 .. Len(snode_trees_') /\ snode_trees_'[i + 1] = v
         /\ \A k \in 1 .. Len(snode_trees_') :
              k # i + 1 => k \in 1 .. Len(snode_trees_) /\ snode_trees_'[k] = snode_trees_[k]
         /\ Live' = Live \cup {v} /\ v \notin Live
  <1>1. CompileTree(v, i)
    BY DEF AddTree
  <1>2. /\ Created \in Nat /\ v = Created + 1 /\ i = AllocatedId
        /\ Created' = Created + 1 /\ destroyed' = destroyed
        /\ id_'[v] = i /\ \A u \in 1 .. Created : id_'[u] = id_[u]
    BY <1>1, Compiles
  <1>3. i \in 0 .. Len(snode_trees_) /\ \A u \in Live : id_[u] # i
    BY <1>1, <1>2, Compiles, NewId
  <1>4. snode_trees_ \in Seq(Trees) /\ Len(snode_trees_) \in Nat
    BY DEF TreeTypes
  <1>5. /\ snode_trees_' \in Seq(Trees)
        /\ Len(snode_trees_') = IF i < Len(snode_trees_) THEN Len(snode_trees_)
                                                     ELSE Len(snode_trees_) + 1
        /\ snode_trees_'[i + 1] = v
        /\ \A k \in 1 .. Len(snode_trees_') :
             k # i + 1 => k \in 1 .. Len(snode_trees_) /\ snode_trees_'[k] = snode_trees_[k]
    <2>1. CASE i < Len(snode_trees_)
      BY <1>3, <1>4, <2>1 DEF AddTree
    <2>2. CASE i = Len(snode_trees_)
      BY <1>3, <1>4, <2>2 DEF AddTree
    <2>3. QED
      BY <1>3, <1>4, <2>1, <2>2
  <1>6. v \notin Live /\ v \notin destroyed
    BY <1>2 DEF Live, Slots
  <1>7. v \in Live'
    BY <1>2, <1>3, <1>4, <1>5, <1>6 DEF Live
  <1>8. ASSUME NEW u \in 1 .. Created
        PROVE  u \in Live' <=> u \in Live
    <2>1. id_[u] \in Nat /\ id_'[u] = id_[u]
      BY <1>2, <1>8, BoundsAreNat DEF TreeTypes, Created, Ids
    <2>2. CASE id_[u] = i
      BY <1>2, <1>3, <1>5, <1>8, <2>1, <2>2 DEF Live
    <2>3. CASE id_[u] # i
      <3>1. id_[u] < Len(snode_trees_') <=> id_[u] < Len(snode_trees_)
        BY <1>3, <1>4, <1>5, <2>1, <2>3
      <3>2. id_[u] < Len(snode_trees_) => snode_trees_'[id_[u] + 1] = snode_trees_[id_[u] + 1]
        BY <1>3, <1>4, <1>5, <2>1, <2>3
      <3>3. QED
        BY <1>2, <1>8, <2>1, <3>1, <3>2 DEF Live
    <2>4. QED
      BY <2>2, <2>3
  <1>9. Live' = Live \cup {v}
    <2>1. Live \subseteq 1 .. Created /\ Live' \subseteq 1 .. Created'
      BY DEF Live
    <2>2. 1 .. Created' = (1 .. Created) \cup {v}
      BY <1>2
    <2>3. QED
      BY <1>7, <1>8, <2>1, <2>2
  <1>10. QED
    BY <1>2, <1>3, <1>4, <1>5, <1>6, <1>9 DEF Slots

LEMMA LiveKept ==
  ASSUME TreeTypes, Slots, FreeIds, NEW v \in Trees, NEW i \in Ids, AddTreeFails(v, i)
  PROVE  UNCHANGED <<snode_trees_, Live>> /\ v \notin Live
  <1>1. CompileTree(v, i) /\ snode_trees_' = snode_trees_
    BY DEF AddTreeFails
  <1>2. /\ Created \in Nat /\ v = Created + 1 /\ Created' = Created + 1
        /\ destroyed' = destroyed
        /\ id_'[v] = i /\ \A u \in 1 .. Created : id_'[u] = id_[u]
    BY <1>1, Compiles
  <1>3. v \notin Live /\ v \notin Live'
    BY <1>1, <1>2, BoundsAreNat DEF Live, Slots, Ids, TreeTypes
  <1>4. ASSUME NEW u \in 1 .. Created
        PROVE  u \in Live' <=> u \in Live
    BY <1>1, <1>2, <1>4 DEF Live
  <1>5. Live \subseteq 1 .. Created /\ Live' \subseteq (1 .. Created) \cup {v}
    BY <1>2 DEF Live
  <1>6. QED
    BY <1>1, <1>3, <1>4, <1>5

LEMMA LiveDestroyed ==
  ASSUME NEW v \in Trees, DestroyTree(v)
  PROVE  /\ UNCHANGED <<snode_trees_, id_, Created>>
         /\ v \in Live /\ Live' = Live \ {v}
  BY DEF DestroyTree, Live, Created

LEMMA TreesStep ==
  ASSUME TreesInv,
         \/ \E v \in Trees, i \in Ids : AddTree(v, i) \/ AddTreeFails(v, i)
         \/ \E v \in Trees : DestroyTree(v)
         \/ UNCHANGED treeVars
  PROVE  TreesInv'
  <1> USE DEF TreesInv
  <1>1. ASSUME NEW v \in Trees, NEW i \in Ids, CompileTree(v, i),
               snode_trees_' \in Seq(Trees),
               Len(snode_trees_') <= Created',
               Len(snode_trees_') >= Len(snode_trees_),
               \A k \in 1 .. Len(snode_trees_') :
                 \/ k = i + 1 /\ snode_trees_'[k] = v
                 \/ k \in 1 .. Len(snode_trees_) /\ snode_trees_'[k] = snode_trees_[k],
               \A k \in 1 .. Len(snode_trees_) :
                 k # i + 1 => snode_trees_'[k] = snode_trees_[k],
               \/ roots' = roots /\ Live' = Live
               \/ roots' = [roots EXCEPT ![i] = fields'[i]] /\ Live' = Live \cup {v}
        PROVE  TreesInv'
    <2>1. /\ Created \in Nat /\ v = Created + 1 /\ i = AllocatedId
          /\ Created' = Created + 1 /\ id_' \in Seq(Ids)
          /\ id_'[v] = i /\ \A u \in 1 .. Created : id_'[u] = id_[u]
          /\ free_snode_tree_ids_' = RestOfIds /\ destroyed' = destroyed
          /\ Created < MaxTrees
      BY <1>1, Compiles
    <2>2. fields' = CachedField(i, v)
      BY <1>1 DEF CompileTree
    <2>3. fields'[i] = IF fields[i] = None THEN v ELSE fields[i]
      BY <2>2 DEF CachedField, TreeTypes
    <2>4. \A j \in Ids : j # i => fields'[j] = fields[j]
      BY <2>2 DEF CachedField, TreeTypes
    <2>5. TreeTypes'
      <3>1. fields' \in [Ids -> {None} \cup Trees]
        BY <2>2 DEF CachedField, TreeTypes
      <3>2. roots' \in [Ids -> {None} \cup Trees]
        BY <1>1, <3>1 DEF TreeTypes
      <3>3. free_snode_tree_ids_' \in Seq(Ids)
        BY <2>1, NewId
      <3>4. Created' <= MaxTrees
        BY <2>1, BoundsAreNat
      <3>5. QED
        BY <1>1, <2>1, <3>1, <3>2, <3>3, <3>4 DEF TreeTypes
    <2>6. Slots'
      <3>1. \A k \in 1 .. Len(snode_trees_') :
              snode_trees_'[k] \in 1 .. Created' /\ id_'[snode_trees_'[k]] = k - 1
        <4>1. i \in Nat /\ Len(snode_trees_) \in Nat /\ Len(snode_trees_') \in Nat
          BY <1>1, BoundsAreNat DEF Ids, TreeTypes
        <4>2. ASSUME NEW k \in 1 .. Len(snode_trees_'), k = i + 1, snode_trees_'[k] = v
              PROVE  snode_trees_'[k] \in 1 .. Created' /\ id_'[snode_trees_'[k]] = k - 1
          BY <2>1, <4>1, <4>2
        <4>3. ASSUME NEW k \in 1 .. Len(snode_trees_), snode_trees_'[k] = snode_trees_[k]
              PROVE  snode_trees_'[k] \in 1 .. Created' /\ id_'[snode_trees_'[k]] = k - 1
          <5>1. snode_trees_[k] \in 1 .. Created /\ id_[snode_trees_[k]] = k - 1
            BY <4>3 DEF Slots
          <5>2. id_'[snode_trees_[k]] = k - 1 /\ snode_trees_[k] \in 1 .. Created + 1
            BY <2>1, <5>1
          <5>3. QED
            BY <2>1, <4>3, <5>2
        <4>4. ASSUME NEW k \in 1 .. Len(snode_trees_')
              PROVE  \/ k = i + 1 /\ snode_trees_'[k] = v
                     \/ k \in 1 .. Len(snode_trees_) /\ snode_trees_'[k] = snode_trees_[k]
          BY <1>1, <4>4
        <4>5. QED
          BY <4>2, <4>3, <4>4
      <3>2. destroyed' \subseteq 1 .. Created'
        BY <2>1 DEF Slots
      <3>3. QED
        BY <1>1, <3>1, <3>2 DEF Slots
    <2>7. FreeIds'
      <3>1. /\ Len(RestOfIds) \in Nat
            /\ Len(RestOfIds) <= Len(free_snode_tree_ids_)
            /\ Len(free_snode_tree_ids_) \in Nat
            /\ \A k \in 1 .. Len(RestOfIds) :
                 RestOfIds[k] = free_snode_tree_ids_[k] /\ RestOfIds[k] # i
        BY <2>1, NewId DEF TreeTypes
      <3>2. Len(snode_trees_) \in Nat /\ Len(snode_trees_') \in Nat /\ i \in Nat
        BY <1>1, BoundsAreNat DEF TreeTypes, Ids
      <3>3. ASSUME NEW k \in 1 .. Len(RestOfIds)
            PROVE  /\ RestOfIds[k] < Len(snode_trees_')
                   /\ snode_trees_'[RestOfIds[k] + 1] \in destroyed'
        <4>1. k \in 1 .. Len(free_snode_tree_ids_) /\ free_snode_tree_ids_[k] \in Nat
          BY <3>1, <3>3, BoundsAreNat DEF TreeTypes, Ids
        <4>2. /\ RestOfIds[k] \in Nat /\ RestOfIds[k] < Len(snode_trees_)
              /\ snode_trees_[RestOfIds[k] + 1] \in destroyed /\ RestOfIds[k] # i
          BY <3>1, <4>1 DEF FreeIds
        <4>3. snode_trees_'[RestOfIds[k] + 1] = snode_trees_[RestOfIds[k] + 1]
          BY <1>1, <3>2, <4>2
        <4>4. QED
          BY <1>1, <2>1, <3>2, <4>2, <4>3
      <3>4. ASSUME NEW j \in 1 .. Len(RestOfIds), NEW k \in 1 .. Len(RestOfIds),
                   RestOfIds[j] = RestOfIds[k]
            PROVE  j = k
        BY <3>1, <3>4 DEF FreeIds
      <3>5. QED
        BY <2>1, <3>3, <3>4 DEF FreeIds
    <2>8. Metadata'
      <3>1. v \notin destroyed /\ v \in 1 .. Created'
        BY <2>1 DEF Slots
      <3>2. ASSUME NEW j \in Ids, fields[j] # None
            PROVE  /\ fields[j] \in (1 .. Created') \ destroyed'
                   /\ id_'[fields[j]] = j
        BY <2>1, <3>2 DEF Metadata
      <3>3. ASSUME NEW j \in Ids, fields'[j] # None
            PROVE  fields'[j] \in (1 .. Created') \ destroyed' /\ id_'[fields'[j]] = j
        <4>1. fields'[j] = fields[j] \/ (j = i /\ fields'[j] = v)
          BY <2>3, <2>4
        <4>2. QED
          BY <2>1, <3>1, <3>2, <3>3, <4>1
      <3>4. QED
        BY <3>3 DEF Metadata
    <2>9. RootsOfTheirOwn'
      <3>1. \A u \in Live : u \in 1 .. Created /\ id_'[u] = id_[u] /\ id_[u] \in Ids /\ id_[u] # i
        BY <2>1, LiveTrees, NewId
      <3>2. \A u \in Live : roots'[id_'[u]] = roots[id_[u]]
        BY <1>1, <3>1 DEF TreeTypes
      <3>3. v \notin Live
        BY <2>1 DEF Live
      <3>4. ASSUME NEW u \in Live
            PROVE  \/ roots'[id_'[u]] = u
                   \/ /\ roots'[id_'[u]] \in 1 .. Created' \ Live'
                      /\ id_'[roots'[id_'[u]]] = id_'[u]
                      /\ roots'[id_'[u]] \notin destroyed'
        <4>1. CASE roots[id_[u]] = u
          BY <3>2, <3>4, <4>1
        <4>2. CASE roots[id_[u]] # u
          <5>1. /\ roots[id_[u]] \in 1 .. Created \ Live
                /\ id_[roots[id_[u]]] = id_[u] /\ roots[id_[u]] \notin destroyed
            BY <3>4, <4>2 DEF RootsOfTheirOwn
          <5>2. roots[id_[u]] \in 1 .. Created' /\ roots[id_[u]] \notin Live'
            BY <1>1, <2>1, <5>1
          <5>3. QED
            BY <2>1, <3>1, <3>2, <5>1, <5>2
        <4>3. QED
          BY <4>1, <4>2
      <3>5. ASSUME v \in Live'
            PROVE  \/ roots'[id_'[v]] = v
                   \/ /\ roots'[id_'[v]] \in 1 .. Created' \ Live'
                      /\ id_'[roots'[id_'[v]]] = id_'[v]
                      /\ roots'[id_'[v]] \notin destroyed'
        <4>1. roots'[i] = fields'[i]
          BY <1>1, <3>3, <3>5 DEF TreeTypes
        <4>2. CASE fields[i] = None
          BY <2>1, <2>3, <4>1, <4>2
        <4>3. CASE fields[i] # None
          <5>1. fields[i] \in (1 .. Created) \ destroyed /\ id_[fields[i]] = i
            BY <4>3 DEF Metadata
          <5>2. fields[i] \notin Live
            BY <3>1, <5>1
          <5>3. fields[i] \notin Live' /\ fields[i] \in 1 .. Created'
            BY <1>1, <2>1, <5>1, <5>2
          <5>4. QED
            BY <2>1, <2>3, <4>1, <4>3, <5>1, <5>3
        <4>4. QED
          BY <4>2, <4>3
      <3>6. QED
        BY <1>1, <3>4, <3>5 DEF RootsOfTheirOwn
    <2>10. QED
      BY <2>5, <2>6, <2>7, <2>8, <2>9
  <1>2. ASSUME NEW v \in Trees, NEW i \in Ids, AddTree(v, i)
        PROVE  TreesInv'
    <2>1. CompileTree(v, i) /\ roots' = [roots EXCEPT ![i] = fields'[i]]
      BY <1>2 DEF AddTree
    <2>2. /\ snode_trees_' \in Seq(Trees) /\ Len(snode_trees_') <= Created'
          /\ Len(snode_trees_') >= Len(snode_trees_)
          /\ i + 1 \in 1 .. Len(snode_trees_') /\ snode_trees_'[i + 1] = v
          /\ \A k \in 1 .. Len(snode_trees_') :
               k # i + 1 => k \in 1 .. Len(snode_trees_) /\ snode_trees_'[k] = snode_trees_[k]
          /\ Live' = Live \cup {v}
      BY <1>2, LiveAdded
    <2>3. \A k \in 1 .. Len(snode_trees_) : k \in 1 .. Len(snode_trees_')
      BY <2>2 DEF TreeTypes
    <2>4. QED
      BY <1>1, <2>1, <2>2, <2>3
  <1>3. ASSUME NEW v \in Trees, NEW i \in Ids, AddTreeFails(v, i)
        PROVE  TreesInv'
    <2>1. CompileTree(v, i) /\ roots' = roots /\ snode_trees_' = snode_trees_
      BY <1>3 DEF AddTreeFails
    <2>2. Live' = Live
      BY <1>3, LiveKept
    <2>3. snode_trees_' \in Seq(Trees) /\ Len(snode_trees_') <= Created'
      BY <2>1, Compiles DEF TreeTypes, Slots
    <2>4. QED
      BY <1>1, <2>1, <2>2, <2>3 DEF TreeTypes
  <1>4. ASSUME NEW v \in Trees, DestroyTree(v)
        PROVE  TreesInv'
    <2>1. /\ UNCHANGED <<snode_trees_, id_, Created>>
          /\ v \in Live /\ Live' = Live \ {v}
      BY <1>4, LiveDestroyed
    <2>2. /\ fields' = [fields EXCEPT ![id_[v]] = None]
          /\ roots' = [roots EXCEPT ![id_[v]] = None]
          /\ free_snode_tree_ids_' = Append(free_snode_tree_ids_, id_[v])
          /\ destroyed' = destroyed \cup {v}
      BY <1>4 DEF DestroyTree
    <2>3. /\ v \in 1 .. Created /\ v \notin destroyed /\ id_[v] \in Ids
          /\ id_[v] \in Nat /\ id_[v] + 1 \in 1 .. Len(snode_trees_)
          /\ snode_trees_[id_[v] + 1] = v
      BY <2>1, LiveTrees
    <2>4. TreeTypes'
      BY <2>1, <2>2, <2>3 DEF TreeTypes
    <2>5. Slots'
      BY <2>1, <2>2, <2>3 DEF Slots
    <2>6. FreeIds'
      <3> DEFINE s == free_snode_tree_ids_
                 t == Append(s, id_[v])
      <3>1. /\ Len(s) \in Nat /\ Len(t) = Len(s) + 1 /\ t[Len(s) + 1] = id_[v]
            /\ \A k \in 1 .. Len(s) : t[k] = s[k]
        BY <2>3 DEF TreeTypes
      <3>2. id_[v] < Len(snode_trees_)
        BY <2>3 DEF TreeTypes
      <3>3. \A k \in 1 .. Len(s) : s[k] # id_[v]
        BY <2>3 DEF FreeIds
      <3>4. \A k \in 1 .. Len(t) : /\ t[k] < Len(snode_trees_)
                                   /\ snode_trees_[t[k] + 1] \in destroyed'
        <4>1. ASSUME NEW k \in 1 .. Len(t)
              PROVE  k = Len(s) + 1 \/ k \in 1 .. Len(s)
          BY <3>1
        <4>2. QED
          BY <2>2, <2>3, <3>1, <3>2, <4>1 DEF FreeIds
      <3>5. \A j, k \in 1 .. Len(t) : t[j] = t[k] => j = k
        <4>1. ASSUME NEW k \in 1 .. Len(t)
              PROVE  k = Len(s) + 1 \/ k \in 1 .. Len(s)
          BY <3>1
        <4>2. QED
          BY <3>1, <3>3, <4>1 DEF FreeIds
      <3>6. free_snode_tree_ids_' = t /\ snode_trees_' = snode_trees_
        BY <2>1, <2>2
      <3> HIDE DEF t
      <3>7. QED
        BY <3>4, <3>5, <3>6 DEF FreeIds
    <2>7. Metadata'
      <3>1. ASSUME NEW j \in Ids, fields'[j] # None
            PROVE  fields'[j] \in (1 .. Created') \ destroyed' /\ id_'[fields'[j]] = j
        <4>1. j # id_[v] /\ fields'[j] = fields[j]
          BY <2>2, <2>3, <3>1 DEF TreeTypes
        <4>2. fields[j] \in (1 .. Created) \ destroyed /\ id_[fields[j]] = j
          BY <3>1, <4>1 DEF Metadata
        <4>3. fields[j] # v
          BY <4>1, <4>2
        <4>4. QED
          BY <2>1, <2>2, <4>1, <4>2, <4>3
      <3>2. QED
        BY <3>1 DEF Metadata
    <2>8. RootsOfTheirOwn'
      <3>1. ASSUME NEW u \in Live, u # v
            PROVE  id_[u] # id_[v] /\ roots'[id_[u]] = roots[id_[u]]
        <4>1. id_[u] \in Ids /\ snode_trees_[id_[u] + 1] = u
          BY LiveTrees
        <4>2. QED
          BY <2>2, <2>3, <3>1, <4>1 DEF TreeTypes
      <3>2. ASSUME NEW u \in Live, u # v
            PROVE  \/ roots'[id_[u]] = u
                   \/ /\ roots'[id_[u]] \in 1 .. Created \ Live'
                      /\ id_[roots'[id_[u]]] = id_[u]
                      /\ roots'[id_[u]] \notin destroyed'
        <4>1. CASE roots[id_[u]] = u
          BY <3>1, <3>2, <4>1
        <4>2. CASE roots[id_[u]] # u
          BY <2>1, <2>2, <3>1, <3>2, <4>2 DEF RootsOfTheirOwn
        <4>3. QED
          BY <4>1, <4>2
      <3>3. QED
        BY <2>1, <3>2 DEF RootsOfTheirOwn
    <2>9. QED
      BY <2>4, <2>5, <2>6, <2>7, <2>8
  <1>5. CASE UNCHANGED treeVars
    BY <1>5 DEF treeVars, TreeTypes, Slots, FreeIds, Metadata, RootsOfTheirOwn, Live, Created
  <1>6. QED
    BY <1>2, <1>3, <1>4, <1>5

\* Two trees that are alive have different ids, and none of these is free.
LEMMA DistinctIds ==
  ASSUME TreeTypes, FreeIds
  PROVE  IdsInUseOnce
  BY LiveTrees DEF FreeIds, IdsInUseOnce

-----------------------------------------------------------------------------
(* The copies of the modules, and the tasks that use them.                 *)

WorkTypes ==
  /\ main \in {"idle", "enqueue", "flush", "link", "crashed"}
  /\ kernels \in 0 .. MaxKernels /\ (main # "idle" => kernels # 0)
  /\ uses \in Seq(SUBSET Trees) /\ Len(uses) <= MaxOffloads
  /\ next \in 1 .. Len(uses) + 1
  /\ data = [n \in 1 .. Len(uses) |-> data[n]]
  /\ stage \in [Runners -> {"none", "fetch", "clone", "compile", "end"}]
  /\ todo \in [Runners -> SUBSET Ids]
  /\ workers \subseteq Runners \ {MainThread}
  /\ queued \in Seq(CompileFuncs)
  /\ running \in [Runners -> CompileFuncs \cup {NoFunc}]

ModuleTypes ==
  /\ struct_modules \in [Owners -> [Ids -> {None} \cup Trees]]
  /\ per_thread_data_ \subseteq Runners /\ MainThread \in per_thread_data_

\* What the main thread has is right, and the others have what it has or are
\* about to.
Copies ==
  /\ \A v \in Live : ModuleOf(id_[v]) = v
  /\ struct_modules[Linking] = struct_modules[MainThread]
  /\ \A r \in Runners :
       /\ r \notin per_thread_data_ => struct_modules[r] = NoModules
       /\ r \in per_thread_data_ /\ stage[r] # "clone" =>
            struct_modules[r] = struct_modules[MainThread]
       /\ stage[r] = "clone" =>
            \A i \in Ids :
              struct_modules[r][i] = IF i \in todo[r] THEN None ELSE ModuleOf(i)

Stages ==
  \A r \in Runners :
    /\ stage[r] = "none" <=> running[r] = NoFunc
    /\ stage[r] \in {"clone", "compile", "end"} => r \in per_thread_data_
    /\ stage[r] = "end" => data[running[r].offload].done

\* A task that is queued or running is one of the kernel.
OfTheKernel(f) == f.kernel = kernels /\ f.offload \in 1 .. next - 1

TasksKnown ==
  /\ \A k \in 1 .. Len(queued) : OfTheKernel(queued[k])
  /\ \A r \in Runners : running[r] # NoFunc => OfTheKernel(running[r])

\* Where the main thread is, against its pool.
Waiting ==
  /\ main \in {"idle", "link"} => Q!Quiet
  /\ main \in {"idle", "enqueue", "link"} => ~flushing
  /\ main = "flush" => flushing
  /\ main \in {"flush", "link"} => next = Len(uses) + 1

\* An offload whose task was enqueued is compiled or will be.
Pending(n) ==
  \/ \E k \in 1 .. Len(queued) : queued[k].offload = n
  \/ \E r \in Runners : running[r] # NoFunc /\ running[r].offload = n

Results ==
  main # "idle" =>
    /\ \A n \in 1 .. next - 1 : data[n].done \/ Pending(n)
    /\ \A n \in 1 .. Len(uses) :
         data[n].done /\ uses[n] \subseteq Live => data[n].against = uses[n]

WorkInv ==
  /\ WorkTypes /\ ModuleTypes /\ Copies /\ Stages
  /\ TasksKnown /\ Waiting /\ Results

LEMMA Funcs ==
  /\ NoFunc \notin CompileFuncs
  /\ \A k \in 1 .. MaxKernels, n \in 1 .. MaxOffloads :
       /\ CompileFunc(k, n) \in CompileFuncs
       /\ CompileFunc(k, n).kernel = k /\ CompileFunc(k, n).offload = n
  /\ \A f \in CompileFuncs : f.kernel \in 1 .. MaxKernels /\ f.offload \in 1 .. MaxOffloads
  <1>1. ASSUME NEW f \in CompileFuncs
        PROVE  /\ f.kernel \in 1 .. MaxKernels /\ f.offload \in 1 .. MaxOffloads
               /\ f # NoFunc
    <2>1. PICK k \in 1 .. MaxKernels, n \in 1 .. MaxOffloads : f = CompileFunc(k, n)
      BY DEF CompileFuncs
    <2>2. f.kernel = k /\ f.offload = n /\ NoFunc.kernel = 0
      BY <2>1 DEF CompileFunc, NoFunc
    <2>3. QED
      BY <2>2, BoundsAreNat
  <1>2. ASSUME NEW k \in 1 .. MaxKernels, NEW n \in 1 .. MaxOffloads
        PROVE  /\ CompileFunc(k, n) \in CompileFuncs
               /\ CompileFunc(k, n).kernel = k /\ CompileFunc(k, n).offload = n
    BY DEF CompileFuncs, CompileFunc
  <1>3. QED
    BY <1>1, <1>2

LEMMA FirstFunc ==
  ASSUME WorkTypes, queued # <<>>
  PROVE  /\ Head(queued) = queued[1] /\ Head(queued) \in CompileFuncs
         /\ Len(queued) \in Nat \ {0}
         /\ Tail(queued) \in Seq(CompileFuncs) /\ Len(Tail(queued)) = Len(queued) - 1
         /\ \A k \in 1 .. Len(queued) - 1 : Tail(queued)[k] = queued[k + 1]
  <1>1. queued \in Seq(CompileFuncs)
    BY DEF WorkTypes
  <1>2. QED
    BY <1>1, LenProperties, EmptySeq, ElementOfSeq, HeadTailProperties

LEMMA MainIsRunner == MainThread \in Runners /\ Linking \notin Runners /\ Runners \subseteq Owners /\ Linking \in Owners
  BY RunnersAssumption, LinkingAssumption DEF Owners

\* While the main thread is not at work nobody is, and all copies are whole.
LEMMA AllWhole ==
  ASSUME WorkInv, Q!Quiet
  PROVE  /\ \A r \in Runners : running[r] = NoFunc /\ stage[r] = "none"
         /\ \A o \in per_thread_data_ \cup {Linking} :
              struct_modules[o] = struct_modules[MainThread]
  BY MainIsRunner DEF WorkInv, ModuleTypes, Copies, Stages, Q!Quiet

LEMMA InitWork ==
  ASSUME TreesInit
  PROVE  TreesInv /\ WorkInv
  <1> USE DEF TreesInit
  <1>1. queued = <<>> /\ running = [r \in Runners |-> NoFunc] /\ flushing = FALSE
    BY DEF Q!Init
  <1>2. Live = {} /\ Created = 0
    BY DEF Live, Created
  <1>3. TreesInv
    BY <1>2, BoundsAreNat DEF TreesInv, TreeTypes, Slots, FreeIds, Metadata, RootsOfTheirOwn, NoModules, None, Created
  <1>4. WorkTypes
    <2>1. data = [n \in 1 .. Len(uses) |-> data[n]]
      OBVIOUS
    <2>2. workers \subseteq Runners \ {MainThread}
      OBVIOUS
    <2>3. kernels \in 0 .. MaxKernels /\ uses \in Seq(SUBSET Trees) /\ Len(uses) <= MaxOffloads
          /\ next \in 1 .. Len(uses) + 1
      BY BoundsAreNat
    <2>4. QED
      BY <1>1, <2>1, <2>2, <2>3 DEF WorkTypes
  <1>5. ModuleTypes
    BY MainIsRunner DEF ModuleTypes, NoModules, None
  <1>6. Copies
    BY <1>2, MainIsRunner DEF Copies
  <1>7. Stages /\ TasksKnown
    BY <1>1 DEF Stages, TasksKnown
  <1>8. Waiting /\ Results
    BY <1>1, Zenon DEF Waiting, Results, Q!Quiet
  <1>9. QED
    BY <1>3, <1>4, <1>5, <1>6, <1>7, <1>8 DEF WorkInv

-----------------------------------------------------------------------------
(* Steps of the main thread.                                               *)

\* Adding and destroying trees, with all copies whole and nobody at work.
LEMMA TreeOperations ==
  ASSUME TreesInv, WorkInv,
         \/ \E v \in Trees, i \in Ids : AddTree(v, i) \/ AddTreeFails(v, i)
         \/ \E v \in Trees : DestroyTree(v)
  PROVE  WorkInv'
  <1>1. /\ main = "idle"
        /\ UNCHANGED <<per_thread_data_, kernelVars, taskVars, poolVars>>
    BY DEF AddTree, AddTreeFails, CompileTree, DestroyTree
  <1>2. Q!Quiet
    BY <1>1 DEF WorkInv, Waiting
  <1>3. /\ \A r \in Runners : running[r] = NoFunc /\ stage[r] = "none"
        /\ \A o \in per_thread_data_ \cup {Linking} :
             struct_modules[o] = struct_modules[MainThread]
    BY <1>2, AllWhole
  <1>4. WorkTypes' /\ Stages' /\ TasksKnown' /\ Waiting' /\ Results'
    <2>1. WorkTypes' /\ TasksKnown' /\ Waiting'
      BY <1>1 DEF WorkInv, WorkTypes, TasksKnown, OfTheKernel, Waiting, Q!Quiet,
                  kernelVars, taskVars, poolVars
    <2>2. Stages'
      BY <1>1 DEF WorkInv, Stages, kernelVars, taskVars, poolVars
    <2>3. Results'
      BY <1>1 DEF Results, kernelVars
    <2>4. QED
      BY <2>1, <2>2, <2>3
  <1>5. ASSUME NEW i \in Ids, NEW m \in {None} \cup Trees,
               struct_modules' =
                 [o \in Owners |-> IF o \in per_thread_data_ \cup {Linking}
                                   THEN [struct_modules[o] EXCEPT ![i] = m]
                                   ELSE struct_modules[o]],
               \A v \in Live' : /\ id_'[v] = i => v = m
                                /\ id_'[v] # i => v \in Live /\ id_'[v] = id_[v]
                                /\ id_'[v] \in Ids
        PROVE  ModuleTypes' /\ Copies'
    <2>1. ModuleTypes'
      BY <1>1, <1>5 DEF WorkInv, ModuleTypes
    <2>2. /\ struct_modules'[MainThread] = [struct_modules[MainThread] EXCEPT ![i] = m]
          /\ struct_modules'[Linking] = [struct_modules[Linking] EXCEPT ![i] = m]
      BY <1>5, MainIsRunner DEF WorkInv, ModuleTypes
    <2>3. struct_modules[MainThread] \in [Ids -> {None} \cup Trees]
      BY MainIsRunner DEF WorkInv, ModuleTypes
    <2>4. \A v \in Live' : struct_modules'[MainThread][id_'[v]] = v
      BY <1>5, <2>2, <2>3 DEF WorkInv, Copies, ModuleOf
    <2>5. ASSUME NEW r \in Runners
          PROVE  /\ r \notin per_thread_data_' => struct_modules'[r] = NoModules
                 /\ r \in per_thread_data_' => struct_modules'[r] = struct_modules'[MainThread]
      BY <1>1, <1>3, <1>5, <2>2, MainIsRunner DEF WorkInv, Copies
    <2>6. struct_modules'[Linking] = struct_modules'[MainThread]
      BY <2>2 DEF WorkInv, Copies
    <2>7. \A r \in Runners : stage'[r] # "clone"
      BY <1>1, <1>3 DEF taskVars
    <2>8. QED
      BY <2>1, <2>4, <2>5, <2>6, <2>7 DEF Copies, ModuleOf
  <1>6. ASSUME NEW v \in Trees, NEW i \in Ids, AddTree(v, i) \/ AddTreeFails(v, i)
        PROVE  ModuleTypes' /\ Copies'
    <2>1. CompileTree(v, i)
      BY <1>6 DEF AddTree, AddTreeFails
    <2>2. /\ i = AllocatedId /\ Created < MaxTrees
          /\ id_'[v] = i /\ \A u \in 1 .. Created : id_'[u] = id_[u]
      BY <2>1, Compiles DEF TreesInv
    <2>3. \A u \in Live : id_[u] # i /\ id_'[u] = id_[u] /\ id_[u] \in Ids
      BY <2>2, NewId, LiveTrees DEF TreesInv
    <2>4. Live' \subseteq Live \cup {v}
      BY <1>6, LiveAdded, LiveKept DEF TreesInv
    <2>5. struct_modules' = Added(i, v)
      BY <2>1 DEF CompileTree
    <2>6. \A u \in Live' : /\ id_'[u] = i => u = v
                           /\ id_'[u] # i => u \in Live /\ id_'[u] = id_[u]
                           /\ id_'[u] \in Ids
      BY <2>2, <2>3, <2>4
    <2>7. QED
      BY <1>5, <2>5, <2>6 DEF Added
  <1>7. ASSUME NEW v \in Trees, DestroyTree(v)
        PROVE  ModuleTypes' /\ Copies'
    <2>1. /\ id_' = id_ /\ v \in Live /\ Live' = Live \ {v}
      BY <1>7, LiveDestroyed
    <2>2. \A u \in Live : id_[u] \in Ids /\ (id_[u] = id_[v] => u = v)
      BY <2>1, LiveTrees DEF TreesInv
    <2>3. struct_modules' = Erased(id_[v])
      BY <1>7 DEF DestroyTree
    <2>4. PICK i \in Ids : i = id_[v]
      BY <2>1, <2>2
    <2>5. \A u \in Live' : /\ id_'[u] = i => u = None
                           /\ id_'[u] # i => u \in Live /\ id_'[u] = id_[u]
                           /\ id_'[u] \in Ids
      BY <2>1, <2>2, <2>4
    <2>6. struct_modules' =
            [o \in Owners |-> IF o \in per_thread_data_ \cup {Linking}
                              THEN [struct_modules[o] EXCEPT ![i] = None]
                              ELSE struct_modules[o]]
      BY <2>3, <2>4 DEF Erased
    <2>7. None \in {None} \cup Trees
      OBVIOUS
    <2>8. QED
      BY <1>5, <2>5, <2>6, <2>7
  <1>8. QED
    BY <1>4, <1>6, <1>7 DEF WorkInv

\* What the steps of the main thread in compile_kernel_to_module() leave alone.
LEMMA ModulesLeft ==
  ASSUME WorkInv, UNCHANGED <<treeVars, moduleVars, todo>>,
         \A r \in Runners : (stage'[r] = "clone") <=> (stage[r] = "clone")
  PROVE  ModuleTypes' /\ Copies' /\ Live' = Live
  BY DEF WorkInv, ModuleTypes, Copies, ModuleOf, Live, Created, treeVars, moduleVars

LEMMA BeginKernelWork ==
  ASSUME WorkInv, NEW trees \in Seq(SUBSET Trees), Len(trees) <= MaxOffloads,
         BeginKernel(trees)
  PROVE  WorkInv'
  <1>1. /\ main = "idle" /\ main' = "enqueue" /\ kernels' = kernels + 1
        /\ kernels < MaxKernels /\ uses' = trees /\ next' = 1
        /\ data' = [k \in 1 .. Len(trees) |-> NotCompiled]
        /\ UNCHANGED <<treeVars, moduleVars, taskVars, poolVars>>
    BY DEF BeginKernel
  <1>2. Q!Quiet /\ queued = <<>>
    BY <1>1 DEF WorkInv, Waiting, Q!Quiet
  <1>3. \A r \in Runners : running[r] = NoFunc /\ stage[r] = "none"
    BY <1>2, AllWhole
  <1>4. WorkTypes'
    <2>1. Len(trees) \in Nat
      BY LenProperties
    <2>2. data' = [n \in 1 .. Len(uses') |-> data'[n]]
      BY <1>1
    <2>3. kernels' \in 0 .. MaxKernels /\ kernels' # 0
      BY <1>1, BoundsAreNat DEF WorkInv, WorkTypes
    <2>4. UNCHANGED <<stage, todo, workers, queued, running>>
      BY <1>1 DEF taskVars, poolVars
    <2>5. next' \in 1 .. Len(uses') + 1
      BY <1>1, <2>1
    <2>6. QED
      BY <1>1, <2>2, <2>3, <2>4, <2>5 DEF WorkInv, WorkTypes
  <1>5. ModuleTypes' /\ Copies'
    BY <1>1, ModulesLeft DEF taskVars
  <1>6. Stages' /\ TasksKnown'
    BY <1>1, <1>2, <1>3 DEF Stages, TasksKnown, taskVars, poolVars
  <1>7. Waiting'
    BY <1>1 DEF WorkInv, Waiting, poolVars
  <1>8. Results'
    <2>1. \A n \in 1 .. Len(uses') : ~data'[n].done
      BY <1>1 DEF NotCompiled
    <2>2. 1 .. next' - 1 = {}
      BY <1>1
    <2>3. QED
      BY <2>1, <2>2 DEF Results
  <1>9. QED
    BY <1>4, <1>5, <1>6, <1>7, <1>8 DEF WorkInv

LEMMA BeginWork ==
  ASSUME TreesInv, WorkInv, UserKernel \/ DeactivationKernel
  PROVE  WorkInv'
  <1>1. CASE UserKernel
    <2>1. PICK n \in 0 .. MaxOffloads : \E trees \in [1 .. n -> SUBSET Live] : BeginKernel(trees)
      BY <1>1 DEF UserKernel
    <2>2. PICK trees \in [1 .. n -> SUBSET Live] : BeginKernel(trees)
      BY <2>1
    <2>3. Live \subseteq Trees
      BY LiveTrees DEF TreesInv
    <2>4. trees \in [1 .. n -> SUBSET Trees] /\ n \in Nat
      BY <2>3, BoundsAreNat
    <2>5. trees \in Seq(SUBSET Trees)
      BY <2>4, SeqDef
    <2>6. Len(trees) = n
      BY <2>4, <2>5, LenProperties
    <2>7. QED
      BY <2>2, <2>5, <2>6, BoundsAreNat, BeginKernelWork
  <1>2. CASE DeactivationKernel
    <2>1. PICK k \in 1 .. Len(snode_trees_) :
            MaxOffloads >= 1 /\ BeginKernel(<<{snode_trees_[k]}>>)
      BY <1>2 DEF DeactivationKernel
    <2>2. snode_trees_[k] \in Trees
      BY DEF TreesInv, TreeTypes
    <2>3. <<{snode_trees_[k]}>> \in Seq(SUBSET Trees) /\ Len(<<{snode_trees_[k]}>>) = 1
      BY <2>2
    <2>4. QED
      BY <2>1, <2>3, BeginKernelWork
  <1>3. QED
    BY <1>1, <1>2

LEMMA EnqueueWork ==
  ASSUME WorkInv, EnqueueOffload
  PROVE  WorkInv'
  <1>1. /\ main = "enqueue" /\ next \in 1 .. Len(uses) /\ next' = next + 1
        /\ UNCHANGED <<treeVars, moduleVars, main, kernels, uses, data, todo, workers>>
    BY DEF EnqueueOffload, WorkInv, WorkTypes
  <1>2. PICK f \in CompileFuncs :
          /\ f = CompileFunc(kernels, next)
          /\ f.kernel = kernels /\ f.offload = next /\ f # NoFunc
    <2>1. kernels \in 1 .. MaxKernels /\ next \in 1 .. MaxOffloads
      BY <1>1, BoundsAreNat DEF WorkInv, WorkTypes
    <2>2. QED
      BY <2>1, Funcs
  <1>3. \/ /\ queued' = Append(queued, f) /\ UNCHANGED <<running, flushing, stage>>
        \/ /\ Q!Quiet /\ queued' = queued /\ flushing' = flushing
           /\ running' = [running EXCEPT ![MainThread] = f]
           /\ stage' = [stage EXCEPT ![MainThread] = "fetch"]
    BY <1>2 DEF EnqueueOffload, Q!Enqueue, Q!RunInline
  <1>4. queued \in Seq(CompileFuncs) /\ Len(queued) \in Nat
    BY DEF WorkInv, WorkTypes
  <1>5. CASE queued' = Append(queued, f) /\ UNCHANGED <<running, flushing, stage>>
    <2>1. /\ queued' \in Seq(CompileFuncs) /\ Len(queued') = Len(queued) + 1
          /\ queued'[Len(queued) + 1] = f
          /\ \A k \in 1 .. Len(queued) : queued'[k] = queued[k]
      BY <1>4, <1>5, AppendProperties
    <2>2. WorkTypes'
      BY <1>1, <1>5, <2>1 DEF WorkInv, WorkTypes
    <2>3. ModuleTypes' /\ Copies' /\ Live' = Live
      BY <1>1, <1>5, ModulesLeft
    <2>4. Stages'
      BY <1>1, <1>5 DEF WorkInv, Stages, moduleVars
    <2>5. \A g : OfTheKernel(g) => OfTheKernel(g)'
      BY <1>1 DEF OfTheKernel
    <2>6. OfTheKernel(f)'
      BY <1>1, <1>2 DEF OfTheKernel
    <2>7. \A k \in 1 .. Len(queued') : k \in 1 .. Len(queued) \/ k = Len(queued) + 1
      BY <1>4, <2>1
    <2>8. TasksKnown'
      BY <1>5, <2>1, <2>5, <2>6, <2>7 DEF WorkInv, TasksKnown
    <2>9. Waiting'
      BY <1>1, <1>5 DEF WorkInv, Waiting
    <2>10. Results'
      <3>1. ASSUME NEW n, Pending(n)
            PROVE  Pending(n)'
        BY <1>4, <1>5, <2>1, <3>1 DEF Pending
      <3>2. \A n : n = next => Pending(n)'
        BY <1>2, <1>4, <2>1 DEF Pending
      <3>3. \A n \in 1 .. next' - 1 : n \in 1 .. next - 1 \/ n = next
        BY <1>1
      <3>4. QED
        BY <1>1, <2>3, <3>1, <3>2, <3>3 DEF WorkInv, Results
    <2>11. QED
      BY <2>2, <2>3, <2>4, <2>8, <2>9, <2>10 DEF WorkInv
  <1>6. CASE /\ Q!Quiet /\ queued' = queued /\ flushing' = flushing
             /\ running' = [running EXCEPT ![MainThread] = f]
             /\ stage' = [stage EXCEPT ![MainThread] = "fetch"]
    <2>1. \A r \in Runners : running[r] = NoFunc /\ stage[r] = "none"
      BY <1>6, AllWhole
    <2>2. queued = <<>> /\ Len(queued) = 0
      BY <1>6, EmptySeq DEF Q!Quiet
    <2>3. /\ running'[MainThread] = f /\ stage'[MainThread] = "fetch"
          /\ \A r \in Runners : r # MainThread => running'[r] = NoFunc /\ stage'[r] = "none"
      BY <1>6, <2>1, MainIsRunner DEF WorkInv, WorkTypes
    <2>4. WorkTypes'
      <3>1. running' \in [Runners -> CompileFuncs \cup {NoFunc}]
        BY <1>6 DEF WorkInv, WorkTypes
      <3>2. stage' \in [Runners -> {"none", "fetch", "clone", "compile", "end"}]
        BY <1>6 DEF WorkInv, WorkTypes
      <3>3. QED
        BY <1>1, <1>6, <3>1, <3>2 DEF WorkInv, WorkTypes
    <2>5. ModuleTypes' /\ Copies' /\ Live' = Live
      BY <1>1, <2>1, <2>3, ModulesLeft
    <2>6. Stages'
      BY <1>2, <2>3 DEF Stages
    <2>7. OfTheKernel(f)'
      BY <1>1, <1>2 DEF OfTheKernel
    <2>8. TasksKnown'
      BY <1>6, <2>2, <2>3, <2>7 DEF TasksKnown
    <2>9. Waiting'
      BY <1>1, <1>6 DEF WorkInv, Waiting
    <2>10. Results'
      <3>1. \A n : ~Pending(n)
        BY <2>1, <2>2 DEF Pending
      <3>2. \A n : n = next => Pending(n)'
        BY <1>2, <2>3, MainIsRunner DEF Pending
      <3>3. \A n \in 1 .. next' - 1 : n \in 1 .. next - 1 \/ n = next
        BY <1>1
      <3>4. QED
        BY <1>1, <2>5, <3>1, <3>2, <3>3 DEF WorkInv, Results
    <2>11. QED
      BY <2>4, <2>5, <2>6, <2>8, <2>9, <2>10 DEF WorkInv
  <1>7. QED
    BY <1>3, <1>5, <1>6

LEMMA FlushAndLinkWork ==
  ASSUME WorkInv, CallFlushOf \/ FlushReturns \/ Link
  PROVE  WorkInv'
  <1>1. /\ UNCHANGED <<treeVars, moduleVars, kernels, uses, next, data, taskVars, workers>>
        /\ UNCHANGED <<queued, running>>
        /\ main # "idle"
    BY DEF CallFlushOf, FlushReturns, Link, Q!Flush, Q!Return, poolVars
  <1>2. WorkTypes'
    BY <1>1 DEF WorkInv, WorkTypes, taskVars, CallFlushOf, FlushReturns, Link
  <1>3. ModuleTypes' /\ Copies' /\ Live' = Live
    BY <1>1, ModulesLeft DEF taskVars
  <1>4. Stages' /\ TasksKnown'
    BY <1>1 DEF WorkInv, Stages, TasksKnown, OfTheKernel, taskVars, moduleVars
  <1>5. Results'
    BY <1>1, <1>3 DEF WorkInv, Results, Pending
  <1>6. Waiting'
    <2>1. CASE CallFlushOf
      <3>1. main' = "flush" /\ flushing' /\ next = Len(uses) + 1
        BY <2>1 DEF CallFlushOf, Q!Flush, WorkInv, WorkTypes
      <3>2. QED
        BY <1>1, <3>1 DEF Waiting
    <2>2. CASE FlushReturns
      <3>1. main' = "link" /\ ~flushing' /\ Q!Quiet /\ next = Len(uses) + 1
        BY <2>2 DEF FlushReturns, Q!Return, WorkInv, Waiting
      <3>2. QED
        BY <1>1, <3>1 DEF Waiting, Q!Quiet
    <2>3. CASE Link
      BY <1>1, <2>3 DEF Link, WorkInv, Waiting, Q!Quiet, poolVars
    <2>4. QED
      BY <2>1, <2>2, <2>3
  <1>7. QED
    BY <1>2, <1>3, <1>4, <1>5, <1>6 DEF WorkInv

-----------------------------------------------------------------------------
(* Steps of a task.                                                        *)

\* A task runs only while its kernel is being compiled.
LEMMA AtWork ==
  ASSUME WorkInv, NEW r \in Runners, stage[r] # "none"
  PROVE  /\ main \notin {"idle", "link"}
         /\ running[r] # NoFunc /\ running[r] \in CompileFuncs
         /\ running[r].offload \in 1 .. Len(uses)
  <1>1. running[r] # NoFunc
    BY DEF WorkInv, Stages
  <1>2. main \notin {"idle", "link"}
    BY <1>1 DEF WorkInv, Waiting, Q!Quiet
  <1>3. running[r].offload \in 1 .. next - 1
    BY <1>1 DEF WorkInv, TasksKnown, OfTheKernel
  <1>4. QED
    BY <1>1, <1>2, <1>3 DEF WorkInv, WorkTypes

LEMMA StartTaskWork ==
  ASSUME WorkInv, NEW r \in Runners, StartTask(r)
  PROVE  WorkInv'
  <1>1. /\ r \in workers /\ queued # <<>> /\ running[r] = NoFunc
        /\ running' = [running EXCEPT ![r] = Head(queued)]
        /\ queued' = Tail(queued) /\ flushing' = flushing
        /\ stage[r] = "none" /\ stage' = [stage EXCEPT ![r] = "fetch"]
        /\ UNCHANGED <<treeVars, moduleVars, kernelVars, todo, workers>>
    BY DEF StartTask, Proceeds, Q!Begin
  <1>2. UNCHANGED <<main, kernels, uses, next, data>>
    BY <1>1 DEF kernelVars
  <1>3. /\ Head(queued) = queued[1] /\ Head(queued) \in CompileFuncs
        /\ Len(queued) \in Nat \ {0}
        /\ queued' \in Seq(CompileFuncs) /\ Len(queued') = Len(queued) - 1
        /\ \A k \in 1 .. Len(queued) - 1 : queued'[k] = queued[k + 1]
    BY <1>1, FirstFunc DEF WorkInv
  <1>4. Head(queued) # NoFunc
    BY <1>3, Funcs
  <1>5. /\ running'[r] = Head(queued) /\ stage'[r] = "fetch"
        /\ \A q \in Runners : q # r => running'[q] = running[q] /\ stage'[q] = stage[q]
    BY <1>1 DEF WorkInv, WorkTypes
  <1>6. WorkTypes'
    BY <1>1, <1>2, <1>3 DEF WorkInv, WorkTypes
  <1>7. ModuleTypes' /\ Copies' /\ Live' = Live
    BY <1>1, <1>5, ModulesLeft
  <1>8. Stages'
    BY <1>1, <1>2, <1>4, <1>5 DEF WorkInv, Stages, moduleVars
  <1>9. TasksKnown'
    <2>1. \A g : OfTheKernel(g) <=> OfTheKernel(g)'
      BY <1>2 DEF OfTheKernel
    <2>2. OfTheKernel(Head(queued))
      BY <1>3 DEF WorkInv, TasksKnown
    <2>3. \A k \in 1 .. Len(queued') : OfTheKernel(queued'[k])
      BY <1>3 DEF WorkInv, TasksKnown
    <2>4. \A q \in Runners : running'[q] # NoFunc => OfTheKernel(running'[q])
      BY <1>5, <2>2 DEF WorkInv, TasksKnown
    <2>5. QED
      BY <2>1, <2>3, <2>4 DEF TasksKnown
  <1>10. Waiting'
    BY <1>1, <1>2 DEF WorkInv, Waiting, Q!Quiet
  <1>11. Results'
    <2>1. ASSUME NEW n, Pending(n)
          PROVE  Pending(n)'
      <3>1. CASE \E q \in Runners : running[q] # NoFunc /\ running[q].offload = n
        BY <1>1, <1>5, <3>1 DEF Pending
      <3>2. CASE \E k \in 1 .. Len(queued) : queued[k].offload = n
        <4>1. PICK k \in 1 .. Len(queued) : queued[k].offload = n
          BY <3>2
        <4>2. CASE k = 1
          BY <1>3, <1>4, <1>5, <4>1, <4>2 DEF Pending
        <4>3. CASE k # 1
          <5>1. k - 1 \in 1 .. Len(queued') /\ queued'[k - 1] = queued[k]
            BY <1>3, <4>1, <4>3
          <5>2. QED
            BY <4>1, <5>1 DEF Pending
        <4>4. QED
          BY <4>2, <4>3
      <3>3. QED
        BY <2>1, <3>1, <3>2 DEF Pending
    <2>2. QED
      BY <1>2, <1>7, <2>1 DEF WorkInv, Results
  <1>12. QED
    BY <1>6, <1>7, <1>8, <1>9, <1>10, <1>11 DEF WorkInv

\* Steps that change only the stage of a task, what is left to clone, and copies.
LEMMA FetchingWork ==
  ASSUME WorkInv, NEW r \in Runners,
         stage[r] # "none", stage'[r] \notin {"none", "end"},
         stage' = [stage EXCEPT ![r] = stage'[r]],
         stage'[r] \in {"fetch", "clone", "compile"},
         stage'[r] \in {"clone", "compile"} => r \in per_thread_data_',
         per_thread_data_ \subseteq per_thread_data_',
         todo' \in [Runners -> SUBSET Ids],
         UNCHANGED <<treeVars, kernelVars, poolVars>>
  PROVE  WorkTypes' /\ Stages' /\ TasksKnown' /\ Waiting' /\ Results' /\ Live' = Live
  <1>1. UNCHANGED <<main, kernels, uses, next, data, queued, running, flushing, workers>>
    BY DEF kernelVars, poolVars
  <1>2. \A q \in Runners : q # r => stage'[q] = stage[q]
    BY DEF WorkInv, WorkTypes
  <1>3. WorkTypes'
    BY <1>1 DEF WorkInv, WorkTypes
  <1>4. Stages'
    BY <1>1, <1>2 DEF WorkInv, Stages
  <1>5. TasksKnown' /\ Waiting'
    BY <1>1 DEF WorkInv, TasksKnown, OfTheKernel, Waiting, Q!Quiet
  <1>6. Live' = Live
    BY DEF Live, Created, treeVars
  <1>7. Results'
    BY <1>1, <1>6 DEF WorkInv, Results, Pending
  <1>8. QED
    BY <1>3, <1>4, <1>5, <1>6, <1>7

LEMMA FetchModulesWork ==
  ASSUME WorkInv, NEW r \in Runners, FetchModules(r)
  PROVE  WorkInv'
  <1>1. /\ stage[r] = "fetch" /\ per_thread_data_' = per_thread_data_ \cup {r}
        /\ UNCHANGED <<treeVars, struct_modules, kernelVars, poolVars>>
        /\ \/ /\ struct_modules[r] = NoModules
              /\ stage' = [stage EXCEPT ![r] = "clone"]
              /\ todo' = [todo EXCEPT ![r] = {i \in Ids : ModuleOf(i) # None}]
           \/ /\ struct_modules[r] # NoModules
              /\ stage' = [stage EXCEPT ![r] = "compile"]
              /\ todo' = todo
    BY DEF FetchModules, Proceeds, ModuleOf
  <1>2. stage'[r] \in {"clone", "compile"} /\ stage' = [stage EXCEPT ![r] = stage'[r]]
    BY <1>1 DEF WorkInv, WorkTypes
  <1>3. todo' \in [Runners -> SUBSET Ids]
    BY <1>1 DEF WorkInv, WorkTypes
  <1>4. WorkTypes' /\ Stages' /\ TasksKnown' /\ Waiting' /\ Results' /\ Live' = Live
    BY <1>1, <1>2, <1>3, FetchingWork
  <1>5. ModuleTypes'
    BY <1>1 DEF WorkInv, ModuleTypes
  <1>6. \A q \in Runners : q # r => stage'[q] = stage[q] /\ todo'[q] = todo[q]
    BY <1>1 DEF WorkInv, WorkTypes
  <1>7. id_' = id_ /\ struct_modules' = struct_modules
    BY <1>1 DEF treeVars
  <1>8. Copies'
    <2>1. ASSUME NEW q \in Runners
          PROVE  /\ q \notin per_thread_data_' => struct_modules[q] = NoModules
                 /\ q \in per_thread_data_' /\ stage'[q] # "clone" =>
                      struct_modules[q] = struct_modules[MainThread]
                 /\ stage'[q] = "clone" =>
                      \A i \in Ids :
                        struct_modules[q][i] = IF i \in todo'[q] THEN None ELSE ModuleOf(i)
      <3>1. CASE q # r
        BY <1>1, <1>6, <3>1 DEF WorkInv, Copies
      <3>2. CASE q = r /\ struct_modules[r] = NoModules
        <4>1. stage'[r] = "clone" /\ todo'[r] = {i \in Ids : ModuleOf(i) # None}
          BY <1>1, <3>2 DEF WorkInv, WorkTypes
        <4>2. r \in per_thread_data_' /\ \A i \in Ids : struct_modules[r][i] = None
          BY <1>1, <3>2 DEF NoModules
        <4>3. QED
          BY <3>2, <4>1, <4>2
      <3>3. CASE q = r /\ struct_modules[r] # NoModules
        <4>1. r \in per_thread_data_ /\ stage'[r] = "compile"
          BY <1>1, <3>3 DEF WorkInv, WorkTypes, Copies
        <4>2. struct_modules[r] = struct_modules[MainThread]
          BY <1>1, <4>1 DEF WorkInv, Copies
        <4>3. QED
          BY <1>1, <3>3, <4>1, <4>2
      <3>4. QED
        BY <3>1, <3>2, <3>3
    <2>2. QED
      BY <1>4, <1>7, <2>1 DEF WorkInv, Copies, ModuleOf
  <1>9. QED
    BY <1>4, <1>5, <1>8 DEF WorkInv

LEMMA CloneModuleWork ==
  ASSUME WorkInv, NEW r \in Runners, NEW i \in Ids, CloneModule(r, i)
  PROVE  WorkInv'
  <1>1. /\ stage[r] = "clone" /\ i \in todo[r]
        /\ struct_modules' = [struct_modules EXCEPT ![r][i] = struct_modules[MainThread][i]]
        /\ todo' = [todo EXCEPT ![r] = todo[r] \ {i}]
        /\ UNCHANGED <<treeVars, per_thread_data_, kernelVars, stage, poolVars>>
    BY DEF CloneModule
  <1>2. stage' = [stage EXCEPT ![r] = stage'[r]] /\ stage'[r] = "clone"
    BY <1>1 DEF WorkInv, WorkTypes
  <1>3. todo' \in [Runners -> SUBSET Ids]
    BY <1>1 DEF WorkInv, WorkTypes
  <1>4. r \in per_thread_data_
    BY <1>1 DEF WorkInv, Stages
  <1>5. WorkTypes' /\ Stages' /\ TasksKnown' /\ Waiting' /\ Results' /\ Live' = Live
    BY <1>1, <1>2, <1>3, <1>4, FetchingWork
  <1>6. struct_modules \in [Owners -> [Ids -> {None} \cup Trees]] /\ r \in Owners
        /\ MainThread \in Owners /\ Linking \in Owners /\ r # Linking /\ MainThread # Linking
    BY MainIsRunner DEF WorkInv, ModuleTypes
  <1>7. /\ \A o \in Owners : o # r => struct_modules'[o] = struct_modules[o]
        /\ struct_modules'[r] = [struct_modules[r] EXCEPT ![i] = ModuleOf(i)]
    BY <1>1, <1>6 DEF ModuleOf
  <1>8. struct_modules'[MainThread] = struct_modules[MainThread]
    <2>1. CASE r = MainThread
      BY <1>6, <1>7, <2>1 DEF ModuleOf
    <2>2. QED
      BY <1>6, <1>7, <2>1
  <1>9. ModuleTypes'
    <2>1. struct_modules'[r] \in [Ids -> {None} \cup Trees]
      BY <1>6, <1>7 DEF ModuleOf
    <2>2. QED
      BY <1>1, <1>6, <2>1 DEF WorkInv, ModuleTypes
  <1>10. Copies'
    <2>1. \A q \in Runners : q # r => /\ todo'[q] = todo[q]
                                      /\ struct_modules'[q] = struct_modules[q]
      BY <1>1, <1>7, MainIsRunner DEF WorkInv, WorkTypes
    <2>2. \A j \in Ids : struct_modules'[r][j] = IF j \in todo'[r] THEN None ELSE ModuleOf(j)
      <3>1. \A j \in Ids : struct_modules[r][j] = IF j \in todo[r] THEN None ELSE ModuleOf(j)
        BY <1>1 DEF WorkInv, Copies
      <3>2. todo'[r] = todo[r] \ {i}
        BY <1>1 DEF WorkInv, WorkTypes
      <3>3. \A j \in Ids : struct_modules'[r][j] = IF j = i THEN ModuleOf(i) ELSE struct_modules[r][j]
        BY <1>6, <1>7
      <3>4. QED
        BY <3>1, <3>2, <3>3
    <2>3. struct_modules'[Linking] = struct_modules'[MainThread]
      BY <1>6, <1>7, <1>8 DEF WorkInv, Copies
    <2>4. UNCHANGED <<id_, stage, per_thread_data_>>
      BY <1>1 DEF treeVars
    <2>5. \A v \in Live' : struct_modules'[MainThread][id_'[v]] = v
      BY <1>5, <1>8, <2>4 DEF WorkInv, Copies, ModuleOf
    <2>6. ASSUME NEW q \in Runners
          PROVE  /\ q \notin per_thread_data_' => struct_modules'[q] = NoModules
                 /\ q \in per_thread_data_' /\ stage'[q] # "clone" =>
                      struct_modules'[q] = struct_modules'[MainThread]
                 /\ stage'[q] = "clone" =>
                      \A j \in Ids :
                        struct_modules'[q][j] =
                          IF j \in todo'[q] THEN None ELSE struct_modules'[MainThread][j]
      <3>1. CASE q = r
        BY <1>1, <1>4, <1>8, <2>2, <2>4, <3>1 DEF ModuleOf
      <3>2. CASE q # r
        BY <1>8, <2>1, <2>4, <3>2 DEF WorkInv, Copies, ModuleOf
      <3>3. QED
        BY <3>1, <3>2
    <2>7. QED
      BY <2>3, <2>5, <2>6 DEF Copies, ModuleOf
  <1>11. QED
    BY <1>5, <1>9, <1>10 DEF WorkInv

LEMMA AllClonedWork ==
  ASSUME WorkInv, NEW r \in Runners, AllCloned(r)
  PROVE  WorkInv'
  <1>1. /\ stage[r] = "clone" /\ todo[r] = {}
        /\ stage' = [stage EXCEPT ![r] = "compile"]
        /\ UNCHANGED <<treeVars, moduleVars, kernelVars, todo, poolVars>>
    BY DEF AllCloned, Proceeds
  <1>2. UNCHANGED <<struct_modules, per_thread_data_>>
    BY <1>1 DEF moduleVars
  <1>3. /\ stage'[r] = "compile" /\ stage' = [stage EXCEPT ![r] = stage'[r]]
        /\ \A q \in Runners : q # r => stage'[q] = stage[q]
    BY <1>1 DEF WorkInv, WorkTypes
  <1>4. r \in per_thread_data_
    BY <1>1 DEF WorkInv, Stages
  <1>5. todo' \in [Runners -> SUBSET Ids]
    BY <1>1 DEF WorkInv, WorkTypes
  <1>6. WorkTypes' /\ Stages' /\ TasksKnown' /\ Waiting' /\ Results' /\ Live' = Live
    BY <1>1, <1>2, <1>3, <1>4, <1>5, FetchingWork
  <1>7. struct_modules[r] = struct_modules[MainThread]
    <2>1. \A i \in Ids : struct_modules[r][i] = struct_modules[MainThread][i]
      BY <1>1 DEF WorkInv, Copies, ModuleOf
    <2>2. /\ struct_modules[r] \in [Ids -> {None} \cup Trees]
          /\ struct_modules[MainThread] \in [Ids -> {None} \cup Trees]
      BY MainIsRunner DEF WorkInv, ModuleTypes
    <2>3. QED
      BY <2>1, <2>2
  <1>8. ModuleTypes'
    BY <1>2 DEF WorkInv, ModuleTypes
  <1>9. Copies'
    BY <1>1, <1>2, <1>3, <1>4, <1>6, <1>7 DEF WorkInv, Copies, ModuleOf, treeVars
  <1>10. QED
    BY <1>6, <1>8, <1>9 DEF WorkInv

\* A thread that compiles has the modules of the trees that are alive.
LEMMA FoundTrees ==
  ASSUME TreeTypes, WorkInv, NEW r \in Runners, stage[r] = "compile",
         uses[running[r].offload] \subseteq Live
  PROVE  Found(r) = uses[running[r].offload] /\ None \notin Found(r)
  <1>1. struct_modules[r] = struct_modules[MainThread]
    BY DEF WorkInv, Stages, Copies
  <1>2. \A v \in uses[running[r].offload] : struct_modules[r][id_[v]] = v
    BY <1>1 DEF WorkInv, Copies, ModuleOf
  <1>3. Found(r) = uses[running[r].offload]
    BY <1>2 DEF Found
  <1>4. None \notin Live
    BY LiveTrees DEF None, Trees
  <1>5. QED
    BY <1>3, <1>4

LEMMA CompileTaskWork ==
  ASSUME TreeTypes, WorkInv, NEW r \in Runners, CompileTask(r)
  PROVE  WorkInv'
  <1>1. /\ stage[r] = "compile" /\ stage' = [stage EXCEPT ![r] = "end"]
        /\ data' = [data EXCEPT ![running[r].offload] = Compiled(Found(r))]
        /\ UNCHANGED <<treeVars, moduleVars, main, kernels, uses, next, todo, poolVars>>
    BY DEF CompileTask, Proceeds
  <1>2. /\ main \notin {"idle", "link"} /\ running[r] # NoFunc
        /\ running[r].offload \in 1 .. Len(uses)
    BY <1>1, AtWork
  <1>3. /\ stage'[r] = "end" /\ \A q \in Runners : q # r => stage'[q] = stage[q]
    BY <1>1 DEF WorkInv, WorkTypes
  <1>4. UNCHANGED <<queued, running, flushing, workers, struct_modules, per_thread_data_, id_>>
    BY <1>1 DEF poolVars, moduleVars, treeVars
  <1>5. /\ data' = [n \in 1 .. Len(uses) |-> data'[n]]
        /\ data'[running[r].offload] = Compiled(Found(r))
        /\ \A n \in 1 .. Len(uses) : n # running[r].offload => data'[n] = data[n]
    <2>1. data = [n \in 1 .. Len(uses) |-> data[n]]
      BY DEF WorkInv, WorkTypes
    <2>2. DOMAIN data = 1 .. Len(uses)
      BY <2>1
    <2>3. QED
      BY <1>1, <1>2, <2>1, <2>2
  <1>6. /\ Compiled(Found(r)).done /\ Compiled(Found(r)).against = Found(r)
    BY DEF Compiled
  <1>7. WorkTypes'
    BY <1>1, <1>4, <1>5 DEF WorkInv, WorkTypes
  <1>8. ModuleTypes' /\ Copies' /\ Live' = Live
    BY <1>1, <1>3, ModulesLeft
  <1>9. Stages'
    <2>1. ASSUME NEW q \in Runners
          PROVE  stage'[q] = "end" => data'[running[q].offload].done
      <3>1. CASE q = r
        BY <1>5, <1>6, <3>1
      <3>2. CASE q # r /\ stage[q] = "end"
        <4>1. running[q].offload \in 1 .. Len(uses)
          BY <3>2, AtWork
        <4>2. QED
          BY <1>5, <1>6, <3>2, <4>1 DEF WorkInv, Stages
      <3>3. QED
        BY <1>3, <3>1, <3>2
    <2>2. QED
      BY <1>1, <1>3, <1>4, <2>1 DEF WorkInv, Stages
  <1>10. TasksKnown' /\ Waiting'
    BY <1>1, <1>4 DEF WorkInv, TasksKnown, OfTheKernel, Waiting, Q!Quiet
  <1>11. Results'
    <2>1. \A n : Pending(n)' <=> Pending(n)
      BY <1>4 DEF Pending
    <2>2. ASSUME NEW n \in 1 .. Len(uses), data'[n].done, uses[n] \subseteq Live
          PROVE  data'[n].against = uses[n]
      <3>1. CASE n = running[r].offload
        BY <1>1, <1>5, <1>6, <2>2, <3>1, FoundTrees
      <3>2. CASE n # running[r].offload
        BY <1>2, <1>5, <2>2, <3>2 DEF WorkInv, Results
      <3>3. QED
        BY <3>1, <3>2
    <2>3. ASSUME NEW n \in 1 .. next - 1
          PROVE  data'[n].done \/ Pending(n)
      <3>1. n \in 1 .. Len(uses)
        BY DEF WorkInv, WorkTypes
      <3>2. QED
        BY <1>2, <1>5, <1>6, <2>3, <3>1 DEF WorkInv, Results
    <2>4. QED
      BY <1>1, <1>8, <2>1, <2>2, <2>3 DEF Results
  <1>12. QED
    BY <1>7, <1>8, <1>9, <1>10, <1>11 DEF WorkInv

LEMMA ModuleMissingWork ==
  ASSUME TreeTypes, WorkInv, NEW r \in Runners, ModuleMissing(r)
  PROVE  /\ WorkInv'
         /\ running'[r] # NoFunc /\ ~(uses'[running'[r].offload] \subseteq Live')
  <1>1. /\ stage[r] = "compile" /\ None \in Found(r) /\ main' = "crashed"
        /\ UNCHANGED <<treeVars, moduleVars, kernels, uses, next, data, taskVars, poolVars>>
    BY DEF ModuleMissing
  <1>2. /\ main \notin {"idle", "link"} /\ running[r] # NoFunc
    BY <1>1, AtWork
  <1>3. UNCHANGED <<queued, running, flushing, workers, stage, todo>>
    BY <1>1 DEF poolVars, taskVars
  <1>4. ModuleTypes' /\ Copies' /\ Live' = Live
    BY <1>1, <1>3, ModulesLeft
  <1>5. WorkTypes'
    BY <1>1, <1>2, <1>3 DEF WorkInv, WorkTypes
  <1>6. Stages' /\ TasksKnown' /\ Waiting'
    BY <1>1, <1>3 DEF WorkInv, Stages, TasksKnown, OfTheKernel, Waiting, moduleVars
  <1>7. Results'
    BY <1>1, <1>2, <1>3, <1>4 DEF WorkInv, Results, Pending
  <1>8. ~(uses[running[r].offload] \subseteq Live)
    BY <1>1, FoundTrees
  <1>9. QED
    BY <1>1, <1>2, <1>3, <1>4, <1>5, <1>6, <1>7, <1>8 DEF WorkInv

LEMMA EndTaskWork ==
  ASSUME WorkInv, NEW r \in Runners, EndTask(r)
  PROVE  WorkInv'
  <1>1. /\ stage[r] = "end" /\ stage' = [stage EXCEPT ![r] = "none"]
        /\ running' = [running EXCEPT ![r] = NoFunc]
        /\ UNCHANGED <<queued, flushing>>
        /\ UNCHANGED <<treeVars, moduleVars, kernelVars, todo, workers>>
    BY DEF EndTask, Proceeds, Q!End
  <1>2. /\ main \notin {"idle", "link"} /\ running[r] # NoFunc
        /\ running[r].offload \in 1 .. Len(uses)
    BY <1>1, AtWork
  <1>3. UNCHANGED <<main, kernels, uses, next, data>>
    BY <1>1 DEF kernelVars
  <1>4. /\ running'[r] = NoFunc /\ stage'[r] = "none"
        /\ \A q \in Runners : q # r => running'[q] = running[q] /\ stage'[q] = stage[q]
    BY <1>1 DEF WorkInv, WorkTypes
  <1>5. WorkTypes'
    <2>1. running' \in [Runners -> CompileFuncs \cup {NoFunc}]
      BY <1>1 DEF WorkInv, WorkTypes
    <2>2. stage' \in [Runners -> {"none", "fetch", "clone", "compile", "end"}]
      BY <1>1 DEF WorkInv, WorkTypes
    <2>3. QED
      BY <1>1, <1>3, <2>1, <2>2 DEF WorkInv, WorkTypes
  <1>6. ModuleTypes' /\ Copies' /\ Live' = Live
    BY <1>1, <1>4, ModulesLeft
  <1>7. Stages'
    BY <1>1, <1>3, <1>4 DEF WorkInv, Stages, moduleVars
  <1>8. TasksKnown'
    BY <1>1, <1>3, <1>4 DEF WorkInv, TasksKnown, OfTheKernel
  <1>9. Waiting'
    BY <1>1, <1>2, <1>3 DEF WorkInv, Waiting
  <1>10. Results'
    <2>1. ASSUME NEW n \in 1 .. next - 1, Pending(n), ~data[n].done
          PROVE  Pending(n)'
      <3>1. \A q \in Runners : running[q] # NoFunc /\ running[q].offload = n => q # r
        BY <1>1, <2>1 DEF WorkInv, Stages
      <3>2. QED
        BY <1>1, <1>4, <2>1, <3>1 DEF Pending
    <2>2. QED
      BY <1>2, <1>3, <1>6, <2>1 DEF WorkInv, Results
  <1>11. QED
    BY <1>5, <1>6, <1>7, <1>8, <1>9, <1>10 DEF WorkInv

-----------------------------------------------------------------------------
LEMMA TreesStutter ==
  ASSUME TreesInv, WorkInv, UNCHANGED sntVars
  PROVE  TreesInv' /\ WorkInv'
  <1>1. UNCHANGED <<treeVars, moduleVars, kernelVars, taskVars, poolVars>>
    BY DEF sntVars
  <1>2. TreesInv'
    BY <1>1, TreesStep
  <1>3. UNCHANGED <<main, kernels, uses, next, data, stage, todo, workers, queued,
                    running, flushing>>
    BY <1>1 DEF kernelVars, taskVars, poolVars
  <1>4. ModuleTypes' /\ Copies' /\ Live' = Live
    BY <1>1, <1>3, ModulesLeft
  <1>5. WorkTypes'
    BY <1>3 DEF WorkInv, WorkTypes
  <1>6. Stages' /\ TasksKnown' /\ Waiting'
    BY <1>1, <1>3 DEF WorkInv, Stages, TasksKnown, OfTheKernel, Waiting, Q!Quiet, moduleVars
  <1>7. Results'
    BY <1>3, <1>4 DEF WorkInv, Results, Pending
  <1>8. QED
    BY <1>2, <1>4, <1>5, <1>6, <1>7 DEF WorkInv

LEMMA RunnerWork ==
  ASSUME TreesInv, WorkInv, NEW r \in Runners, RunnerRuns(r)
  PROVE  TreesInv' /\ WorkInv'
  <1>1. UNCHANGED treeVars
    BY DEF RunnerRuns, StartTask, FetchModules, AllCloned, CloneModule, CompileTask,
           ModuleMissing, EndTask
  <1>2. TreeTypes
    BY DEF TreesInv
  <1>3. QED
    BY <1>1, <1>2, TreesStep, StartTaskWork, FetchModulesWork, CloneModuleWork,
       AllClonedWork, CompileTaskWork, ModuleMissingWork, EndTaskWork
    DEF RunnerRuns

LEMMA TreesNextInv ==
  ASSUME TreesInv, WorkInv, TreesNext
  PROVE  TreesInv' /\ WorkInv'
  <1>1. ASSUME \/ \E v \in Trees, i \in Ids : AddTree(v, i) \/ AddTreeFails(v, i)
               \/ \E v \in Trees : DestroyTree(v)
        PROVE  TreesInv' /\ WorkInv'
    BY <1>1, TreesStep, TreeOperations
  <1>2. ASSUME UserKernel \/ DeactivationKernel
        PROVE  TreesInv' /\ WorkInv'
    <2>1. UNCHANGED treeVars
      BY <1>2 DEF UserKernel, DeactivationKernel, BeginKernel
    <2>2. QED
      BY <1>2, <2>1, TreesStep, BeginWork
  <1>3. ASSUME MainRuns
        PROVE  TreesInv' /\ WorkInv'
    <2>1. UNCHANGED treeVars
      BY <1>3 DEF MainRuns, EnqueueOffload, CallFlushOf, FlushReturns, Link
    <2>2. QED
      BY <1>3, <2>1, TreesStep, EnqueueWork, FlushAndLinkWork DEF MainRuns
  <1>4. ASSUME ProgramEnds
        PROVE  TreesInv' /\ WorkInv'
    BY <1>4, TreesStutter DEF ProgramEnds
  <1>5. QED
    BY <1>1, <1>2, <1>3, <1>4, RunnerWork DEF TreesNext, ProgramChooses

\* The ids, the metadata, every copy of the struct modules and the progress of
\* the kernel being compiled always agree.
THEOREM TreesInvariance == TreesSpec => [](TreesInv /\ WorkInv)
  <1>1. TreesInit => TreesInv /\ WorkInv
    BY InitWork
  <1>2. (TreesInv /\ WorkInv) /\ [TreesNext]_sntVars => (TreesInv /\ WorkInv)'
    BY TreesNextInv, TreesStutter
  <1>3. QED
    BY <1>1, <1>2, PTL DEF TreesSpec

\* allocate_snode_tree_id() never hands out an id that is in use, whatever was
\* destroyed and whatever materializations failed.
THEOREM TreeIdsUnique == TreesSpec => []IdsInUseOnce
  <1>1. TreesInv => IdsInUseOnce
    BY DistinctIds DEF TreesInv
  <1>2. QED
    BY <1>1, TreesInvariance, PTL

\* The assertions of delete_snode_tree() hold whenever a tree can be destroyed:
\* every thread has a module to erase, and it is that of the tree.
THEOREM EraseAssertionsHold == TreesSpec => []ModulesErasable
  <1>1. ASSUME TreesInv, WorkInv, main = "idle"
        PROVE  \A v \in Live, o \in per_thread_data_ \cup {Linking} :
                 struct_modules[o][id_[v]] = v
    <2>1. Q!Quiet
      BY <1>1 DEF WorkInv, Waiting
    <2>2. \A o \in per_thread_data_ \cup {Linking} :
            struct_modules[o] = struct_modules[MainThread]
      BY <1>1, <2>1, AllWhole
    <2>3. QED
      BY <1>1, <2>2 DEF WorkInv, Copies, ModuleOf
  <1>2. TreesInv /\ WorkInv => ModulesErasable
    BY <1>1 DEF ModulesErasable
  <1>3. QED
    BY <1>2, TreesInvariance, PTL

\* Nothing is compiled while trees come and go, and no task outlives the call
\* whose locals it captured.
THEOREM NoTaskOutlivesItsKernel == TreesSpec => []TasksOfTheKernel
  <1>1. WorkInv => TasksOfTheKernel
    BY DEF WorkInv, Waiting, TasksKnown, OfTheKernel, TasksOfTheKernel
  <1>2. QED
    BY <1>1, TreesInvariance, PTL

\* When a kernel is linked every offload has been compiled, against the modules
\* of the trees it uses and no others.
LEMMA ModulesLinked == TreesSpec => []LinkedModules
  <1>1. ASSUME TreesInv, WorkInv, main = "link", NEW n \in 1 .. Len(uses)
        PROVE  /\ data[n].done
               /\ uses[n] \subseteq Live =>
                    /\ data[n].against = uses[n]
                    /\ \A v \in uses[n] : struct_modules[Linking][id_[v]] = v
    <2>1. Q!Quiet /\ next = Len(uses) + 1
      BY <1>1 DEF WorkInv, Waiting
    <2>2. Len(uses) \in Nat
      BY <1>1 DEF WorkInv, WorkTypes
    <2>3. ~Pending(n)
      <3>1. queued = <<>> /\ Len(queued) = 0
        BY <2>1, EmptySeq DEF Q!Quiet
      <3>2. QED
        BY <2>1, <3>1 DEF Pending, Q!Quiet
    <2>4. data[n].done
      BY <1>1, <2>1, <2>2, <2>3 DEF WorkInv, Results
    <2>5. \A v \in Live : struct_modules[Linking][id_[v]] = v
      BY <1>1 DEF WorkInv, Copies, ModuleOf
    <2>6. QED
      BY <1>1, <2>4, <2>5 DEF WorkInv, Results
  <1>2. TreesInv /\ WorkInv => LinkedModules
    BY <1>1 DEF LinkedModules
  <1>3. QED
    BY <1>2, TreesInvariance, PTL

\* A task misses a module only if it uses a tree that is not alive.
LEMMA OnlyDestroyedTreesMissing == TreesSpec => []LiveModulesFound
  <1>1. TreesInit => LiveModulesFound
    BY DEF TreesInit, LiveModulesFound
  <1>2. ASSUME TreesInv, WorkInv, LiveModulesFound, [TreesNext]_sntVars
        PROVE  LiveModulesFound'
    <2>1. CASE main = "crashed"
      <3>1. UNCHANGED sntVars
        BY <1>2, <2>1
        DEF TreesNext, ProgramChooses, AddTree, AddTreeFails, CompileTree, DestroyTree,
            UserKernel, DeactivationKernel, BeginKernel, MainRuns, EnqueueOffload,
            CallFlushOf, FlushReturns, Link, RunnerRuns, ProgramEnds
      <3>2. UNCHANGED <<main, running, uses, Live>>
        BY <3>1 DEF sntVars, treeVars, kernelVars, poolVars, Live, Created
      <3>3. QED
        BY <1>2, <3>2 DEF LiveModulesFound
    <2>2. ASSUME NEW r \in Runners, ModuleMissing(r)
          PROVE  LiveModulesFound'
      BY <1>2, <2>2, ModuleMissingWork DEF TreesInv, LiveModulesFound
    <2>3. ASSUME main # "crashed", \A r \in Runners : ~ModuleMissing(r)
          PROVE  main' # "crashed"
      BY <1>2, <2>3
      DEF TreesNext, ProgramChooses, AddTree, AddTreeFails, CompileTree, DestroyTree,
          UserKernel, DeactivationKernel, BeginKernel, MainRuns, EnqueueOffload,
          CallFlushOf, FlushReturns, Link, RunnerRuns, ProgramEnds, StartTask,
          FetchModules, CloneModule, AllCloned, CompileTask, EndTask, kernelVars, sntVars
    <2>4. QED
      BY <2>1, <2>2, <2>3 DEF LiveModulesFound
  <1>3. QED
    BY <1>1, <1>2, TreesInvariance, PTL DEF TreesSpec

\* A kernel whose trees are alive becomes whole, whichever threads compile it and
\* however late they came up: every task finds the modules of those trees, and
\* these and no others are linked.
THEOREM LinkedAgainstOwnTrees == TreesSpec => []LinkedWhole
  BY ModulesLinked, OnlyDestroyedTreesMissing, PTL DEF LinkedWhole

\* The memory of a tree is laid out by its own metadata, or by those of a tree
\* whose materialization had failed with the same id.
THEOREM RootsFromOwnOrFailed == TreesSpec => []RootsOfTheirOwn
  <1>1. TreesInv => RootsOfTheirOwn
    BY DEF TreesInv
  <1>2. QED
    BY <1>1, TreesInvariance, PTL
=============================================================================
