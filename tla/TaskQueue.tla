----------------------------- MODULE TaskQueue -----------------------------
(***************************************************************************)
(* What KernelCodeGen::compile_kernel_to_module relies on when it hands    *)
(* the offloaded tasks of a kernel to LlvmProgramImpl::compilation_workers *)
(*                                                                         *)
(*     worker.enqueue(compile_func);  ...  worker.flush();                 *)
(*                                                                         *)
(* One thread, the caller, enqueues tasks; the threads of the pool take    *)
(* them in that order, each task once, and run them at the same time.      *)
(* flush() returns when no task is left and none is running.  A pool       *)
(* without threads runs a task in the caller, within enqueue().            *)
(* compile_func captures the locals of its caller by reference, so a task  *)
(* that ran after flush() had returned would write to a dead frame.        *)
(***************************************************************************)
EXTENDS Sequences

CONSTANTS
  Runners,   \* threads that may run a task, the caller among them
  Caller,    \* the thread that enqueues and flushes
  Tasks,
  NoTask     \* what an idle runner runs

VARIABLES
  queued,    \* tasks that nobody has taken yet, in order
  running,   \* what each runner is running
  flushing   \* the caller is in flush()

queueVars == <<queued, running, flushing>>

Quiet == queued = <<>> /\ \A r \in Runners : running[r] = NoTask
CallerFree == ~flushing /\ running[Caller] = NoTask

Init ==
  /\ queued = <<>>
  /\ running = [r \in Runners |-> NoTask]
  /\ flushing = FALSE

Enqueue(t) ==
  /\ CallerFree
  /\ queued' = Append(queued, t)
  /\ UNCHANGED <<running, flushing>>

\* enqueue() of a pool that has no threads.
RunInline(t) ==
  /\ CallerFree /\ Quiet
  /\ running' = [running EXCEPT ![Caller] = t]
  /\ UNCHANGED <<queued, flushing>>

\* A thread of the pool takes the first task: nobody else can take it.
Begin(r) ==
  /\ r # Caller /\ running[r] = NoTask
  /\ queued # <<>>
  /\ running' = [running EXCEPT ![r] = Head(queued)]
  /\ queued' = Tail(queued)
  /\ UNCHANGED flushing

End(r) ==
  /\ running[r] # NoTask
  /\ running' = [running EXCEPT ![r] = NoTask]
  /\ UNCHANGED <<queued, flushing>>

Flush ==
  /\ CallerFree
  /\ flushing' = TRUE
  /\ UNCHANGED <<queued, running>>

Return ==
  /\ flushing /\ Quiet
  /\ flushing' = FALSE
  /\ UNCHANGED <<queued, running>>

Work ==
  \/ \E r \in Runners : Begin(r) \/ End(r)
  \/ Return

Next ==
  \/ \E t \in Tasks : Enqueue(t) \/ RunInline(t)
  \/ Flush
  \/ Work

\* Tasks are enqueued as the program likes; what is there is worked on.
SafeSpec == Init /\ [][Next]_queueVars
Spec == SafeSpec /\ WF_queueVars(Work)
=============================================================================
