---------------------------- MODULE ParallelFor ----------------------------
(***************************************************************************)
(* What a caller of the CPU runtime's parallel_for may rely on, whatever   *)
(* the thread pool behind it does:                                         *)
(*                                                                         *)
(*     using ParallelFor = void(int n, int num_threads, void *,            *)
(*                              RangeForTaskFunc func);                    *)
(*                                                                         *)
(* A call hands over n tasks and a context.  While the call is open, idle  *)
(* threads pick tasks and run func(context, thread_id, task); every task   *)
(* is picked by exactly one thread; the call returns when no task is left  *)
(* and none is running.  Kernels compiled for the CPU (range-for,          *)
(* struct-for, mesh-for, list generation) are written against this         *)
(* contract only: they keep the context on the caller's stack, so a task   *)
(* that ran after the return would read a dead frame.                      *)
(***************************************************************************)
EXTENDS Integers

CONSTANTS
  Threads,   \* threads that may run a task
  Contexts,  \* values of the void* context argument
  Splits     \* values of n, the number of tasks of a call

Idle == [open |-> FALSE]
Resting == [busy |-> FALSE]

Call(c, n) == [open |-> TRUE, ctx |-> c, n |-> n]
Running(c, i) == [busy |-> TRUE, ctx |-> c, task |-> i]

VARIABLES
  call,      \* the call in progress, or Idle
  pending,   \* its tasks that no thread has picked yet
  active     \* what each thread is running, or Resting

vars == <<call, pending, active>>

Init ==
  /\ call = Idle
  /\ pending = {}
  /\ active = [t \in Threads |-> Resting]

\* The caller opens a call.
Enter(c, n) ==
  /\ call = Idle
  /\ call' = Call(c, n)
  /\ pending' = 0 .. n - 1
  /\ UNCHANGED active

\* Thread t picks task i: no other thread can pick it any more.
Begin(t, i) ==
  /\ call # Idle
  /\ active[t] = Resting
  /\ i \in pending
  /\ pending' = pending \ {i}
  /\ active' = [active EXCEPT ![t] = Running(call.ctx, i)]
  /\ UNCHANGED call

\* Thread t comes back from func.
End(t) ==
  /\ active[t] # Resting
  /\ active' = [active EXCEPT ![t] = Resting]
  /\ UNCHANGED <<call, pending>>

\* The caller gets control back.
Return ==
  /\ call # Idle
  /\ pending = {}
  /\ \A t \in Threads : active[t] = Resting
  /\ call' = Idle
  /\ UNCHANGED <<pending, active>>

Work ==
  \/ \E t \in Threads, i \in pending : Begin(t, i)
  \/ \E t \in Threads : End(t)
  \/ Return

Next ==
  \/ \E c \in Contexts, n \in Splits : Enter(c, n)
  \/ Work

\* Calls are opened as the program likes; an open call is worked on.
SafeSpec == Init /\ [][Next]_vars
Spec == SafeSpec /\ WF_vars(Work)
=============================================================================
