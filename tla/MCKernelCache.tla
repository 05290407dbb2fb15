--------------------------- MODULE MCKernelCache ---------------------------
(* Model values for KernelCache. *)
EXTENDS KernelCache

CONSTANTS p1, p2, k1, k2

TwoProcs == {p1, p2}
TwoKeys == {k1, k2}

Shared(policy) == [procs |-> TwoProcs, policy |-> policy]
Alone(policy) == [procs |-> {p1}, policy |-> policy]

AllSettings == {Shared("lru"), Shared("version"), Alone("fifo")}
SharedLru == {Shared("lru")}
=============================================================================
