------------------------------ MODULE MCMemory ------------------------------
(* Instances of DeviceMemory and HostMemory: the memory of a program on a GPU
   and of one on the CPU.  Neither depends on the state of the other, so that
   one rests, as it began, while the other is checked. *)
EXTENDS DeviceMemory, HostMemory, TLC

CONSTANTS d1, d2, d3, d4, h1, h2, h3

FourHandles == {d1, d2, d3, d4}
ThreeHandles == {h1, h2, h3}
BothModes == BOOLEAN

\* Odd sizes and whole pages, of one page to three, as in a program with an odd
\* ndarray beside a sparse field.
SomeSizes == {1, 2, 3, 6}

MemoryInit == Init /\ HostInit

CpuRests == chunks_ = <<>> /\ allocs = <<>> /\ programs = 1 /\ ~finalized
GpuRests == preallocated_head = 0 /\ ~merge_upon_release_

MemoryNext ==
  \/ CpuRests /\ Next /\ UNCHANGED hostVars
  \/ GpuRests /\ HostNext /\ UNCHANGED vars

MemorySpec == MemoryInit /\ [][MemoryNext]_<<vars, hostVars>>

Sym == Permutations(FourHandles) \cup Permutations(ThreeHandles)
=============================================================================
