--------------------------- MODULE MCKernelLoops ---------------------------
(* Instances of KernelLoops for TLC. *)
EXTENDS KernelLoops

CONSTANTS t1, t2

TwoThreads == {t1, t2}

\* An empty range, a reversed one, one across zero, one at the end of int.
SomeRanges == {<<0, 0>>, <<2, -3>>, <<-2, 3>>, <<10, 13>>}

\* One block of two elements (3 + 1 cells, three parts each); two blocks of
\* one element that is one part; two blocks that do not split evenly.
SomeShapes == {<<1, 4>>, <<2, 2>>, <<2, 3>>}
=============================================================================
