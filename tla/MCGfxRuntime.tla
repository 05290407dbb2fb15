---------------------------- MODULE MCGfxRuntime ----------------------------
(* Model values for GfxRuntime. *)
EXTENDS GfxRuntime

CONSTANTS i1, i2, i3, i4, a1, a2, p, f

Buffers == {i1, i2, i3, i4}
Arrays12 == {a1, a2}
Sym == Permutations(Buffers) \cup Permutations(Arrays12)
=============================================================================
