--------------------------- MODULE MCDynamicNode ---------------------------
(* Model values for DynamicNode. *)
EXTENDS DynamicNode

CONSTANTS t1, t2, t3, c1, c2, c3

TwoThreads == {t1, t2}
ThreeThreads == {t1, t2, t3}
ThreeCells == {c1, c2, c3}
=============================================================================
