--------------------------- MODULE MCNodeManager ---------------------------
(* Model values for NodeManager.  A gap in the chunks takes three threads and
   three slots, reuse after reuse takes three tasks, and the two have nothing to
   do with each other: the third thread and slot are there in the first task. *)
EXTENDS NodeManager

CONSTANTS t1, t2, t3, s1, s2, s3

ThreeThreads == {t1, t2, t3}
ThreeSlots == {s1, s2, s3}
AllArches == {"cpu", "gpu"}

TwoAfterwards ==
  tasks > 0 => \A t \in Threads : pc'[t] # "idle" => t # t3 /\ slot'[t] # s3

CrowdSpec == Init /\ [][Next /\ TwoAfterwards]_vars /\ \A t \in Threads : WF_vars(Continue(t))
=============================================================================
