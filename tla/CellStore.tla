----------------------------- MODULE CellStore -----------------------------
(***************************************************************************)
(* What a sparse SNode may expect of its NodeManager                       *)
(* (src/taichi/runtime/llvm/runtime_module/runtime.cpp, struct             *)
(* NodeManager): a cell is handed to one user at a time, it comes          *)
(* zero-filled, and one that was given back is handed out again only after *)
(* a garbage collection has zero-filled it.                                *)
(***************************************************************************)
EXTENDS FiniteSets

CONSTANT Cell  \* the cells there can be

VARIABLES
  held,      \* cells some SNode element points to
  returned,  \* cells given back since they were last cleaned
  dirty      \* cells whose content may differ from zero

cellVars == <<held, returned, dirty>>

CellInit == held = {} /\ returned = {} /\ dirty = {}

\* The user gets a cell and writes to it.
Take(c) ==
  /\ c \in Cell \ (held \cup returned \cup dirty)
  /\ held' = held \cup {c}
  /\ dirty' = dirty \cup {c}
  /\ UNCHANGED returned

Give(c) ==
  /\ c \in held
  /\ held' = held \ {c}
  /\ returned' = returned \cup {c}
  /\ UNCHANGED dirty

\* A collection zero-fills what was given back, all of it at once or cell by
\* cell.
Clean(cs) ==
  /\ cs # {} /\ cs \subseteq returned
  /\ returned' = returned \ cs
  /\ dirty' = dirty \ cs
  /\ UNCHANGED held

CellNext ==
  \/ \E c \in Cell : Take(c) \/ Give(c)
  \/ \E cs \in SUBSET returned : Clean(cs)

CellSpec == CellInit /\ [][CellNext]_cellVars
=============================================================================
