----------------------------- MODULE CompilePasses -----------------------------
(* The remaining passes a kernel of one serial task goes through              *)
(* (taichi/transforms/compile_to_offloads.cpp): common subexpression          *)
(* elimination and the passes before and after offloading.                    *)
EXTENDS SimplifyPasses

-----------------------------------------------------------------------------
(* whole_kernel_cse.cpp.  The state of a visit: the program and vis, the      *)
(* statements visible here, outermost first.                                  *)

common_statement_eliminable(ir, this, prev) ==
    /\ ir.st[this].op = ir.st[prev].op
    /\ IF ir.st[this].op = "gptr" THEN SameAddress(ir, this, prev) ELSE same_statements(ir, this, prev)

(* Statements both branches of an if begin or end with move out of it.        *)
BothBranches(ir, id) ==
    LET s == ir.st[id]
    IN s.t # 0 /\ s.f # 0 /\ ir.body[s.t] # << >> /\ ir.body[s.f] # << >>
HoistFirst(ir, id) ==
    LET t == ir.st[id].t
        f == ir.st[id].f
        b == BlockOf(ir, id)
        common == Head(ir.body[t])
    IN IF BothBranches(ir, id) /\ same_statements(ir, common, Head(ir.body[f]))
       THEN ReplaceUsages([ir EXCEPT !.body[t] = Tail(@), !.body[f] = Tail(@),
                                     !.body[b] = InsertBefore(@, id, <<common>>)],
                          Head(ir.body[f]), common)
       ELSE ir
HoistLast(ir, id) ==
    LET t == ir.st[id].t
        f == ir.st[id].f
        b == BlockOf(ir, id)
        common == Last(ir.body[t])
    IN IF BothBranches(ir, id) /\ same_statements(ir, common, Last(ir.body[f]))
       THEN [ir EXCEPT !.body[t] = Front(@), !.body[f] = Front(@),
                       !.body[b] = InsertAfter(@, id, <<common>>)]
       ELSE ir

CseEliminate(c, id) ==
    LET found == SelectSeq(c.vis, LAMBDA prev : common_statement_eliminable(c.ir, id, prev))
    IN IF found = << >> THEN [c EXCEPT !.vis = Append(@, id)]
       ELSE [c EXCEPT !.ir = GiveWay(@, id, Head(found))]

RECURSIVE CseBlock(_, _), CseStmt(_, _)
CseBlock(c, b) ==
    IF b = 0 THEN c ELSE [FoldLeft(CseStmt, c, c.ir.body[b]) EXCEPT !.vis = c.vis]
CseStmt(c, id) ==
    LET s == c.ir.st[id]
        r == HoistLast(HoistFirst(DropEmpty(c.ir, id), id), id)
    IN CASE CommonEliminable(s) -> CseEliminate(c, id)
         [] s.op = "if" -> CseBlock(CseBlock([c EXCEPT !.ir = r], r.st[id].t), r.st[id].f)
         [] IsLoop(s) -> CseBlock(c, s.t)
         [] OTHER -> c

RECURSIVE whole_kernel_cse(_)
whole_kernel_cse(ir) ==
    LET next == Collect(CseBlock([ir |-> ir, vis |-> << >>], 1).ir)
    IN IF next = ir THEN ir ELSE whole_kernel_cse(next)

-----------------------------------------------------------------------------
(* eliminate_immutable_local_vars.cpp: a variable stored once, in its own     *)
(* block and before its first load, and used in no other way.                 *)
Uses(ir, x) == SelectSeq(InOrder(ir, 1), LAMBDA id : x \in Operands(ir.st[id]))
gather_immutable_local_vars(ir) ==
    {x \in Reachable(ir) :
        LET uses == Uses(ir, x)
        IN /\ ir.st[x].op = "alloca" /\ uses # << >>
           /\ ir.st[Head(uses)].op = "lstore" /\ BlockOf(ir, Head(uses)) = BlockOf(ir, x)
           /\ \A i \in 2 .. Len(uses) : ir.st[uses[i]].op = "lload"}

eliminate_immutable_local_vars(ir) ==
    LET vars == gather_immutable_local_vars(ir)
        store == [x \in vars |-> Head(Uses(ir, x))]
        Forward(r, id) ==
            IF r.st[id].op = "lload" /\ r.st[id].a \in vars
            THEN ReplaceUsages(r, id, r.st[store[r.st[id].a]].b) ELSE r
        gone == {id \in Reachable(ir) : id \in vars \/ (ir.st[id].op \in {"lload", "lstore"} /\ ir.st[id].a \in vars)}
    IN Collect(EraseAll(Visit(ir, Forward), gone))

-----------------------------------------------------------------------------
(* demote_atomics.cpp: in a serial task every atomic operation is a load, an  *)
(* addition and a store.                                                      *)
DemoteAtomic(ir, id) ==
    LET s == ir.st[id]
        local == ir.st[s.a].op = "alloca"
        b == BlockOf(ir, id)
        add == Fresh(ir)
    IN [st |-> (id :> Stmt(IF local THEN "lload" ELSE "gload", s.a, 0, 0))
               @@ (add :> Stmt("add", id, s.b, 0))
               @@ (add + 1 :> Stmt(IF local THEN "lstore" ELSE "gstore", s.a, add, 0)) @@ ir.st,
        body |-> [ir.body EXCEPT ![b] = InsertAfter(@, id, <<add, add + 1>>)]]
demote_atomics(ir) ==
    LET Step(r, id) == IF r.st[id].op = "atomic" THEN DemoteAtomic(r, id) ELSE r
    IN Visit(ir, Step)

-----------------------------------------------------------------------------
(* cache_loop_invariant_global_vars.cpp: in a loop inside another loop, a     *)
(* cell whose pointer comes from outside lives in a local variable.           *)

(* gather_dynamically_indexed_pointers.cpp: one pointer of the field whose    *)
(* index is neither a constant nor a loop index makes all of them dynamic.    *)
is_dynamically_indexed(ir) ==
    \E x \in Reachable(ir) : ir.st[x].op = "gptr" /\ ir.st[ir.st[x].a].op \notin {"const", "idx"}

is_operand_loop_invariant(ir, x, scope, loopBlock) ==
    /\ BlockOf(ir, x) # scope
    /\ scope = loopBlock \/ loopBlock \notin ToSet(Enclosing(ir, BlockOf(ir, x)))

(* find_cache_depth_if_cacheable: the block of the outermost loop, short of   *)
(* the task's outermost one, the pointer is invariant in; {} if none.         *)
CacheLoop(ir, x, scope) ==
    LET loops == LoopBlocks(ir, scope)
        inner == {n \in 1 .. Len(loops) - 1 :
                    \A k \in 1 .. n : is_operand_loop_invariant(ir, x, scope, loops[k])}
    IN IF inner = {} \/ is_dynamically_indexed(ir) THEN {} ELSE {loops[Max(inner)]}

(* cache_global_to_local.  The state of a visit: the program and the cached   *)
(* pointers, a function from <<loop, pointer>> to [var, written].             *)
WriteBack(ir, loop, x, var) ==
    LET n == Fresh(ir)
        b == BlockOf(ir, loop)
    IN [ir EXCEPT !.st = (n :> Stmt("lload", var, 0, 0)) @@ (n + 1 :> Stmt("gstore", x, n, 0)) @@ @,
                  !.body[b] = InsertAfter(@, loop, <<n, n + 1>>)]
InitCache(c, loop, x) ==
    LET n == Fresh(c.ir)
        b == BlockOf(c.ir, loop)
    IN [ir |-> [c.ir EXCEPT !.st = (n :> Stmt("alloca", 0, 0, 0)) @@ (n + 1 :> Stmt("gload", x, 0, 0))
                                   @@ (n + 2 :> Stmt("lstore", n, n + 1, 0)) @@ @,
                            !.body[b] = InsertBefore(@, loop, <<n, n + 1, n + 2>>)],
        vars |-> (<<loop, x>> :> [var |-> n, written |-> FALSE]) @@ c.vars]
cache_global_to_local(c, loop, x, write) ==
    LET c1 == IF <<loop, x>> \in DOMAIN c.vars THEN c ELSE InitCache(c, loop, x)
        entry == c1.vars[<<loop, x>>]
    IN IF ~write \/ entry.written THEN c1
       ELSE [ir |-> WriteBack(c1.ir, loop, x, entry.var),
             vars |-> [c1.vars EXCEPT ![<<loop, x>>].written = TRUE]]

CacheAccess(c, id) ==
    LET s == c.ir.st[id]
        loops == IF s.op \in {"gload", "gstore"} THEN CacheLoop(c.ir, s.a, BlockOf(c.ir, id)) ELSE {}
        loop == HolderOf(c.ir, CHOOSE b \in loops : TRUE)
        c1 == cache_global_to_local(c, loop, s.a, s.op = "gstore")
        var == c1.vars[<<loop, s.a>>].var
    IN IF loops = {} THEN c
       ELSE [c1 EXCEPT !.ir.st[id] = Stmt(IF s.op = "gload" THEN "lload" ELSE "lstore", var, s.b, 0)]

RECURSIVE cache_loop_invariant_global_vars(_)
cache_loop_invariant_global_vars(ir) ==
    LET next == FoldLeft(CacheAccess, [ir |-> ir, vars |-> << >>], InOrder(ir, 1)).ir
    IN IF next = ir THEN ir ELSE cache_loop_invariant_global_vars(next)
=============================================================================
