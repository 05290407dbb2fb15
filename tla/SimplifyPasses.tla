---------------------------- MODULE SimplifyPasses ----------------------------
(* The passes of full_simplify (taichi/transforms/simplify.cpp), each from IR *)
(* to IR.  A pass that the code repeats until nothing changes is a recursive  *)
(* operator here.  A statement the code replaces by a new one at the same     *)
(* place keeps its id.                                                        *)
EXTENDS ControlFlowGraph

(* A pass over the program visits the statements in program order.            *)
Visit(ir, Step(_, _)) == FoldLeft(Step, ir, InOrder(ir, 1))

Known(ir, id) == ir.st[id].op = "const"
Become(ir, id, stmt) == [ir EXCEPT !.st[id] = stmt]
BecomeConst(ir, id, v) == Become(ir, id, Stmt("const", 0, 0, v))
(* Statement id goes away and its users take value instead.                   *)
GiveWay(ir, id, value) == Erase(ReplaceUsages(ir, id, value), id)
(* A new statement before id.                                                 *)
PutBefore(ir, id, stmt) ==
    LET new == Fresh(ir)
        b == BlockOf(ir, id)
    IN [ir EXCEPT !.st = (new :> stmt) @@ @, !.body[b] = InsertBefore(@, id, <<new>>)]

-----------------------------------------------------------------------------
(* extract_constant.cpp: constants move to the front of the top block.        *)
(* Variant: moves the constants that are there already, too.                  *)
extract_all(ir) ==
    LET deep == SelectSeq(InOrder(ir, 1), LAMBDA id : Known(ir, id))
        rest == EraseAll(ir, ToSet(deep))
    IN [rest EXCEPT !.body[1] = Reverse(deep) \o @]
(* The constants of inner blocks, each put before all others.                 *)
extract_constant(ir) ==
    LET deep == SelectSeq(InOrder(ir, 1), LAMBDA id : Known(ir, id) /\ BlockOf(ir, id) # 1)
        rest == EraseAll(ir, ToSet(deep))
    IN [rest EXCEPT !.body[1] = Reverse(deep) \o @]

-----------------------------------------------------------------------------
(* unreachable_code_elimination.cpp *)

(* A block ends at its first continue.                                        *)
CutAfterContinue(ir) ==
    [ir EXCEPT !.body = [b \in DOMAIN @ |->
        LET conts == {i \in DOMAIN @[b] : ir.st[@[b][i]].op = "cont"}
        IN IF conts = {} THEN @[b] ELSE SubSeq(@[b], 1, Min(conts))]]

(* The continues that end block b, through the ifs at its end.                *)
RECURSIVE Trailing(_, _)
Trailing(ir, b) ==
    IF b = 0 \/ ir.body[b] = << >> THEN {}
    ELSE LET s == ir.st[Last(ir.body[b])]
         IN CASE s.op = "cont" -> {Last(ir.body[b])}
              [] s.op = "if" -> Trailing(ir, s.t) \cup Trailing(ir, s.f)
              [] OTHER -> {}
DropUselessContinues(ir) ==
    EraseAll(ir, UNION {Trailing(ir, ir.st[id].t) : id \in {k \in Reachable(ir) : IsLoop(ir.st[k])}})

(* An if on a constant is the branch it takes.                                *)
TakeBranch(ir, id) ==
    LET s == ir.st[id]
        taken == IF IsZero(ir, s.a) THEN s.f ELSE s.t
        inner == IF taken = 0 THEN << >> ELSE ir.body[taken]
        b == BlockOf(ir, id)
        q == ir.body[b]
        i == Locate(q, id)
        moved == [ir EXCEPT !.body[b] = SubSeq(q, 1, i - 1) \o inner \o SubSeq(q, i + 1, Len(q))]
    IN IF taken = 0 THEN moved ELSE [moved EXCEPT !.body[taken] = << >>]
TakeBranches(ir) ==
    LET ifs == SelectSeq(InOrder(ir, 1), LAMBDA id : ir.st[id].op = "if" /\ Known(ir, ir.st[id].a))
    IN IF ifs = << >> THEN ir ELSE Collect(TakeBranch(ir, Head(ifs)))

RECURSIVE unreachable_code_elimination(_)
unreachable_code_elimination(ir) ==
    LET next == Collect(TakeBranches(DropUselessContinues(CutAfterContinue(ir))))
    IN IF next = ir THEN ir ELSE unreachable_code_elimination(next)

-----------------------------------------------------------------------------
(* binary_op_simplify.cpp: a constant operand to the right; (a o b) p c with  *)
(* constants b and c becomes a o (b q c).                                     *)
SwapOperands(ir, id) ==
    LET s == ir.st[id]
    IN IF s.op \in {"add", "mul"} /\ Known(ir, s.a) /\ ~Known(ir, s.b)
       THEN Become(ir, id, [s EXCEPT !.a = s.b, !.b = s.a])
       ELSE ir

(* can_rearrange_associative: the operator q, or none.                        *)
InnerOp(o, p) ==
    CASE o = "add" /\ p \in {"add", "sub"} -> {p}
      [] o = "sub" /\ p = "add" -> {"sub"}
      [] o = "sub" /\ p = "sub" -> {"add"}
      [] o = "mul" /\ p = "mul" -> {"mul"}
      [] o = "shl" /\ p = "shl" -> {"add"}
      [] OTHER -> {}

RearrangeConstRhs(ir, id) ==
    LET s == ir.st[id]
        l == ir.st[s.a]
        q == IF IsBin(l) /\ Known(ir, s.b) /\ Known(ir, l.b) /\ ~Known(ir, l.a)
             THEN InnerOp(l.op, s.op) ELSE {}
    IN IF q = {} THEN ir
       ELSE Become(PutBefore(ir, id, Stmt(CHOOSE o \in q : TRUE, l.b, s.b, 0)),
                   id, Stmt(l.op, l.a, Fresh(ir), 0))

RECURSIVE binary_op_simplify(_)
binary_op_simplify(ir) ==
    LET Step(r, id) == IF IsBin(r.st[id]) THEN RearrangeConstRhs(SwapOperands(r, id), id) ELSE r
        next == Visit(ir, Step)
    IN IF next = ir THEN ir ELSE binary_op_simplify(next)

-----------------------------------------------------------------------------
(* constant_fold.cpp.  A division of constants truncates toward zero before   *)
(* it is floored.                                                             *)
Quotient(l, r) == IF l >= 0 THEN l \div r ELSE -((-l) \div r)
FoldVal(op, l, r) == IF op = "fdiv" THEN Quotient(l, r) ELSE BinVal(op, l, r)

constant_fold(ir) ==
    LET Step(r, id) ==
            LET s == r.st[id]
            IN IF IsBin(s) /\ Known(r, s.a) /\ Known(r, s.b)
               THEN BecomeConst(r, id, FoldVal(s.op, r.st[s.a].v, r.st[s.b].v))
               ELSE r
    IN Visit(ir, Step)

-----------------------------------------------------------------------------
(* alg_simp.cpp *)
IsConst(ir, id, v) == Known(ir, id) /\ ir.st[id].v = v
Log2(v) == {k \in 1 .. 4 : 2 ^ k = v}
IsPowerOfTwo(ir, id) == Known(ir, id) /\ Log2(ir.st[id].v) # {}

optimize_multiplication(ir, id) ==
    LET s == ir.st[id]
        pot == IF IsPowerOfTwo(ir, s.a) THEN s.a ELSE s.b
        other == IF pot = s.a THEN s.b ELSE s.a
        shift == Stmt("const", 0, 0, CHOOSE k \in Log2(ir.st[pot].v) : TRUE)
    IN CASE IsConst(ir, s.a, 1) -> GiveWay(ir, id, s.b)
         [] ~IsConst(ir, s.a, 1) /\ IsConst(ir, s.b, 1) -> GiveWay(ir, id, s.a)
         [] IsConst(ir, s.a, 0) \/ IsConst(ir, s.b, 0) -> BecomeConst(ir, id, 0)
         [] IsPowerOfTwo(ir, s.a) \/ IsPowerOfTwo(ir, s.b) ->
                Become(PutBefore(ir, id, shift), id, Stmt("shl", other, Fresh(ir), 0))
         [] OTHER -> ir

optimize_division(ir, id) ==
    LET s == ir.st[id]
    IN CASE IsConst(ir, s.b, 1) -> GiveWay(ir, id, s.a)
         [] ~IsConst(ir, s.b, 1) /\ same_value(ir, s.a, s.b) -> BecomeConst(ir, id, 1)
         [] OTHER -> ir

SimplifyBin(ir, id) ==
    LET s == ir.st[id]
    IN CASE s.op = "mul" -> optimize_multiplication(ir, id)
         [] s.op = "fdiv" -> optimize_division(ir, id)
         [] s.op \in {"add", "sub"} /\ IsZero(ir, s.b) -> GiveWay(ir, id, s.a)
         [] s.op = "add" /\ IsZero(ir, s.a) /\ ~IsZero(ir, s.b) -> GiveWay(ir, id, s.b)
         [] s.op = "sub" /\ ~IsZero(ir, s.b) /\ same_value(ir, s.a, s.b) -> BecomeConst(ir, id, 0)
         [] s.op = "shl" /\ (IsZero(ir, s.a) \/ IsZero(ir, s.b)) -> GiveWay(ir, id, s.a)
         [] s.op \in {"lt", "ge"} /\ same_value(ir, s.a, s.b) ->
                BecomeConst(ir, id, Bool2Int(s.op = "ge"))
         [] OTHER -> ir

RECURSIVE alg_simp(_)
alg_simp(ir) ==
    LET Step(r, id) ==
            LET s == r.st[id]
            IN CASE IsBin(s) -> SimplifyBin(r, id)
                 [] s.op = "wctl" /\ Known(r, s.b) /\ ~IsZero(r, s.b) -> Erase(r, id)
                 [] OTHER -> r
        next == Visit(ir, Step)
    IN IF next = ir THEN ir ELSE alg_simp(next)

-----------------------------------------------------------------------------
(* loop_invariant_code_motion.cpp: out of a loop that is inside another loop, *)
(* what is directly in its body and uses nothing of it.                       *)
LoopBlocks(ir, b) == SelectSeq(Enclosing(ir, b), LAMBDA c : c # 1 /\ IsLoop(ir.st[HolderOf(ir, c)]))

(* Variant: forgets the operands.                                             *)
is_loop_invariant_any(ir, id) ==
    LET b == BlockOf(ir, id) IN Len(LoopBlocks(ir, b)) > 1 /\ LoopBlocks(ir, b)[1] = b
is_loop_invariant(ir, id) ==
    LET b == BlockOf(ir, id)
        loops == LoopBlocks(ir, b)
    IN /\ Len(loops) > 1 /\ loops[1] = b
       /\ \A x \in Operands(ir.st[id]) : BlockOf(ir, x) # b

MoveOut(ir, id) ==
    LET b == BlockOf(ir, id)
        loop == HolderOf(ir, b)
        outer == BlockOf(ir, loop)
    IN [ir EXCEPT !.body[b] = Remove(@, id), !.body[outer] = InsertBefore(@, loop, <<id>>)]

RECURSIVE loop_invariant_code_motion(_)
loop_invariant_code_motion(ir) ==
    LET Step(r, id) ==
            IF (IsBin(r.st[id]) \/ r.st[id].op \in {"gptr", "arg"}) /\ is_loop_invariant(r, id)
            THEN MoveOut(r, id) ELSE r
        next == Visit(ir, Step)
    IN IF next = ir THEN ir ELSE loop_invariant_code_motion(next)

-----------------------------------------------------------------------------
(* simplify: the rules of BasicBlockSimplify on each statement of each block. *)

(* An earlier load from the same pointer in the block with no store or atomic *)
(* operation that may change it in between, nested blocks included.           *)
StoredBetween(ir, q, i, j, x) ==
    \E k \in i + 1 .. j - 1 :
        \E id \in {q[k]} \cup ToSet(InOrder(ir, ir.st[q[k]].t) \o InOrder(ir, ir.st[q[k]].f)) :
            ir.st[id].op \in {"gstore", "atomic"} /\ MaybeSame(ir, ir.st[id].a, x)

SimplifyLoad(ir, id) ==
    LET q == ir.body[BlockOf(ir, id)]
        j == Locate(q, id)
        x == ir.st[id].a
        same == {i \in 1 .. j - 1 : /\ ir.st[q[i]].op = "gload" /\ ir.st[q[i]].a = x
                                    /\ ~StoredBetween(ir, q, i, j, x)}
    IN IF same = {} THEN ir ELSE GiveWay(ir, id, q[Min(same)])

(* Statements of block b go to the front of block c, which takes its place.   *)
Concatenate(ir, b, c) ==
    CASE c = 0 -> [ir |-> ir, blk |-> b]
      [] c # 0 /\ b = 0 -> [ir |-> ir, blk |-> c]
      [] c # 0 /\ b # 0 -> [ir |-> [ir EXCEPT !.body[c] = ir.body[b] \o @, !.body[b] = << >>], blk |-> c]
MergeIfs(ir, id, next) ==
    LET t == Concatenate(ir, ir.st[id].t, ir.st[next].t)
        f == Concatenate(t.ir, ir.st[id].f, ir.st[next].f)
    IN Erase([f.ir EXCEPT !.st[next].t = t.blk, !.st[next].f = f.blk,
                          !.st[id].t = 0, !.st[id].f = 0], id)

IsEmptyBlock(ir, b) == b # 0 /\ ir.body[b] = << >>
DropEmpty(ir, id) ==
    [ir EXCEPT !.st[id].t = IF IsEmptyBlock(ir, @) THEN 0 ELSE @,
               !.st[id].f = IF IsEmptyBlock(ir, @) THEN 0 ELSE @]

SimplifyIf(ir, id) ==
    LET r == DropEmpty(ir, id)
        s == r.st[id]
        q == r.body[BlockOf(r, id)]
        i == Locate(q, id)
    IN IF s.t = 0 /\ s.f = 0 THEN Erase(r, id)
       ELSE IF i < Len(q) /\ r.st[q[i + 1]].op = "if" /\ r.st[q[i + 1]].a = s.a
       THEN MergeIfs(r, id, q[i + 1])
       ELSE r

RECURSIVE simplify(_)
simplify(ir) ==
    LET Step(r, id) ==
            CASE r.st[id].op = "gload" -> SimplifyLoad(r, id)
              [] r.st[id].op = "if" -> SimplifyIf(r, id)
              [] r.st[id].op \in {"while", "wctl"} -> [r EXCEPT !.st[id].a = 0]
              [] OTHER -> r
        next == Collect(Visit(ir, Step))
    IN IF next = ir THEN ir ELSE simplify(next)
=============================================================================
