------------------------------ MODULE LowerAst ------------------------------
(* lower_ast (taichi/transforms/lower_ast.cpp): the frontend form of a kernel *)
(* into CHI IR.  Variables become allocas, a while loop gets a mask and a     *)
(* for loop that contains a break becomes a while loop.                       *)
(* The lowering carries the IR built so far (st, body), the next ids n and    *)
(* nb, the statements out of the block being filled, the local variables of   *)
(* the names in scope, the mask of the innermost while loop and the value of  *)
(* the last expression.                                                       *)
EXTENDS KernelAst

Put(s, stmt) ==
    [s EXCEPT !.st = (s.n :> stmt) @@ @, !.out = Append(@, s.n), !.n = @ + 1, !.val = s.n]

(* flatten_rvalue, flatten_lvalue and the flatten of each expression          *)
RECURSIVE RValue(_, _)
GlobalPtr(i, s) == LET s1 == RValue(i, s) IN Put(s1, Stmt("gptr", s1.val, 0, 0))
RValue(e, s) ==
    CASE e[1] = "c" -> Put(s, Stmt("const", 0, 0, e[2]))
      [] e[1] = "arg" -> Put(s, Stmt("arg", 0, 0, 0))
      [] e[1] = "x" ->
            LET var == s.vars[e[2]]
            IN IF s.st[var].op = "alloca" THEN Put(s, Stmt("lload", var, 0, 0)) ELSE [s EXCEPT !.val = var]
      [] e[1] = "F" -> LET s1 == GlobalPtr(e[2], s) IN Put(s1, Stmt("gload", s1.val, 0, 0))
      [] e[1] = "bin" ->
            LET l == RValue(e[3], s)
                r == RValue(e[4], l)
            IN Put(r, Stmt(e[2], l.val, r.val, 0))

(* detect_fors_with_break: does a break in this loop body leave this loop?    *)
RECURSIVE HasBreak(_)
HasBreak(B) ==
    \E i \in DOMAIN B :
        \/ B[i][1] = "break"
        \/ B[i][1] = "if" /\ (HasBreak(B[i][3]) \/ HasBreak(B[i][4]))

Bind(s, x) == [s EXCEPT !.vars = (x :> s.val) @@ @]

RECURSIVE LowerAll(_, _), LowerStmt(_, _), LowerBlock(_, _, _, _)
LowerAll(B, s) == IF B = << >> THEN s ELSE LowerAll(Tail(B), LowerStmt(Head(B), s))

(* Fills block b with what Prefix puts first and the statements B.            *)
LowerBlock(b, B, Prefix(_), s) ==
    LET s1 == LowerAll(B, Prefix([s EXCEPT !.out = << >>]))
    IN [s1 EXCEPT !.body = (b :> s1.out) @@ @, !.out = s.out, !.mask = s.mask]

(* The mask of a while loop: an alloca that starts as all ones.               *)
PutMask(s) ==
    LET m == Put(s, Stmt("alloca", 0, 0, 0))
        c == Put(m, Stmt("const", 0, 0, -1))
    IN [Put(c, Stmt("lstore", m.val, c.val, 0)) EXCEPT !.mask = m.val]

(* A loop or an if with one body; its statement is put before the body.       *)
WithBody(s, op, a, b, B, Prefix(_)) ==
    LET blk == s.nb
        s1 == Put([s EXCEPT !.nb = @ + 1], Container(op, a, b, blk, 0))
    IN LowerBlock(blk, B, Prefix, s1)

LowerIf(x, s) ==
    LET c == RValue(x[2], s)
        s1 == Put([c EXCEPT !.nb = @ + 2], Container("if", c.val, 0, c.nb, c.nb + 1))
        s2 == LowerBlock(c.nb, x[3], LAMBDA y : y, s1)
    IN LowerBlock(c.nb + 1, x[4], LAMBDA y : y, s2)

(* while (mask) { cond; if (no active) break; body }                          *)
LowerWhile(x, s) ==
    LET m == PutMask(s)
        Cond(y) == LET c == RValue(<<"c", 1>>, y) IN Put(c, Stmt("wctl", m.mask, c.val, 0))
    IN [WithBody(m, "while", m.mask, 0, x[2], Cond) EXCEPT !.mask = s.mask]

LowerGoodFor(x, s) ==
    LET lo == RValue(x[3], s)
        hi == RValue(x[4], lo)
        loop == hi.n
        Index(y) == Bind(Put(y, Stmt("idx", loop, 0, 0)), x[2])
    IN WithBody(hi, "for", lo.val, hi.val, x[5], Index)

(* i = begin - 1; while (1) { i += 1; if (i >= end) break; body }             *)
LowerForWithBreak(x, s) ==
    LET m == PutMask(Put(s, Stmt("alloca", 0, 0, 0)))
        lo == RValue(x[3], m)
        hi == RValue(x[4], lo)
        i == Put(hi, Stmt("alloca", 0, 0, 0))
        one == Put(Bind(i, x[2]), Stmt("const", 0, 0, 1))
        before == Put(one, Stmt("sub", lo.val, one.val, 0))
        s1 == Put(before, Stmt("lstore", i.val, before.val, 0))
        Step(y) ==
            LET old == Put(y, Stmt("lload", i.val, 0, 0))
                new == Put(old, Stmt("add", old.val, one.val, 0))
                cond == Put(new, Stmt("lt", new.val, hi.val, 0))
                ctl == Put(cond, Stmt("wctl", m.mask, cond.val, 0))
            IN Put(ctl, Stmt("lstore", i.val, new.val, 0))
    IN [WithBody(s1, "while", m.mask, 0, x[5], Step) EXCEPT !.mask = s.mask]

LowerStmt(x, s) ==
    CASE x[1] = "decl" ->
            LET a == Put(s, Stmt("alloca", 0, 0, 0))
                e == RValue(x[3], a)
            IN Put(Bind([e EXCEPT !.val = a.val], x[2]), Stmt("lstore", a.val, e.val, 0))
      [] x[1] = "set" -> LET e == RValue(x[3], s) IN Put(e, Stmt("lstore", s.vars[x[2]], e.val, 0))
      [] x[1] = "addx" -> LET e == RValue(x[3], s) IN Put(e, Stmt("atomic", s.vars[x[2]], e.val, 0))
      [] x[1] \in {"store", "add"} ->
            LET e == RValue(x[3], s)
                d == GlobalPtr(x[2], e)
            IN Put(d, Stmt(IF x[1] = "store" THEN "gstore" ELSE "atomic", d.val, e.val, 0))
      [] x[1] = "if" -> LowerIf(x, s)
      [] x[1] = "while" -> LowerWhile(x, s)
      [] x[1] = "for" -> IF HasBreak(x[5]) THEN LowerForWithBreak(x, s) ELSE LowerGoodFor(x, s)
      [] x[1] = "break" ->
            LET c == Put(s, Stmt("const", 0, 0, 0)) IN Put(c, Stmt("wctl", s.mask, c.val, 0))
      [] x[1] = "continue" -> Put(s, Stmt("cont", 0, 0, 0))

lower_ast(ast) ==
    LET s == LowerBlock(1, ast, LAMBDA y : y,
                        [st |-> << >>, body |-> << >>, n |-> 1, nb |-> 2, out |-> << >>,
                         vars |-> << >>, mask |-> 0, val |-> 0])
    IN [st |-> s.st, body |-> s.body]
=============================================================================
