----------------------------- MODULE KernelAst -----------------------------
(* The frontend form of a kernel (taichi/ir/frontend_ir.h), as the Python     *)
(* frontend builds it, and what it means: the reference the compiler is held  *)
(* to.  Expressions and statements are tuples that start with their class:    *)
(*   <<"c", v>>  <<"arg">>  <<"x", name>>  <<"F", i>>  <<"bin", op, l, r>>    *)
(*   <<"decl", x, e>>  <<"set", x, e>>  <<"addx", x, e>>     x: e, x = e, x += e *)
(*   <<"store", i, e>>  <<"add", i, e>>                    F[i] = e, F[i] += e *)
(*   <<"if", c, T, E>>  <<"while", B>>  <<"for", x, lo, hi, B>>               *)
(*   <<"break">>  <<"continue">>                                              *)
(* T, E and B are sequences of statements; a while loop is `while True`, the  *)
(* form ast_transformer.py's build_While emits, with its condition an `if`    *)
(* around a break at the head of the body.                                    *)
EXTENDS ChiIR

RECURSIVE Eval(_, _)
Eval(e, s) ==
    CASE e[1] = "c" -> e[2]
      [] e[1] = "arg" -> s.arg
      [] e[1] = "x" -> s.env[e[2]]
      [] e[1] = "F" -> s.mem[Eval(e[2], s)]
      [] e[1] = "bin" -> BinVal(e[2], Eval(e[3], s), Eval(e[4], s))

(* An expression whose every access is inside the field.                      *)
RECURSIVE Defined(_, _)
Defined(e, s) ==
    CASE e[1] \in {"c", "arg", "x"} -> TRUE
      [] e[1] = "F" -> Defined(e[2], s) /\ Eval(e[2], s) \in Cells
      [] e[1] = "bin" -> Defined(e[3], s) /\ Defined(e[4], s)

RECURSIVE MeanBlock(_, _), MeanStmt(_, _), MeanWhile(_, _), MeanFor(_, _, _, _, _)

MeanBlock(B, s) ==
    IF B = << >> \/ s.st # "run" THEN s ELSE MeanBlock(Tail(B), MeanStmt(Head(B), s))

MeanWhile(B, s) ==
    IF s.fuel = 0 THEN [s EXCEPT !.st = "hang"]
    ELSE LET s1 == EndIteration(MeanBlock(B, [s EXCEPT !.fuel = @ - 1]))
         IN IF s1.st = "run" THEN MeanWhile(B, s1) ELSE LeaveLoop(s1)

MeanFor(x, i, hi, B, s) ==
    IF i >= hi THEN s
    ELSE IF s.fuel = 0 THEN [s EXCEPT !.st = "hang"]
    ELSE LET s1 == EndIteration(MeanBlock(B, Def([s EXCEPT !.fuel = @ - 1], x, i)))
         IN IF s1.st = "run" THEN MeanFor(x, i + 1, hi, B, s1) ELSE LeaveLoop(s1)

MeanStmt(x, s) ==
    CASE x[1] \in {"decl", "set"} ->
            IF Defined(x[3], s) THEN Def(s, x[2], Eval(x[3], s)) ELSE Fault(s)
      [] x[1] = "addx" ->
            IF Defined(x[3], s) THEN Def(s, x[2], s.env[x[2]] + Eval(x[3], s)) ELSE Fault(s)
      [] x[1] = "store" ->
            IF Defined(x[3], s) /\ Defined(<<"F", x[2]>>, s)
            THEN [s EXCEPT !.mem[Eval(x[2], s)] = Eval(x[3], s)] ELSE Fault(s)
      [] x[1] = "add" ->
            IF Defined(x[3], s) /\ Defined(<<"F", x[2]>>, s)
            THEN [s EXCEPT !.mem[Eval(x[2], s)] = @ + Eval(x[3], s)] ELSE Fault(s)
      [] x[1] = "if" ->
            IF Defined(x[2], s) THEN MeanBlock(IF Eval(x[2], s) # 0 THEN x[3] ELSE x[4], s) ELSE Fault(s)
      [] x[1] = "while" -> MeanWhile(x[2], s)
      [] x[1] = "for" ->
            IF Defined(x[3], s) /\ Defined(x[4], s)
            THEN MeanFor(x[2], Eval(x[3], s), Eval(x[4], s), x[5], s) ELSE Fault(s)
      [] x[1] = "break" -> [s EXCEPT !.st = "brk"]
      [] x[1] = "continue" -> [s EXCEPT !.st = "cont"]

Meaning(ast, p, mem) ==
    LET s == MeanBlock(ast, Start(p, mem)) IN [st |-> s.st, mem |-> s.mem]
=============================================================================
