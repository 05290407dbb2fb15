------------------------------ MODULE MCCompiler ------------------------------
(* Kernels for Compiler: every combination of a few statements in the shapes  *)
(* the passes tell apart.                                                     *)
EXTENDS Compiler

MCArgs == {0, 1, 2}
MCMemories == {[k \in Cells |-> 3 * k + 1], [k \in Cells |-> 0]}

Lit(v) == <<"c", v>>
Arg == <<"arg">>
Var(x) == <<"x", x>>
F(i) == <<"F", i>>
Bin(op, l, r) == <<"bin", op, l, r>>
Store(i, e) == <<"store", i, e>>
AddTo(i, e) == <<"add", i, e>>
Set(x, e) == <<"set", x, e>>
Inc(x, e) == <<"addx", x, e>>
Decl(x, e) == <<"decl", x, e>>
If(c, T, E) == <<"if", c, T, E>>
For(x, lo, hi, B) == <<"for", x, lo, hi, B>>
While(B) == <<"while", B>>
Break == <<"break">>
Continue == <<"continue">>

X == Var("x")
I == Var("i")
J == Var("j")
When(c, B) == If(c, B, << >>)

(* x starts as the argument and ends in F[2].                                 *)
Around(body) == <<Decl("x", Arg)>> \o body \o <<Store(Lit(2), X)>>
Pairs(S) == {<<a, b>> : a, b \in S}
Seqs(S) == {<<a>> : a \in S}

(* Straight lines, one index unknown at compile time.                         *)
Straight ==
    {Store(Lit(0), Lit(1)), Store(Arg, Lit(2)), AddTo(Arg, Lit(1)), Set("x", F(Lit(0))), Inc("x", Lit(1))}
StraightKernels ==
    {<<a>> \o q : a \in {Store(Arg, Lit(2)), AddTo(Arg, Lit(1)), Set("x", F(Lit(0)))}, q \in Pairs(Straight)}

(* Arithmetic with constants, on either side.                                 *)
Ops == {"add", "sub", "mul", "lt"}
Arithmetic ==
    {<<Set("x", Bin(o, Bin(p, X, Lit(a)), Lit(b)))>> : o, p \in Ops, a \in {1, 2}, b \in {0, 1, 2}}
    \cup {<<Set("x", Bin(o, Lit(a), Bin(p, X, X)))>> : o, p \in Ops, a \in {0, 2}}
    \cup {<<Set("x", Bin("fdiv", Bin("add", X, Lit(a)), e))>> :
            a \in {0, 2}, e \in {Lit(1), Lit(2), Bin("add", Arg, Lit(2))}}

(* Branches, branches that decide on the same condition one after the other,  *)
(* and branches on a condition known at compile time.                         *)
Small ==
    {Store(Lit(0), X), AddTo(Lit(0), Lit(1)), Set("x", F(Lit(0))), Inc("x", Lit(1)), Set("x", Lit(0)),
     Store(Lit(1), Lit(0))}
Positive == Bin("lt", Lit(0), Arg)
Branch2 ==
    Seqs(Small) \cup {<< >>, <<Store(Lit(0), X), Inc("x", Lit(1))>>, <<Set("x", F(Lit(0))), Store(Lit(0), X)>>}
Branches ==
    {<<If(Positive, a, b), Set("x", Bin("add", X, F(Lit(0))))>> : a, b \in Branch2}
    \cup {<<Inc("x", Lit(1)), If(Positive, <<a>>, <<b>>), When(Positive, <<b>>)>> : a, b \in Small}
    \cup {<<If(Bin("ge", X, X), <<a>>, <<b>>), If(Lit(0), <<a>>, <<b>>)>> :
            a \in {Store(Lit(0), X), Inc("x", Lit(1))}, b \in Small}

(* Loops: over a range, and while loops, left and continued from inside.      *)
InBody == Small \cup {Store(J, X), AddTo(J, Lit(1)), Set("x", F(J)), Set("x", Bin("add", X, J))}
Ends == {Store(J, X), Set("x", F(J)), Inc("x", Lit(1)), AddTo(Lit(0), Lit(1))}
Exits ==
    {When(Bin("ge", X, Lit(2)), <<Break>>), When(Bin("ge", X, Lit(1)), <<Continue>>),
     If(Bin("lt", J, Lit(1)), <<Continue>>, <<Set("x", Lit(1))>>)}
Bodies ==
    {<<a, b>> : a \in InBody, b \in Ends} \cup {<<a, e>> : a \in InBody, e \in Exits}
    \cup {<<a, e, b>> : a \in Small, e \in Exits, b \in {Store(Lit(0), X), Inc("x", Lit(1))}}
Ranges == {<<For("j", Lit(0), Arg, B)>> : B \in Bodies}
Whiles ==
    {<<Decl("j", Lit(0)), While(<<When(Bin("ge", J, Arg), <<Break>>)>> \o B \o <<Inc("j", Lit(1))>>)>> :
        B \in {<<a, b>> : a \in InBody, b \in Ends}}

(* Nested loops, whose cells with a constant index are cached.                *)
Inner == Small \cup {Set("x", Bin("add", X, Bin("mul", I, Lit(2))))}
Nests ==
    {<<For("i", Lit(0), Lit(2), <<a, For("j", Lit(0), Arg, <<b, c>>)>>)>> :
        a \in {Set("x", F(Lit(0))), Store(Lit(0), X)}, b \in Inner,
        c \in {Store(Lit(0), X), AddTo(Lit(0), Lit(1)), Set("x", Bin("add", X, J))}}
    \cup {<<For("i", Lit(0), Lit(2), <<For("j", Lit(0), Arg, <<a, e, AddTo(Lit(0), Lit(1))>>)>>)>> :
            a \in Small, e \in Exits}

MCKernels ==
    {Around(s) : s \in StraightKernels \cup Arithmetic \cup Branches \cup Ranges \cup Whiles \cup Nests}
=============================================================================
