------------------------------- MODULE ChiIR -------------------------------
(* CHI IR, the intermediate representation every kernel goes through          *)
(* (taichi/ir/ir.h, statements.h), for kernels over scalar i32 values and one *)
(* dense field of N cells.  A program is a record with                        *)
(*   st   : statement id -> statement,                                        *)
(*   body : block id -> sequence of statement ids.                            *)
(* Statement and block ids are positive; 0 is the null pointer of the code.   *)
(* A statement carries the fields of its class: operands a and b, an integer  *)
(* v, and the blocks t and f of a container:                                  *)
(*   const v | arg | alloca | bin a b (op is the operator) | lload a |        *)
(*   lstore a b | gptr a | gload a | gstore a b | atomic a b (an addition) |  *)
(*   if a t f | while a(mask) t | for a b t | idx a(loop) | wctl a(mask) b |  *)
(*   cont                                                                     *)
EXTENDS Integers, FiniteSets, SequencesExt

CONSTANT N      \* cells of the field; an access outside 0..N-1 is a fault

Cells == 0 .. N - 1

(* The element of a singleton: {Op(r) : r \in {e}} applies Op to the value of *)
(* e, which TLC then computes once.                                           *)
The(S) == CHOOSE x \in S : TRUE

BinOps == {"add", "sub", "mul", "fdiv", "shl", "lt", "ge"}

Stmt(op, a, b, v) == [op |-> op, a |-> a, b |-> b, v |-> v, t |-> 0, f |-> 0]
Container(op, a, b, t, f) == [op |-> op, a |-> a, b |-> b, v |-> 0, t |-> t, f |-> f]

(* The classes of statements the passes ask about.                            *)
IsContainer(s) == s.op \in {"if", "while", "for"}
IsLoop(s) == s.op \in {"while", "for"}
IsBin(s) == s.op \in BinOps
Operands(s) == {s.a, s.b} \ {0}

(* Statement::dead_instruction_eliminable: no global side effect, and not a   *)
(* local store.                                                               *)
DeadEliminable(s) ==
    s.op \in {"const", "arg", "alloca", "lload", "gptr", "gload", "idx"} \/ IsBin(s)

(* Statement::common_statement_eliminable: equal operands mean equal values.  *)
CommonEliminable(s) == s.op \in {"const", "arg", "gptr", "idx"} \/ IsBin(s)

(* The Load and Store traits: where a statement reads, where it writes and    *)
(* the statement whose value it writes (an alloca stores its own zero; an     *)
(* atomic operation stores a value no statement has).                         *)
LoadPointers(ir, id) ==
    LET s == ir.st[id] IN IF s.op \in {"lload", "gload", "atomic"} THEN {s.a} ELSE {}
StoreDest(ir, id) ==
    LET s == ir.st[id]
    IN CASE s.op \in {"lstore", "gstore", "atomic"} -> {s.a}
         [] s.op = "alloca" -> {id}
         [] OTHER -> {}
StoreData(ir, id) ==
    LET s == ir.st[id]
    IN CASE s.op \in {"lstore", "gstore"} -> s.b
         [] s.op = "alloca" -> id
         [] OTHER -> 0

-----------------------------------------------------------------------------
(* Structure.                                                                 *)
Locate(q, x) == CHOOSE i \in DOMAIN q : q[i] = x
Fresh(ir) == 1 + CHOOSE m \in DOMAIN ir.st : \A k \in DOMAIN ir.st : k <= m

(* The block that holds a statement, and the statement that holds a block     *)
(* (0 for the root block, which is block 1).                                  *)
BlockOf(ir, id) == CHOOSE b \in DOMAIN ir.body : \E i \in DOMAIN ir.body[b] : ir.body[b][i] = id
HolderOf(ir, b) ==
    IF b = 1 THEN 0
    ELSE CHOOSE id \in DOMAIN ir.st : b \in {ir.st[id].t, ir.st[id].f}

(* The blocks around block b, b included, innermost first.                    *)
RECURSIVE Enclosing(_, _)
Enclosing(ir, b) == IF b = 1 THEN <<1>> ELSE <<b>> \o Enclosing(ir, BlockOf(ir, HolderOf(ir, b)))

(* The statements reachable from block b, in program order.                   *)
RECURSIVE InOrder(_, _), InOrderFrom(_, _, _)
InOrderFrom(ir, b, i) ==
    IF i > Len(ir.body[b]) THEN << >>
    ELSE LET id == ir.body[b][i]
         IN <<id>> \o InOrder(ir, ir.st[id].t) \o InOrder(ir, ir.st[id].f) \o InOrderFrom(ir, b, i + 1)
InOrder(ir, b) == IF b = 0 THEN << >> ELSE InOrderFrom(ir, b, 1)

Reachable(ir) == ToSet(InOrder(ir, 1))

-----------------------------------------------------------------------------
(* Edits.  An edit changes block bodies and operands; Collect drops what no   *)
(* block holds any more.                                                      *)
InsertBefore(q, x, new) ==
    LET i == Locate(q, x) IN SubSeq(q, 1, i - 1) \o new \o SubSeq(q, i, Len(q))
InsertAfter(q, x, new) ==
    LET i == Locate(q, x) IN SubSeq(q, 1, i) \o new \o SubSeq(q, i + 1, Len(q))

Erase(ir, id) == LET b == BlockOf(ir, id) IN [ir EXCEPT !.body[b] = Remove(@, id)]
EraseAll(ir, ids) ==
    [ir EXCEPT !.body = [b \in DOMAIN @ |-> SelectSeq(@[b], LAMBDA y : y \notin ids)]]

(* Stmt::replace_usages_with *)
ReplaceUsages(ir, old, new) ==
    LET users == {k \in DOMAIN ir.st : old \in {ir.st[k].a, ir.st[k].b}}
        Renamed(s) == [s EXCEPT !.a = IF @ = old THEN new ELSE @,
                                !.b = IF @ = old THEN new ELSE @]
    IN [ir EXCEPT !.st = [k \in users |-> Renamed(@[k])] @@ @]

(* Drops the statements and blocks the program does not reach any more.       *)
Collect(ir) ==
    LET live == Reachable(ir)
        blocks == {1} \cup (UNION {{ir.st[id].t, ir.st[id].f} : id \in live} \ {0})
    IN [st |-> [id \in live |-> ir.st[id]], body |-> [b \in blocks |-> ir.body[b]]]

-----------------------------------------------------------------------------
(* What a program does: run on argument p and field contents mem.  A run      *)
(* carries the values of the statements executed so far, the local variables, *)
(* the field, and st:                                                         *)
(*   "run" | "brk" (a break in flight) | "cont" (a continue in flight) |      *)
(*   "fault" (an access outside the field) | "hang" (out of fuel).            *)
Bool2Int(x) == IF x THEN 1 ELSE 0
BinVal(op, l, r) ==
    CASE op = "add" -> l + r
      [] op = "sub" -> l - r
      [] op = "mul" -> l * r
      [] op = "fdiv" -> l \div r
      [] op = "shl" -> l * 2 ^ r
      [] op = "lt"  -> Bool2Int(l < r)
      [] op = "ge"  -> Bool2Int(l >= r)

Val(s, id) == s.env[id]
Def(s, id, x) == [s EXCEPT !.env = (id :> x) @@ @]
Fault(s) == [s EXCEPT !.st = "fault"]

RECURSIVE RunBlock(_, _, _, _), RunStmt(_, _, _), RunWhile(_, _, _), RunFor(_, _, _, _, _)

RunBlock(ir, b, i, s) ==
    IF b = 0 THEN s
    ELSE IF i > Len(ir.body[b]) \/ s.st # "run" THEN s
    ELSE RunBlock(ir, b, i + 1, RunStmt(ir, ir.body[b][i], s))

(* A break leaves the innermost loop, a continue ends its iteration.          *)
EndIteration(s) == IF s.st = "cont" THEN [s EXCEPT !.st = "run"] ELSE s
LeaveLoop(s) == IF s.st = "brk" THEN [s EXCEPT !.st = "run"] ELSE s

RunWhile(ir, id, s) ==
    IF s.fuel = 0 THEN [s EXCEPT !.st = "hang"]
    ELSE LET s1 == EndIteration(RunBlock(ir, ir.st[id].t, 1, [s EXCEPT !.fuel = @ - 1]))
         IN IF s1.st = "run" THEN RunWhile(ir, id, s1) ELSE LeaveLoop(s1)

RunFor(ir, id, i, hi, s) ==
    IF i >= hi THEN s
    ELSE IF s.fuel = 0 THEN [s EXCEPT !.st = "hang"]
    ELSE LET s1 == EndIteration(RunBlock(ir, ir.st[id].t, 1, Def([s EXCEPT !.fuel = @ - 1], id, i)))
         IN IF s1.st = "run" THEN RunFor(ir, id, i + 1, hi, s1) ELSE s1

RunStmt(ir, id, s) ==
    LET x == ir.st[id]
    IN CASE x.op = "const" -> Def(s, id, x.v)
         [] x.op = "arg" -> Def(s, id, s.arg)
         [] x.op = "alloca" -> [s EXCEPT !.loc = (id :> 0) @@ @]
         [] IsBin(x) -> Def(s, id, BinVal(x.op, Val(s, x.a), Val(s, x.b)))
         [] x.op = "lload" -> Def(s, id, s.loc[x.a])
         [] x.op = "lstore" -> [s EXCEPT !.loc[x.a] = Val(s, x.b)]
         [] x.op = "gptr" -> Def(s, id, Val(s, x.a))
         [] x.op = "gload" ->
                IF Val(s, x.a) \in Cells THEN Def(s, id, s.mem[Val(s, x.a)]) ELSE Fault(s)
         [] x.op = "gstore" ->
                IF Val(s, x.a) \in Cells THEN [s EXCEPT !.mem[Val(s, x.a)] = Val(s, x.b)]
                ELSE Fault(s)
         [] x.op = "atomic" ->
                IF ir.st[x.a].op = "alloca"
                THEN Def([s EXCEPT !.loc[x.a] = @ + Val(s, x.b)], id, s.loc[x.a])
                ELSE IF Val(s, x.a) \in Cells
                     THEN Def([s EXCEPT !.mem[Val(s, x.a)] = @ + Val(s, x.b)], id, s.mem[Val(s, x.a)])
                     ELSE Fault(s)
         [] x.op = "if" -> RunBlock(ir, IF Val(s, x.a) # 0 THEN x.t ELSE x.f, 1, s)
         [] x.op = "while" -> RunWhile(ir, id, s)
         [] x.op = "for" -> RunFor(ir, id, Val(s, x.a), Val(s, x.b), s)
         [] x.op = "idx" -> Def(s, id, Val(s, x.a))
         [] x.op = "wctl" -> IF Val(s, x.b) = 0 THEN [s EXCEPT !.st = "brk"] ELSE s
         [] x.op = "cont" -> [s EXCEPT !.st = "cont"]

Fuel == 12      \* iterations of all loops of one run

Start(p, mem) ==
    [env |-> << >>, loc |-> << >>, mem |-> mem, arg |-> p, st |-> "run", fuel |-> Fuel]

(* The outcome a user of the kernel sees: how it ended and the field.         *)
Outcome(ir, p, mem) ==
    LET s == RunBlock(ir, 1, 1, Start(p, mem)) IN [st |-> s.st, mem |-> s.mem]
=============================================================================
