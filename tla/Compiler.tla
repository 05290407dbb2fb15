------------------------------- MODULE Compiler -------------------------------
(* The compilation of a kernel (taichi/transforms/compile_to_offloads.cpp)    *)
(* whose statements make one serial offloaded task: every top-level loop is   *)
(* serialized (ti.loop_config(serialize=True)).                               *)
EXTENDS CompilePasses, LowerAst

CONSTANTS
    Kernels,    \* the kernels compiled, in the form of KernelAst
    Args,       \* values of the kernel's argument
    Memories    \* contents of the field before the kernel

VARIABLES
    ast,        \* the kernel as the Python frontend built it
    meant,      \* what it does on each argument and field, kept for MeaningKept
    ir,         \* what the passes have made of it so far
    pass,       \* the next pass
    step,       \* inside full_simplify, the next of its passes
    modified,   \* has this iteration of full_simplify changed anything?
    rounds      \* iterations the full_simplify under way has completed
vars == <<ast, meant, ir, pass, step, modified, rounds>>

(* The order of compile_to_offloads and offload_to_executable.                *)
Passes ==
    <<"lower", "immutable", "simplify1", "simplify2", "offload", "cfg", "simplify3",
      "demote1", "cache", "demote2", "simplify4", "done">>
After(p) == Passes[Locate(Passes, p) + 1]
FullSimplify == {"simplify1", "simplify2", "simplify3", "simplify4"}
Offloaded == pass \in {"cfg", "simplify3", "simplify4"}

Init ==
    /\ ast \in Kernels
    /\ meant = [x \in Args \X Memories |-> Meaning(ast, x[1], x[2])]
    /\ ir = [st |-> << >>, body |-> <<<< >>>>]
    /\ pass = "lower"
    /\ step = 1 /\ modified = FALSE /\ rounds = 0

(* A pass that runs once.                                                     *)
Run(p, result) ==
    /\ pass = p
    /\ \E r \in {result} : ir' = Collect(r)
    /\ pass' = After(p)
    /\ UNCHANGED <<ast, meant, step, modified, rounds>>

Lower == Run("lower", lower_ast(ast))
EliminateImmutable == Run("immutable", eliminate_immutable_local_vars(ir))
(* offload.cpp moves the statements into the body of a serial task, in order. *)
Offload == Run("offload", ir)
OptimizeByCfg == Run("cfg", cfg_optimization(ir, Offloaded))
DemoteAtomics == \E p \in {"demote1", "demote2"} : Run(p, demote_atomics(ir))
CacheGlobals == Run("cache", cache_loop_invariant_global_vars(ir))

(* The passes of one iteration of full_simplify.                              *)
Steps == 12
SimplifyStep(i, result) ==
    /\ pass \in FullSimplify /\ step = i
    /\ \E r \in {result} : ir' = Collect(r)
    /\ modified' = (modified \/ ir' # ir)
    /\ step' = i + 1
    /\ UNCHANGED <<ast, meant, pass, rounds>>

ExtractConstant == SimplifyStep(1, extract_constant(ir))
EliminateUnreachable == SimplifyStep(2, unreachable_code_elimination(ir))
SimplifyBinaryOps == SimplifyStep(3, binary_op_simplify(ir))
FoldConstants == SimplifyStep(4, constant_fold(ir))
Die == \E i \in {5, 8, 10} : SimplifyStep(i, die(ir))
SimplifyAlgebra == SimplifyStep(6, alg_simp(ir))
MoveLoopInvariants == SimplifyStep(7, loop_invariant_code_motion(ir))
SimplifyBlocks == SimplifyStep(9, simplify(ir))
ShareSubexpressions == SimplifyStep(11, whole_kernel_cse(ir))
(* first_iteration: the control-flow graph passes run once.                   *)
SimplifyByCfg == SimplifyStep(12, IF rounds = 0 THEN cfg_optimization(ir, Offloaded) ELSE ir)

(* full_simplify goes on until an iteration changes nothing.                  *)
EndIterationOfSimplify ==
    /\ pass \in FullSimplify /\ step = Steps + 1
    /\ step' = 1 /\ modified' = FALSE
    /\ IF modified THEN rounds' = rounds + 1 /\ UNCHANGED pass
       ELSE rounds' = 0 /\ pass' = After(pass)
    /\ UNCHANGED <<ast, meant, ir>>

Done == pass = "done" /\ UNCHANGED vars

Next ==
    \/ Lower \/ EliminateImmutable \/ Offload \/ OptimizeByCfg
    \/ DemoteAtomics \/ CacheGlobals
    \/ ExtractConstant \/ EliminateUnreachable \/ SimplifyBinaryOps \/ FoldConstants
    \/ Die \/ SimplifyAlgebra \/ MoveLoopInvariants \/ SimplifyBlocks
    \/ ShareSubexpressions \/ SimplifyByCfg \/ EndIterationOfSimplify
    \/ Done

Spec == Init /\ [][Next]_vars

-----------------------------------------------------------------------------
(* After every pass the program does to the field what the kernel means, on   *)
(* every argument and field the kernel itself is defined on: no pass loses,   *)
(* invents or reorders an effect, leaves the field, or changes a value.  The  *)
(* values of expressions are those of docs/lang/articles/reference/           *)
(* operator.md, where `a // b` is the "floored quotient of `a` and `b`" (:22).*)
MeaningKept ==
    pass # "lower" =>
        \A p \in Args, mem \in Memories :
            meant[p, mem].st = "run" => Outcome(ir, p, mem) = meant[p, mem]

(* After every pass each operand is computed where its user can see it:       *)
(* earlier in the same block, or in an enclosing block before the statement   *)
(* that holds the user (irpass::analysis::verify, run after most passes,      *)
(* accepts any statement that comes earlier in the text); a loop index is     *)
(* read inside its loop, and a break or continue stands in a loop.  In sight  *)
(* of the i-th statement of block b are the statements seen and the loops     *)
(* around it.                                                                 *)
RECURSIVE InSight(_, _, _, _)
InSight(b, i, seen, loops) ==
    b = 0 \/ i > Len(ir.body[b]) \/
    LET id == ir.body[b][i]
        s == ir.st[id]
    IN /\ Operands(s) \subseteq IF s.op = "idx" THEN loops ELSE seen
       /\ s.op \in {"wctl", "cont"} => loops # {}
       /\ InSight(s.t, 1, seen, IF IsLoop(s) THEN loops \cup {id} ELSE loops)
       /\ InSight(s.f, 1, seen, loops)
       /\ InSight(b, i + 1, seen \cup {id}, loops)
WellFormed == pass # "lower" => InSight(1, 1, {}, {})

(* Every full_simplify ends, after a few iterations: the passes do not undo   *)
(* each other's work for ever (simplify.cpp repeats them `while (true)` until *)
(* none of them changes the program).                                         *)
MaxRounds == 5
SimplifyEnds == rounds <= MaxRounds
=============================================================================
